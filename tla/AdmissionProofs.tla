--------------------------- MODULE AdmissionProofs ---------------------------
(***************************************************************************)
(* What a request meets on its way in: the file scanner's door, accounts    *)
(* and logins, API keys, the rate limiter, the providers' catalogue and the *)
(* token budgets, for any number of requests, workspaces, addresses, keys,  *)
(* credentials and days.                                                    *)
(***************************************************************************)
EXTENDS ApiKeys, RateLimit, Budget, Providers, SignIn, FileScan, SumTheorems,
        FiniteSetTheorems, SequenceTheorems, WellFoundedInduction, TLAPS

(***************************************************************************)
(* FileScan.                                                                *)
(***************************************************************************)
ScanStages == {"idle", "record", "forward", "bind", "owner", "fetch", "done"}

Scans == [pc : ScanStages, ws : Tenant \cup {Nothing},
             mode : {"sync", "async", "poll", Nothing}, task : Task \cup {Nothing}]

ScanTypeOK ==
  /\ recorded \subseteq Scan /\ seen \subseteq Scan
  /\ task \in [Task -> Scan \cup {Nothing, "gone"}]
  /\ bound \in [Task -> Tenant \cup {Nothing}]
  /\ given \subseteq [to : Tenant, of : Scan]
  /\ scan \in [Scan -> Scans]

(* A request that has begun has a workspace, and names a task where it needs one. *)
ScanShape ==
  \A r \in Scan :
    /\ scan[r].pc \notin {"idle", "done"} => scan[r].ws \in Tenant
    /\ scan[r].pc \in {"bind", "owner", "fetch"} => scan[r].task \in Task

(* The record comes before the bytes. *)
RecordFirst == seen \subseteq recorded /\ \A r \in Scan : scan[r].pc = "forward" => r \in recorded

ScanBegun(r) == scan[r].pc # "idle"

(* A task belongs to a request that has begun, and a result to one that had. *)
TasksStarted ==
  /\ \A t \in Task : task[t] \in Scan => ScanBegun(task[t])
  /\ \A g \in given : ScanBegun(g.of)

(* Whom a task may be given to. *)
TaskHome(t, w) == task[t] # Nothing /\ (task[t] \in Scan => scan[task[t]].ws = w)

(* A request binds the task it started, a binding names the starter's workspace, and a poll that
   was let through asks for a task of its own workspace. *)
BindingsTrue ==
  /\ \A r \in Scan : scan[r].pc = "bind" => task[scan[r].task] \in {r, "gone"}
  /\ \A t \in Task : bound[t] # Nothing => TaskHome(t, bound[t])
  /\ \A r \in Scan : scan[r].pc = "fetch" => TaskHome(scan[r].task, scan[r].ws)

GivenHome == \A g \in given : scan[g.of].ws = g.to

ScanInv == ScanTypeOK /\ ScanShape /\ RecordFirst /\ TasksStarted /\ BindingsTrue /\ GivenHome

(* Nothing has happened at the start. *)
LEMMA ScanStart == ScansInit => ScanInv
<1> SUFFICES ASSUME ScansInit PROVE ScanInv
  OBVIOUS
<1> USE DEF ScansInit, NoScan
<1>1. ScanTypeOK
  BY DEF ScanTypeOK, Scans, ScanStages
<1>2. TasksStarted /\ BindingsTrue /\ GivenHome
  BY ScansAssumption DEF TasksStarted, BindingsTrue, GivenHome
<1> QED BY <1>1, <1>2 DEF ScanInv, ScanShape, RecordFirst

(* A step leaves the other handlers alone, and the workspace of one that has begun. *)
LEMMA OtherScansStand ==
  ASSUME ScanTypeOK, NEW r \in Scan, ScanStep(r)
  PROVE  /\ \A q \in Scan \ {r} : scan'[q] = scan[q]
         /\ ScanBegun(r) => ScanBegun(r)' /\ scan'[r].ws = scan[r].ws
BY DEF ScanTypeOK, Scans, ScanStep, ScanBegun, ScanAt, Goto, AuthorizeScan, Kickoff, RecordScan, Forward,
       ForwardAsync, BindTask, PollOwner, PollFetch, ScanFails

(* Every step of a request keeps the types and what a stage needs. *)
LEMMA ScanTypes ==
  ASSUME ScanTypeOK, ScanShape, NEW r \in Scan, ScanStep(r)
  PROVE  ScanTypeOK' /\ ScanShape'
<1> USE DEF ScanTypeOK, ScanShape, Scans, ScanStages, ScanAt, Goto
<1>1. CASE RecordScan(r)
  BY <1>1 DEF RecordScan
<1>2. CASE Forward(r)
  BY <1>2 DEF Forward, proxy_scan
<1>3. CASE BindTask(r)
  BY <1>3 DEF BindTask
<1>4. CASE PollOwner(r)
  BY <1>4 DEF PollOwner
<1>5. CASE PollFetch(r)
  BY <1>5 DEF PollFetch
<1>6. CASE ScanFails(r)
  BY <1>6 DEF ScanFails
<1>7. ASSUME NEW t \in Task, ForwardAsync(r, t) PROVE ScanTypeOK' /\ ScanShape'
  BY <1>7 DEF ForwardAsync, proxy_scan
<1>8. ASSUME NEW w \in Tenant, NEW role, Kickoff(r, w, role) PROVE ScanTypeOK' /\ ScanShape'
  BY <1>8 DEF Kickoff, AuthorizeScan
<1>9. ASSUME NEW w \in Tenant, NEW role, NEW t \in Task,
             AuthorizeScan(r, w, role, "owner", "poll", t)
      PROVE  ScanTypeOK' /\ ScanShape'
  BY <1>9 DEF AuthorizeScan
<1> QED BY <1>1, <1>2, <1>3, <1>4, <1>5, <1>6, <1>7, <1>8, <1>9 DEF ScanStep

(* Every step of a request keeps the rest of the invariant. *)
LEMMA ScanStepKeeps ==
  ASSUME ScanInv, NEW r \in Scan, ScanStep(r)
  PROVE  RecordFirst' /\ TasksStarted' /\ BindingsTrue' /\ GivenHome'
<1> USE DEF ScanInv, ScanAt, Goto, ScanBegun
<1>0. ScanTypeOK' /\ ScanShape'
  BY ScanTypes
<1>a. /\ \A q \in Scan \ {r} : scan'[q] = scan[q]
      /\ ScanBegun(r) => ScanBegun(r)' /\ scan'[r].ws = scan[r].ws
  BY OtherScansStand
<1>1. CASE RecordScan(r)
  <2>1. RecordFirst'
    BY <1>1 DEF RecordScan, RecordFirst, ScanTypeOK
  <2>2. /\ scan[r].pc = "record" /\ scan'[r].pc \in {"forward", "done"}
        /\ UNCHANGED <<task, bound, given>>
    BY <1>1 DEF RecordScan, ScanTypeOK, Scans
  <2>3. TasksStarted' /\ GivenHome'
    BY <1>a, <2>2 DEF TasksStarted, GivenHome, ScanTypeOK
  <2>4. BindingsTrue'
    BY <1>a, <2>2 DEF BindingsTrue, TaskHome, TasksStarted, ScanTypeOK, ScanShape
  <2> QED BY <2>1, <2>3, <2>4
<1>2. CASE Forward(r)
  <2>1. RecordFirst'
    BY <1>2, <1>a DEF Forward, proxy_scan, RecordFirst, ScanTypeOK, Scans
  <2>2. /\ scan[r].pc = "forward" /\ scan'[r].pc = "done"
        /\ UNCHANGED <<task, bound, given>>
    BY <1>2 DEF Forward, ScanTypeOK, Scans
  <2> QED BY <1>a, <2>1, <2>2 DEF TasksStarted, GivenHome, BindingsTrue, TaskHome, ScanTypeOK, ScanShape
<1>3. CASE BindTask(r)
  <2>1. /\ scan[r].pc = "bind" /\ scan'[r].pc = "done"
        /\ bound' = [bound EXCEPT ![scan[r].task] = scan[r].ws]
        /\ UNCHANGED <<recorded, seen, task, given>>
    BY <1>3 DEF BindTask, ScanTypeOK, Scans
  <2>2. RecordFirst' /\ TasksStarted' /\ GivenHome'
    BY <1>a, <2>1 DEF RecordFirst, TasksStarted, GivenHome, ScanTypeOK
  <2>3. TaskHome(scan[r].task, scan[r].ws)
    BY <2>1, ScansAssumption DEF BindingsTrue, TaskHome
  <2> QED BY <1>a, <2>1, <2>2, <2>3 DEF BindingsTrue, TaskHome, TasksStarted, ScanTypeOK, ScanShape
<1>4. CASE PollOwner(r)
  <2>1. /\ scan[r].pc = "owner" /\ scan'[r].pc = (IF Owned(r) THEN "fetch" ELSE "done")
        /\ scan'[r].task = scan[r].task
        /\ UNCHANGED <<recorded, seen, task, bound, given>>
    BY <1>4 DEF PollOwner, ScanTypeOK, Scans
  <2>2. RecordFirst' /\ TasksStarted' /\ GivenHome'
    BY <1>a, <2>1 DEF RecordFirst, TasksStarted, GivenHome, ScanTypeOK
  <2>3. Owned(r) => TaskHome(scan[r].task, scan[r].ws)
    BY <2>1, ScansAssumption DEF Owned, BindingsTrue, ScanShape
  <2> QED BY <1>a, <2>1, <2>2, <2>3 DEF BindingsTrue, TaskHome, TasksStarted, ScanTypeOK, ScanShape
<1>5. CASE PollFetch(r)
  <2>1. /\ scan[r].pc = "fetch" /\ scan'[r].pc = "done"
        /\ UNCHANGED <<recorded, seen, task, bound>>
    BY <1>5 DEF PollFetch, ScanTypeOK, Scans
  <2>2. \A g \in given' \ given :
          /\ task[scan[r].task] \in Scan
          /\ g = [to |-> scan[r].ws, of |-> task[scan[r].task]]
    BY <1>5 DEF PollFetch
  <2>3. RecordFirst' /\ BindingsTrue'
    BY <1>a, <2>1 DEF RecordFirst, BindingsTrue, TaskHome, TasksStarted, ScanTypeOK, ScanShape
  <2>4. TasksStarted' /\ GivenHome'
    BY <1>a, <2>1, <2>2 DEF TasksStarted, GivenHome, BindingsTrue, TaskHome, ScanTypeOK, ScanShape
  <2> QED BY <2>3, <2>4
<1>6. CASE ScanFails(r)
  <2>1. ScanBegun(r) /\ scan'[r].pc = "done" /\ UNCHANGED <<recorded, seen, task, bound, given>>
    BY <1>6 DEF ScanFails, ScanTypeOK, Scans
  <2> QED BY <1>a, <2>1 DEF RecordFirst, TasksStarted, GivenHome, BindingsTrue, TaskHome, ScanTypeOK, ScanShape
<1>7. ASSUME NEW t \in Task, ForwardAsync(r, t)
      PROVE  RecordFirst' /\ TasksStarted' /\ BindingsTrue' /\ GivenHome'
  <2>1. /\ scan[r].pc = "forward" /\ scan'[r].pc \in {"bind", "done"}
        /\ scan'[r].pc = "bind" => scan'[r].task = t
        /\ task[t] = Nothing /\ task' = [task EXCEPT ![t] = r]
        /\ UNCHANGED <<recorded, bound, given>> /\ seen' = seen \cup {r}
    BY <1>7 DEF ForwardAsync, proxy_scan, ScanTypeOK, Scans
  <2>2. RecordFirst' /\ TasksStarted' /\ GivenHome'
    BY <1>a, <2>1 DEF RecordFirst, TasksStarted, GivenHome, ScanTypeOK
  <2>3. \A u \in Task : task[u] # Nothing => u # t /\ task'[u] = task[u]
    BY <2>1 DEF ScanTypeOK
  <2>4. \A q \in Scan : scan'[q].pc = "bind" => task'[scan'[q].task] \in {q, "gone"}
    BY <1>a, <2>1, <2>3, ScansAssumption DEF BindingsTrue, ScanTypeOK, ScanShape
  <2>5. \A u \in Task, w \in Tenant : TaskHome(u, w) => TaskHome(u, w)'
    BY <1>a, <2>1, <2>3 DEF TaskHome, TasksStarted, ScanTypeOK
  <2>6. \A u \in Task : bound'[u] # Nothing => TaskHome(u, bound[u])'
    BY <2>1, <2>5 DEF BindingsTrue, ScanTypeOK
  <2>7. \A q \in Scan : (scan[q].pc = "fetch" => TaskHome(scan[q].task, scan[q].ws))'
    BY <1>a, <2>1, <2>5 DEF BindingsTrue, ScanTypeOK, ScanShape
  <2> QED BY <2>1, <2>2, <2>4, <2>6, <2>7 DEF BindingsTrue
<1>8. ASSUME NEW w \in Tenant, NEW role, Kickoff(r, w, role)
      PROVE  RecordFirst' /\ TasksStarted' /\ BindingsTrue' /\ GivenHome'
  <2>1. /\ scan[r].pc = "idle" /\ scan'[r].pc \in {"record", "done"}
        /\ UNCHANGED <<recorded, seen, task, bound, given>>
    BY <1>8 DEF Kickoff, AuthorizeScan, ScanTypeOK, Scans
  <2> QED BY <1>a, <2>1 DEF RecordFirst, TasksStarted, GivenHome, BindingsTrue, TaskHome, ScanTypeOK, ScanShape
<1>9. ASSUME NEW w \in Tenant, NEW role, NEW t \in Task,
             AuthorizeScan(r, w, role, "owner", "poll", t)
      PROVE  RecordFirst' /\ TasksStarted' /\ BindingsTrue' /\ GivenHome'
  <2>1. /\ scan[r].pc = "idle" /\ scan'[r].pc \in {"owner", "done"}
        /\ UNCHANGED <<recorded, seen, task, bound, given>>
    BY <1>9 DEF AuthorizeScan, ScanTypeOK, Scans
  <2> QED BY <1>a, <2>1 DEF RecordFirst, TasksStarted, GivenHome, BindingsTrue, TaskHome, ScanTypeOK, ScanShape
<1> QED BY <1>1, <1>2, <1>3, <1>4, <1>5, <1>6, <1>7, <1>8, <1>9 DEF ScanStep

(* What is lost takes nothing but itself away. *)
LEMMA ScanLoss ==
  ASSUME ScanInv, NEW t \in Task, LoseBinding(t) \/ LoseTask(t)
  PROVE  ScanInv'
<1> USE DEF ScanInv
<1>1. CASE LoseBinding(t)
  <2>1. UNCHANGED <<recorded, task, seen, given, scan>> /\ bound' = [bound EXCEPT ![t] = Nothing]
    BY <1>1 DEF LoseBinding
  <2> QED BY <2>1 DEF ScanTypeOK, ScanShape, RecordFirst, TasksStarted, ScanBegun, BindingsTrue, TaskHome, GivenHome
<1>2. CASE LoseTask(t)
  <2>1. UNCHANGED <<recorded, bound, seen, given, scan>> /\ task' = [task EXCEPT ![t] = "gone"]
    BY <1>2 DEF LoseTask
  <2>2. task[t] \in Scan /\ "gone" # Nothing
    BY <1>2, ScansAssumption DEF LoseTask
  <2> QED BY <2>1, <2>2, ScansAssumption DEF ScanTypeOK, ScanShape, RecordFirst, TasksStarted,
                      ScanBegun, BindingsTrue, TaskHome, GivenHome
<1> QED BY <1>1, <1>2

(* A file that reached the scanner is on record, and a result is given only to the workspace that
   started its scan: scan_file_task refuses a task without a binding to the caller's workspace. *)
THEOREM ScansHold == ScansSpec => []ScansStayHome
<1>1. ScansInit => ScanInv
  BY ScanStart
<1>2. ScanInv /\ [ScansNext]_scanVars => ScanInv'
  <2> SUFFICES ASSUME ScanInv, [ScansNext]_scanVars PROVE ScanInv'
    OBVIOUS
  <2>1. CASE UNCHANGED scanVars
    BY <2>1 DEF scanVars, ScanInv, ScanTypeOK, ScanShape, RecordFirst, TasksStarted, ScanBegun, BindingsTrue, TaskHome,
                GivenHome
  <2>2. ASSUME NEW r \in Scan, ScanStep(r) PROVE ScanInv'
    BY <2>2, ScanTypes, ScanStepKeeps DEF ScanInv
  <2>3. ASSUME NEW t \in Task, LoseBinding(t) \/ LoseTask(t) PROVE ScanInv'
    BY <2>3, ScanLoss
  <2> QED BY <2>1, <2>2, <2>3 DEF ScansNext
<1>3. ScanInv => ScansStayHome
  BY DEF ScanInv, RecordFirst, GivenHome, ScansStayHome
<1> QED BY <1>1, <1>2, <1>3, PTL DEF ScansSpec

(***************************************************************************)
(* SignIn.                                                                  *)
(***************************************************************************)
Decisions == {"access", "challenge", "enroll"}
ByCredential == {"password", "oidc"}
Accounts == [ws : Login \cup {Home}, role : ValidRoles, confirmed : BOOLEAN]
Logins == [pc : {"idle", "record", "issue", "exchange", "found", "seed", "counted", "audit", "done"},
           op : {"none", "password", "oidc", "authorize", "register", "create"},
           email : Email \cup {Unknown}, state : Login \cup {Unknown},
           decision : Decisions \cup {Unknown}, ws : Login \cup {Home, Unknown},
           role : ValidRoles \cup {Unknown}]

AccountTypeOK ==
  /\ user \in [Email -> Accounts \cup {Unknown}]
  /\ workspaces \subseteq Login \cup {Home} /\ rules = workspaces /\ Home \in workspaces
  /\ states \subseteq Login
  /\ login \in [Login -> Logins]

(* An address that has an account, which no owner or administrator has. *)
Employee(e) == e \in Email /\ user[e] # Unknown /\ user[e].role \notin Privileged

LoginRow(r, e, op) == [by |-> r, email |-> e, method |-> op, outcome |-> "session_issued"]

(* What a request holds where it stands. *)
LoginOk(r) ==
  /\ login[r].pc \notin {"idle", "exchange", "done"} => login[r].email \in Email
  /\ login[r].pc \in {"record", "issue"} => login[r].decision \in Decisions
  /\ login[r].pc = "record" => login[r].op \in ByCredential
  /\ login[r].pc = "issue" => login[r].op \in ByCredential \cup {"register"}
  /\ login[r].pc = "exchange" => login[r].op = "oidc"
  /\ login[r].pc \in {"counted", "audit"} => login[r].role \in ValidRoles /\ login[r].ws \in workspaces
  /\ login[r].pc \in {"found", "seed"} => login[r].op = "register"
  /\ login[r].pc = "idle" => login[r].op = "none"
  /\ login[r].op # "oidc" => login[r].state = Unknown

(* A request that is to open a session opens an employee's, and says so before it does. *)
AccessOk(r) ==
  login[r].pc \in {"record", "issue"} /\ login[r].op \in ByCredential /\ login[r].decision = "access" =>
    /\ Employee(login[r].email)
    /\ login[r].pc = "issue" => LoginRow(r, login[r].email, login[r].op) \in loginTrail

(* An address that is being inserted has no account, and is inserted by one transaction. *)
InsertOk(r) ==
  login[r].pc \in {"seed", "audit"} =>
    /\ user[login[r].email] = Unknown
    /\ \A q \in Login : login[q].pc \in {"seed", "audit"} /\ login[q].email = login[r].email => q = r

(* A state is stored by an authorize that has ended, and spent by one callback. *)
Authorized(s) == s \in Login /\ login[s].op = "authorize" /\ login[s].pc = "done"
StatesOk == \A s \in states : Authorized(s)
SpentOk(r) ==
  login[r].op = "oidc" =>
    /\ Authorized(login[r].state) /\ login[r].state \notin states
    /\ \A q \in Login : login[q].op = "oidc" /\ login[q].state = login[r].state => q = r

(* A session is what its request opened as it ended. *)
SessionOk(s) ==
  /\ s.by \in Login /\ login[s.by].pc = "done"
  /\ s = [by |-> s.by, email |-> login[s.by].email, op |-> login[s.by].op, state |-> login[s.by].state]
  /\ s.op # "register" => /\ s.op \in ByCredential /\ Employee(s.email)
                          /\ LoginRow(s.by, s.email, s.op) \in loginTrail

(* A registered workspace has the owner its registration inserted. *)
WorkspaceOk(w) ==
  w \in workspaces \ {Home} =>
    /\ login[w].pc \in {"issue", "done"} /\ login[w].email \in Email
    /\ user[login[w].email] # Unknown /\ user[login[w].email].ws = w
    /\ user[login[w].email].role = "owner"

(* An account of a registered workspace is its registrant's, or a row says who made it. *)
Explained(e) ==
  \/ e = login[user[e].ws].email
  \/ \E r \in Login : CreatedRow(r, user[e].ws, e, user[e].role) \in loginTrail
AccountOk(e) ==
  user[e] # Unknown => user[e].ws \in workspaces /\ (user[e].ws # Home => Explained(e))

(* A row of the trail that says who was created. *)
CreatedOk(l) ==
  l.method = "create" => /\ l.email \in Email /\ user[l.email] # Unknown
                         /\ user[l.email].ws = l.ws /\ user[l.email].role = l.outcome

AccountsInv ==
  /\ AccountTypeOK
  /\ \A r \in Login : LoginOk(r) /\ AccessOk(r) /\ InsertOk(r) /\ SpentOk(r) /\ WorkspaceOk(r)
  /\ StatesOk
  /\ \A s \in session : SessionOk(s)
  /\ \A e \in Email : AccountOk(e)
  /\ \A l \in loginTrail : CreatedOk(l)

(* Requests, states, sessions and registered workspaces are none at the start. *)
LEMMA AccountsStart == AccountsInit => AccountsInv
<1> SUFFICES ASSUME AccountsInit PROVE AccountsInv
  OBVIOUS
<1>1. ASSUME NEW e \in Email, user[e] # Unknown PROVE user[e] \in Accounts /\ user[e].ws = Home
  <2>1. PICK role \in {"owner", "developer"} : user[e] = Account(Home, role)
    BY <1>1 DEF AccountsInit
  <2> QED BY <2>1 DEF Account, Accounts, ValidRoles
<1>2. \A r \in Login : login[r] \in Logins /\ login[r].pc = "idle" /\ login[r].op = "none"
                       /\ login[r].state = Unknown
  BY DEF AccountsInit, NoLogin, Logins
<1>3. AccountTypeOK
  <2>1. user \in [Email -> Accounts \cup {Unknown}]
    BY <1>1 DEF AccountsInit
  <2>2. login \in [Login -> Logins]
    BY <1>2 DEF AccountsInit
  <2> QED BY <2>1, <2>2 DEF AccountTypeOK, AccountsInit
<1>4. \A r \in Login : LoginOk(r) /\ AccessOk(r) /\ InsertOk(r) /\ SpentOk(r)
  BY <1>2 DEF LoginOk, AccessOk, InsertOk, SpentOk
<1>5. \A r \in Login : WorkspaceOk(r)
  BY DEF AccountsInit, WorkspaceOk
<1>6. \A e \in Email : AccountOk(e)
  BY <1>1 DEF AccountsInit, AccountOk
<1> QED BY <1>3, <1>4, <1>5, <1>6 DEF AccountsInv, AccountsInit, StatesOk

(* A step of request r, which has not ended, alone. *)
Moves(r, l) ==
  /\ l \in Logins /\ login' = [login EXCEPT ![r] = l]
  /\ login[r].pc # "done"
  /\ login[r].pc = "issue" => l.pc = "done" /\ l.email = login[r].email

(* It leaves the others, what has ended and what is authorized. *)
LEMMA MovesIs ==
  ASSUME AccountsInv, NEW r \in Login, NEW l, Moves(r, l)
  PROVE  /\ login' \in [Login -> Logins] /\ login'[r] = l
         /\ \A q \in Login \ {r} : login'[q] = login[q]
         /\ \A s : Authorized(s) => s # r /\ Authorized(s)'
BY DEF Moves, AccountsInv, AccountTypeOK, Authorized

(* What is written to the trail stays, and names nobody created. *)
TrailGrows == loginTrail \subseteq loginTrail' /\ \A x \in loginTrail' \ loginTrail : x.method # "create"

(* A registered workspace keeps its registrant, and with the trail every account its explanation. *)
LEMMA ExplainedKept ==
  ASSUME AccountsInv, NEW r \in Login, NEW l, Moves(r, l), login[r].pc = "issue" \/ r \notin workspaces,
         loginTrail \subseteq loginTrail', NEW e \in Email, user[e] # Unknown, user[e].ws # Home,
         user'[e].ws = user[e].ws, user'[e].role = user[e].role
  PROVE  Explained(e)'
<1>1. user[e].ws \in workspaces /\ user[e].ws \in Login /\ Explained(e)
  BY DEF AccountsInv, AccountOk, AccountTypeOK, Accounts
<1>2. login'[user[e].ws].email = login[user[e].ws].email
  BY <1>1, MovesIs DEF Moves
<1> QED BY <1>1, <1>2 DEF Explained

(* A request that moves has registered nothing yet, or is about to issue. *)
LEMMA MovesBefore ==
  ASSUME AccountsInv, NEW r \in Login, NEW l, Moves(r, l)
  PROVE  login[r].pc = "issue" \/ r \notin workspaces
BY AccountsAssumption DEF AccountsInv, WorkspaceOk, Moves

(* A request that moves and changes no account keeps what is known of the others. *)
LEMMA OthersKept ==
  ASSUME AccountsInv, NEW r \in Login, NEW l, Moves(r, l), TrailGrows,
         UNCHANGED <<user, workspaces, rules>>, InsertOk(r)'
  PROVE  /\ \A q \in Login \ {r} : LoginOk(q)' /\ AccessOk(q)' /\ InsertOk(q)'
         /\ \A q \in Login : WorkspaceOk(q)'
         /\ \A s \in session : SessionOk(s)'
         /\ \A e \in Email : AccountOk(e)'
         /\ \A x \in loginTrail' : CreatedOk(x)'
<1>1. /\ login'[r] = l /\ l \in Logins /\ login[r] \in Logins
      /\ \A q \in Login \ {r} : login'[q] = login[q]
  BY MovesIs DEF Moves, AccountsInv, AccountTypeOK
<1>2. ASSUME NEW q \in Login \ {r} PROVE LoginOk(q)' /\ AccessOk(q)' /\ InsertOk(q)'
  <2>1. LoginOk(q)'
    BY <1>1 DEF AccountsInv, LoginOk
  <2>2. AccessOk(q)'
    BY <1>1 DEF AccountsInv, AccessOk, Employee, TrailGrows
  <2>3. InsertOk(q)'
    BY <1>1 DEF AccountsInv, InsertOk
  <2> QED BY <2>1, <2>2, <2>3
<1>3. \A q \in Login : WorkspaceOk(q)'
  BY <1>1 DEF AccountsInv, WorkspaceOk, Moves
<1>4. \A s \in session : SessionOk(s)'
  BY <1>1 DEF AccountsInv, SessionOk, Employee, TrailGrows, Moves
<1>5. \A e \in Email : AccountOk(e)'
  BY ExplainedKept, MovesBefore DEF AccountsInv, AccountOk, TrailGrows
<1>6. \A x \in loginTrail' : CreatedOk(x)'
  BY DEF AccountsInv, CreatedOk, TrailGrows
<1> QED BY <1>2, <1>3, <1>4, <1>5, <1>6

(* So does one that takes no state. *)
LEMMA MoveKeeps ==
  ASSUME AccountsInv, NEW r \in Login, NEW l, Moves(r, l), TrailGrows,
         UNCHANGED <<user, workspaces, rules, states, session>>,
         l.op = "oidc" => login[r].op = "oidc" /\ l.state = login[r].state,
         LoginOk(r)', AccessOk(r)', InsertOk(r)'
  PROVE  AccountsInv'
<1>1. /\ login' \in [Login -> Logins] /\ login'[r] = l
      /\ \A q \in Login \ {r} : login'[q] = login[q]
      /\ \A s : Authorized(s) => Authorized(s)'
  BY MovesIs
<1>2. AccountTypeOK'
  BY <1>1 DEF AccountsInv, AccountTypeOK
<1>3. StatesOk'
  BY <1>1 DEF AccountsInv, StatesOk
<1>4. \A q \in Login : login'[q].op = "oidc" => login[q].op = "oidc" /\ login'[q].state = login[q].state
  BY <1>1
<1>5. \A q \in Login : SpentOk(q)'
  BY <1>1, <1>4 DEF AccountsInv, SpentOk
<1> QED BY <1>2, <1>3, <1>5, OthersKept DEF AccountsInv

(* A request may end anywhere: what it has written by then stands by itself. *)
LEMMA EndKeeps ==
  ASSUME AccountsInv, NEW r \in Login, login[r].pc # "done", Done(r), TrailGrows,
         UNCHANGED <<user, workspaces, rules, states, session>>
  PROVE  AccountsInv'
<1> DEFINE l == [login[r] EXCEPT !.pc = "done"]
<1>1. login[r] \in Logins /\ login \in [Login -> Logins] /\ LoginOk(r)
  BY DEF AccountsInv, AccountTypeOK
<1>2. /\ l \in Logins /\ l.pc = "done" /\ l.op = login[r].op /\ l.state = login[r].state
      /\ l.email = login[r].email
  BY <1>1 DEF Logins
<1>3. login' = [login EXCEPT ![r] = l]
  BY <1>1 DEF Done
<1> HIDE DEF l
<1>4. Moves(r, l)
  BY <1>2, <1>3 DEF Moves
<1>5. login'[r] = l
  BY <1>1, <1>3
<1>6. LoginOk(r)' /\ AccessOk(r)' /\ InsertOk(r)'
  BY <1>1, <1>2, <1>5 DEF LoginOk, AccessOk, InsertOk
<1> QED BY <1>2, <1>4, <1>6, MoveKeeps

(* LoginFails rolls back; IssuePurpose hands out a token that is no session. *)
LEMMA LoginEndKeeps ==
  ASSUME AccountsInv, NEW r \in Login, LoginFails(r) \/ IssuePurpose(r)
  PROVE  AccountsInv'
<1>1. /\ login[r].pc # "done" /\ Done(r) /\ loginTrail' = loginTrail
      /\ UNCHANGED <<user, workspaces, rules, states, session>>
  BY DEF LoginFails, IssuePurpose, LoginAt
<1>2. TrailGrows
  BY <1>1 DEF TrailGrows
<1> QED BY <1>1, <1>2, EndKeeps

(* decide_2fa lets no owner or administrator in without a second factor. *)
LEMMA DecisionIs ==
  ASSUME NEW role, NEW confirmed \in BOOLEAN
  PROVE  /\ decide_2fa(role, confirmed) \in Decisions
         /\ decide_2fa(role, confirmed) = "access" => role \notin Privileged
BY DEF decide_2fa, Decisions

(* Found: a login by password or through a provider has an account before it. *)
LEMMA FoundKeeps ==
  ASSUME AccountsInv, NEW r \in Login, NEW op \in ByCredential, NEW e \in Email, user[e] # Unknown,
         Found(r, op, e), login[r].pc = (IF op = "password" THEN "idle" ELSE "exchange"),
         UNCHANGED <<user, workspaces, rules, states, loginTrail, session>>
  PROVE  AccountsInv'
<1> DEFINE d == decide_2fa(user[e].role, user[e].confirmed)
           l == [login[r] EXCEPT !.pc = "record", !.op = op, !.email = e, !.decision = d]
<1>1. login[r] \in Logins /\ login \in [Login -> Logins] /\ LoginOk(r) /\ user[e] \in Accounts
  BY DEF AccountsInv, AccountTypeOK
<1>2. d \in Decisions /\ (d = "access" => user[e].role \notin Privileged)
  BY <1>1, DecisionIs DEF Accounts
<1>3. login' = [login EXCEPT ![r] = l]
  BY <1>1 DEF Found
<1> HIDE DEF d
<1>4. /\ l \in Logins /\ l.pc = "record" /\ l.op = op /\ l.state = login[r].state
      /\ l.email = e /\ l.decision = d
  BY <1>1, <1>2 DEF Logins, ByCredential
<1> HIDE DEF l
<1>5. Moves(r, l) /\ TrailGrows /\ login'[r] = l
  BY <1>1, <1>3, <1>4 DEF Moves, TrailGrows
<1>6. op = "oidc" => login[r].op = "oidc"
  BY <1>1 DEF LoginOk
<1>7. LoginOk(r)'
  BY <1>1, <1>2, <1>4, <1>5 DEF LoginOk, ByCredential
<1>8. AccessOk(r)' /\ InsertOk(r)'
  BY <1>2, <1>4, <1>5 DEF AccessOk, InsertOk, Employee
<1> QED BY <1>4, <1>5, <1>6, <1>7, <1>8, MoveKeeps

(* Token and Exchange: a login goes on for an account, or ends. *)
LEMMA LoginBeginKeeps ==
  ASSUME AccountsInv, NEW r \in Login, NEW e \in Email, Token(r, e) \/ Exchange(r, e)
  PROVE  AccountsInv'
<1>1. /\ UNCHANGED <<user, workspaces, rules, states, loginTrail, session>>
      /\ login[r].pc \in {"idle", "exchange"}
  BY DEF Token, Exchange, LoginAt
<1>2. TrailGrows
  BY <1>1 DEF TrailGrows
<1>3. CASE Done(r)
  BY <1>1, <1>2, <1>3, EndKeeps
<1>4. CASE Token(r, e) /\ ~Done(r)
  <2>1. /\ user[Lower[e]] # Unknown /\ Found(r, "password", Lower[e]) /\ login[r].pc = "idle"
        /\ Lower[e] \in Email /\ "password" \in ByCredential
    BY <1>4, AccountsAssumption DEF Token, LoginAt, ByCredential
  <2> QED BY <1>1, <2>1, FoundKeeps
<1>5. CASE Exchange(r, e) /\ ~Done(r)
  <2>1. /\ user[e] # Unknown /\ Found(r, "oidc", e) /\ login[r].pc = "exchange"
        /\ "oidc" \in ByCredential
    BY <1>5 DEF Exchange, LoginAt, ByCredential
  <2> QED BY <1>1, <2>1, FoundKeeps
<1> QED BY <1>3, <1>4, <1>5

(* RecordLogin: the row is committed before anything is issued. *)
LEMMA RecordLoginKeeps == ASSUME AccountsInv, NEW r \in Login, RecordLogin(r) PROVE AccountsInv'
<1> DEFINE new == [by |-> r, email |-> login[r].email, method |-> login[r].op,
                   outcome |-> login_outcome(login[r].decision)]
<1>1. /\ login[r] \in Logins /\ login \in [Login -> Logins] /\ LoginOk(r) /\ AccessOk(r)
      /\ login[r].pc = "record"
  BY DEF AccountsInv, AccountTypeOK, RecordLogin, LoginAt
<1>2. /\ loginTrail' = loginTrail \cup {new}
      /\ UNCHANGED <<user, workspaces, rules, states, session>>
  BY DEF RecordLogin
<1>3. new.method # "create"
  BY <1>1 DEF LoginOk, ByCredential
<1>4. login[r].decision = "access" => new = LoginRow(r, login[r].email, login[r].op)
  BY DEF login_outcome, LoginRow
<1> HIDE DEF new
<1>5. TrailGrows
  BY <1>2, <1>3 DEF TrailGrows
<1>6. CASE login' = [login EXCEPT ![r].pc = "done"]
  BY <1>1, <1>2, <1>5, <1>6, EndKeeps DEF Done
<1>7. CASE login' = [login EXCEPT ![r].pc = "issue"]
  <2> DEFINE l == [login[r] EXCEPT !.pc = "issue"]
  <2>1. /\ l \in Logins /\ l.pc = "issue" /\ l.op = login[r].op /\ l.state = login[r].state
        /\ l.email = login[r].email /\ l.decision = login[r].decision
    BY <1>1 DEF Logins
  <2>2. login' = [login EXCEPT ![r] = l]
    BY <1>1, <1>7
  <2> HIDE DEF l
  <2>3. Moves(r, l) /\ login'[r] = l
    BY <1>1, <2>1, <2>2 DEF Moves
  <2>4. LoginOk(r)' /\ InsertOk(r)'
    BY <1>1, <2>1, <2>3 DEF LoginOk, InsertOk
  <2>5. AccessOk(r)'
    BY <1>1, <1>2, <1>4, <2>1, <2>3 DEF AccessOk, Employee
  <2> QED BY <1>2, <1>5, <2>1, <2>3, <2>4, <2>5, MoveKeeps
<1> QED BY <1>6, <1>7 DEF RecordLogin

(* Register and CreateUser: an address, and for a user a workspace and a role, is noted. *)
LEMMA AccountBeginKeeps ==
  ASSUME AccountsInv, NEW r \in Login, NEW by \in Email, NEW e \in Email, NEW role,
         Register(r, e) \/ CreateUser(r, by, e, role)
  PROVE  AccountsInv'
<1>1. /\ UNCHANGED <<user, workspaces, rules, states, loginTrail, session>>
      /\ login[r].pc = "idle"
  BY DEF Register, CreateUser, LoginAt
<1>2. TrailGrows
  BY <1>1 DEF TrailGrows
<1>3. login[r] \in Logins /\ login \in [Login -> Logins] /\ LoginOk(r)
  BY DEF AccountsInv, AccountTypeOK
<1>4. CASE Done(r)
  BY <1>1, <1>2, <1>4, EndKeeps
<1>5. CASE Register(r, e) /\ ~Done(r)
  <2> DEFINE l == [login[r] EXCEPT !.pc = "found", !.op = "register", !.email = Lower[e]]
  <2>1. login' = [login EXCEPT ![r] = l] /\ Lower[e] \in Email
    BY <1>3, <1>5, AccountsAssumption DEF Register
  <2>2. l \in Logins /\ l.pc = "found" /\ l.op = "register" /\ l.email \in Email /\ l.state = login[r].state
    BY <1>3, <2>1 DEF Logins
  <2> HIDE DEF l
  <2>3. Moves(r, l) /\ login'[r] = l
    BY <1>1, <1>3, <2>1, <2>2 DEF Moves
  <2>4. LoginOk(r)' /\ AccessOk(r)' /\ InsertOk(r)'
    BY <1>1, <1>3, <2>2, <2>3 DEF LoginOk, AccessOk, InsertOk
  <2> QED BY <1>1, <1>2, <2>2, <2>3, <2>4, MoveKeeps
<1>6. CASE CreateUser(r, by, e, role) /\ ~Done(r)
  <2>0. PICK w \in workspaces : w = user[by].ws
    BY <1>6 DEF CreateUser, AccountsInv, AccountOk
  <2> DEFINE l == [login[r] EXCEPT !.pc = "counted", !.op = "create", !.email = e, !.ws = w, !.role = role]
  <2>1. login' = [login EXCEPT ![r] = l] /\ role \in ValidRoles /\ w \in Login \cup {Home}
    BY <1>3, <1>6, <2>0 DEF CreateUser, AccountsInv, AccountTypeOK
  <2>2. /\ l \in Logins /\ l.pc = "counted" /\ l.op = "create" /\ l.email \in Email
        /\ l.state = login[r].state /\ l.role = role /\ l.ws = w
    BY <1>3, <2>1 DEF Logins
  <2> HIDE DEF l
  <2>3. Moves(r, l) /\ login'[r] = l
    BY <1>1, <1>3, <2>1, <2>2 DEF Moves
  <2>4. LoginOk(r)' /\ AccessOk(r)' /\ InsertOk(r)'
    BY <1>1, <1>3, <2>1, <2>2, <2>3 DEF LoginOk, AccessOk, InsertOk
  <2> QED BY <1>1, <1>2, <2>2, <2>3, <2>4, MoveKeeps
<1> QED BY <1>4, <1>5, <1>6

(* InsertOwner and InsertUser: an address without an account, which nobody else is inserting. *)
LEMMA InsertKeeps ==
  ASSUME AccountsInv, NEW r \in Login, InsertOwner(r) \/ InsertUser(r)
  PROVE  AccountsInv'
<1>1. /\ UNCHANGED <<user, workspaces, rules, states, loginTrail, session>>
      /\ login[r].pc \in {"found", "counted"} /\ MayInsert(r)
  BY DEF InsertOwner, InsertUser, LoginAt
<1>2. TrailGrows
  BY <1>1 DEF TrailGrows
<1>3. login[r] \in Logins /\ login \in [Login -> Logins] /\ LoginOk(r) /\ login[r].email \in Email
  BY <1>1 DEF AccountsInv, AccountTypeOK, LoginOk
<1>4. CASE Done(r)
  BY <1>1, <1>2, <1>4, EndKeeps
<1>5. CASE ~Done(r)
  <2> DEFINE to == IF login[r].pc = "found" THEN "seed" ELSE "audit"
             l == [login[r] EXCEPT !.pc = to]
  <2>1. user[login[r].email] = Unknown /\ login' = [login EXCEPT ![r] = l]
    BY <1>3, <1>5 DEF InsertOwner, InsertUser, LoginAt
  <2>2. /\ l \in Logins /\ l.pc \in {"seed", "audit"} /\ l.op = login[r].op /\ l.email = login[r].email
        /\ l.state = login[r].state /\ l.role = login[r].role /\ l.ws = login[r].ws
        /\ l.pc = "audit" => login[r].pc = "counted"
        /\ l.pc = "seed" => login[r].pc = "found"
    BY <1>1, <1>3 DEF Logins
  <2> HIDE DEF l, to
  <2>3. Moves(r, l) /\ login'[r] = l /\ \A q \in Login \ {r} : login'[q] = login[q]
    BY <1>1, <1>3, <2>1, <2>2 DEF Moves
  <2>4. LoginOk(r)' /\ AccessOk(r)'
    BY <1>1, <1>3, <2>2, <2>3 DEF LoginOk, AccessOk
  <2>5. InsertOk(r)'
    BY <1>1, <2>1, <2>2, <2>3 DEF InsertOk, MayInsert, Inserted
  <2> QED BY <1>1, <1>2, <2>2, <2>3, <2>4, <2>5, MoveKeeps
<1> QED BY <1>4, <1>5

(* IssuePair: the session of an employee, or of who has just registered. *)
LEMMA IssuePairKeeps == ASSUME AccountsInv, NEW r \in Login, IssuePair(r) PROVE AccountsInv'
<1> DEFINE l == [login[r] EXCEPT !.pc = "done"]
<1>0. PICK new : new = [by |-> r, email |-> login[r].email, op |-> login[r].op, state |-> login[r].state]
  OBVIOUS
<1>1. /\ login[r] \in Logins /\ login \in [Login -> Logins] /\ LoginOk(r) /\ AccessOk(r)
      /\ login[r].pc = "issue" /\ login[r].decision = "access"
  BY DEF AccountsInv, AccountTypeOK, IssuePair, LoginAt
<1>2. /\ session' = session \cup {new} /\ UNCHANGED <<user, workspaces, rules, states, loginTrail>>
      /\ login' = [login EXCEPT ![r] = l]
  BY <1>0, <1>1 DEF IssuePair, Done
<1>3. /\ l \in Logins /\ l.pc = "done" /\ l.op = login[r].op /\ l.state = login[r].state
      /\ l.email = login[r].email
  BY <1>1 DEF Logins
<1>4. new.by = r /\ new.email = l.email /\ new.op = l.op
      /\ new = [by |-> r, email |-> l.email, op |-> l.op, state |-> l.state]
  BY <1>0, <1>3
<1> HIDE DEF l
<1>5. Moves(r, l) /\ TrailGrows /\ login'[r] = l
  BY <1>1, <1>2, <1>3 DEF Moves, TrailGrows
<1>6. LoginOk(r)' /\ AccessOk(r)' /\ InsertOk(r)'
  BY <1>1, <1>3, <1>5 DEF LoginOk, AccessOk, InsertOk
<1>7. /\ login' \in [Login -> Logins]
      /\ \A q \in Login \ {r} : login'[q] = login[q]
      /\ \A s : Authorized(s) => Authorized(s)'
  BY <1>5, MovesIs
<1>8. AccountTypeOK' /\ StatesOk'
  BY <1>2, <1>7 DEF AccountsInv, AccountTypeOK, StatesOk
<1>9. \A q \in Login : SpentOk(q)'
  <2>1. \A q \in Login : login'[q].op = login[q].op /\ login'[q].state = login[q].state
    BY <1>3, <1>5, <1>7
  <2> QED BY <1>2, <1>7, <2>1 DEF AccountsInv, SpentOk
<1>10. SessionOk(new)'
  <2>1. l.op # "register" => /\ l.op \in ByCredential /\ Employee(l.email)
                             /\ LoginRow(r, l.email, l.op) \in loginTrail
    BY <1>1, <1>3 DEF LoginOk, AccessOk
  <2> QED BY <1>2, <1>3, <1>4, <1>5, <2>1 DEF SessionOk, Employee
<1> QED BY <1>2, <1>5, <1>6, <1>8, <1>9, <1>10, OthersKept DEF AccountsInv

(* Authorize: a state of a request that ends here, so that nobody has spent it. *)
LEMMA AuthorizeKeeps == ASSUME AccountsInv, NEW r \in Login, Authorize(r) PROVE AccountsInv'
<1> DEFINE l == [login[r] EXCEPT !.pc = "done", !.op = "authorize"]
<1>1. login[r] \in Logins /\ login \in [Login -> Logins] /\ LoginOk(r) /\ login[r].pc = "idle"
  BY DEF AccountsInv, AccountTypeOK, Authorize, LoginAt
<1>2. /\ states' \in {states, states \cup {r}} /\ login' = [login EXCEPT ![r] = l]
      /\ UNCHANGED <<user, workspaces, rules, loginTrail, session>>
  BY <1>1 DEF Authorize
<1>3. l \in Logins /\ l.pc = "done" /\ l.op = "authorize" /\ l.state = login[r].state
  BY <1>1 DEF Logins
<1> HIDE DEF l
<1>4. Moves(r, l) /\ TrailGrows /\ login'[r] = l
  BY <1>1, <1>2, <1>3 DEF Moves, TrailGrows
<1>5. LoginOk(r)' /\ AccessOk(r)' /\ InsertOk(r)'
  BY <1>1, <1>3, <1>4 DEF LoginOk, AccessOk, InsertOk
<1>6. /\ login' \in [Login -> Logins]
      /\ \A q \in Login \ {r} : login'[q] = login[q]
      /\ \A s : Authorized(s) => s # r /\ Authorized(s)'
  BY <1>4, MovesIs
<1>7. AccountTypeOK'
  BY <1>2, <1>6 DEF AccountsInv, AccountTypeOK
<1>8. StatesOk'
  BY <1>2, <1>3, <1>4, <1>6 DEF AccountsInv, StatesOk, Authorized
<1>9. \A q \in Login : SpentOk(q)'
  BY <1>2, <1>3, <1>4, <1>6 DEF AccountsInv, SpentOk
<1> QED BY <1>2, <1>4, <1>5, <1>7, <1>8, <1>9, OthersKept DEF AccountsInv

(* Callback: GETDEL gives a stored state to one request. *)
LEMMA CallbackKeeps ==
  ASSUME AccountsInv, NEW r \in Login, NEW s \in Login, Callback(r, s)
  PROVE  AccountsInv'
<1> DEFINE l == [login[r] EXCEPT !.pc = "exchange", !.op = "oidc", !.state = s]
<1>1. /\ login[r] \in Logins /\ login \in [Login -> Logins] /\ LoginOk(r) /\ login[r].pc = "idle"
      /\ UNCHANGED <<user, workspaces, rules, loginTrail, session>> /\ TrailGrows
  BY DEF AccountsInv, AccountTypeOK, Callback, LoginAt, TrailGrows
<1>2. CASE Done(r) /\ UNCHANGED states
  BY <1>1, <1>2, EndKeeps
<1>3. CASE ConsumeState(r, s)
  <2>1. s \in states /\ states' = states \ {s} /\ login' = [login EXCEPT ![r] = l]
    BY <1>1, <1>3 DEF ConsumeState
  <2>2. l \in Logins /\ l.pc = "exchange" /\ l.op = "oidc" /\ l.state = s
    BY <1>1 DEF Logins
  <2> HIDE DEF l
  <2>3. Moves(r, l) /\ login'[r] = l
    BY <1>1, <2>1, <2>2 DEF Moves
  <2>4. LoginOk(r)' /\ AccessOk(r)' /\ InsertOk(r)'
    BY <2>2, <2>3 DEF LoginOk, AccessOk, InsertOk
  <2>5. /\ login' \in [Login -> Logins]
        /\ \A q \in Login \ {r} : login'[q] = login[q]
        /\ \A t : Authorized(t) => Authorized(t)'
    BY <2>3, MovesIs
  <2>6. AccountTypeOK' /\ StatesOk'
    BY <1>1, <2>1, <2>5 DEF AccountsInv, AccountTypeOK, StatesOk
  <2>7. Authorized(s) /\ \A q \in Login : login[q].op = "oidc" => login[q].state # s
    BY <2>1 DEF AccountsInv, StatesOk, SpentOk
  <2>8. \A q \in Login : SpentOk(q)'
    BY <2>1, <2>2, <2>3, <2>5, <2>7 DEF AccountsInv, SpentOk
  <2> QED BY <1>1, <2>3, <2>4, <2>6, <2>8, OthersKept DEF AccountsInv
<1> QED BY <1>2, <1>3 DEF Callback

(* ExpireState: a state that nobody has spent is gone. *)
LEMMA ExpireKeeps == ASSUME AccountsInv, NEW s \in Login, ExpireState(s) PROVE AccountsInv'
<1>1. states' = states \ {s} /\ UNCHANGED <<user, workspaces, rules, loginTrail, session, login>>
  BY DEF ExpireState
<1> QED BY <1>1 DEF AccountsInv, AccountTypeOK, LoginOk, AccessOk, InsertOk, SpentOk, WorkspaceOk, StatesOk,
                    Authorized, SessionOk, AccountOk, Explained, CreatedOk, Employee

(* Accounts grow: one that is there keeps its workspace and its role. *)
AccountsGrow ==
  /\ user' \in [Email -> Accounts \cup {Unknown}]
  /\ \A e \in Email : user[e] # Unknown => /\ user'[e] # Unknown
                                           /\ user'[e].ws = user[e].ws /\ user'[e].role = user[e].role

(* Then employees are employees, sessions are true, and the trail says who was created. *)
LEMMA GrowthKept ==
  ASSUME AccountsInv, AccountsGrow, loginTrail \subseteq loginTrail'
  PROVE  /\ \A e : Employee(e) => Employee(e)'
         /\ \A x \in loginTrail : CreatedOk(x)'
BY DEF AccountsGrow, AccountsInv, Employee, CreatedOk

(* The two commits: an account for an address that had none, in the workspace it says. *)
LEMMA CommitKeeps ==
  ASSUME AccountsInv, NEW r \in Login, NEW l, Moves(r, l), login[r].pc \in {"seed", "audit"},
         l.op = login[r].op, l.email = login[r].email, l.state = login[r].state,
         l.pc \in {"issue", "done"}, NEW w \in workspaces \cup {r}, NEW role \in ValidRoles,
         user' = [user EXCEPT ![login[r].email] = Account(w, role)],
         w = r => role = "owner",
         w # r => CreatedRow(r, w, login[r].email, role) \in loginTrail',
         workspaces' = workspaces \cup {w}, rules' = rules \cup {w},
         loginTrail \subseteq loginTrail', UNCHANGED <<states, session>>, LoginOk(r)', AccessOk(r)',
         \A x \in loginTrail' \ loginTrail : CreatedOk(x)'
  PROVE  AccountsInv'
<1> DEFINE new == Account(w, role)
<1>1. /\ login[r] \in Logins /\ LoginOk(r) /\ InsertOk(r) /\ WorkspaceOk(r)
      /\ login[r].email \in Email /\ user[login[r].email] = Unknown
  BY DEF AccountsInv, AccountTypeOK, LoginOk, InsertOk
<1>2. new \in Accounts /\ new.ws = w /\ new.role = role /\ new # Unknown
  <2>1. new \in Accounts /\ new.ws = w /\ new.role = role
    BY DEF Account, Accounts, AccountsInv, AccountTypeOK
  <2> QED BY <2>1, AccountsAssumption DEF Accounts, ValidRoles
<1> HIDE DEF new
<1>3. /\ user'[login[r].email] = new
      /\ \A e \in Email : e # login[r].email => user'[e] = user[e]
  BY <1>1 DEF AccountsInv, AccountTypeOK, new
<1>4. AccountsGrow
  <2>1. user' \in [Email -> Accounts \cup {Unknown}]
    BY <1>1, <1>2 DEF AccountsInv, AccountTypeOK, new
  <2> QED BY <1>1, <1>3, <2>1 DEF AccountsGrow
<1>5. /\ login' \in [Login -> Logins] /\ login'[r] = l
      /\ \A q \in Login \ {r} : login'[q] = login[q]
      /\ \A s : Authorized(s) => s # r /\ Authorized(s)'
  BY MovesIs
<1>6. AccountTypeOK' /\ StatesOk'
  BY <1>4, <1>5 DEF AccountsInv, AccountTypeOK, AccountsGrow, StatesOk
<1>7. /\ \A e : Employee(e) => Employee(e)'
      /\ \A x \in loginTrail' : CreatedOk(x)'
  BY <1>4, GrowthKept
<1>8. ASSUME NEW q \in Login \ {r} PROVE LoginOk(q)' /\ AccessOk(q)' /\ InsertOk(q)'
  <2>1. LoginOk(q)'
    BY <1>5 DEF AccountsInv, LoginOk
  <2>2. AccessOk(q)'
    BY <1>5, <1>7 DEF AccountsInv, AccessOk
  <2>3. login[q].pc \in {"seed", "audit"} => login[q].email # login[r].email /\ login[q].email \in Email
    BY DEF AccountsInv, InsertOk, LoginOk
  <2>4. InsertOk(q)'
    BY <1>3, <1>5, <2>3 DEF AccountsInv, InsertOk
  <2> QED BY <2>1, <2>2, <2>4
<1>9. InsertOk(r)'
  BY <1>5 DEF InsertOk
<1>10. \A q \in Login : SpentOk(q)'
  <2>1. \A q \in Login : login'[q].op = login[q].op /\ login'[q].state = login[q].state
    BY <1>5
  <2> QED BY <1>5, <2>1 DEF AccountsInv, SpentOk
<1>11. ASSUME NEW q \in Login PROVE WorkspaceOk(q)'
  <2>0. r \notin workspaces /\ r # Home /\ q # Home
    BY <1>1, AccountsAssumption DEF WorkspaceOk
  <2>1. CASE q = r
    <3> SUFFICES ASSUME r \in workspaces' PROVE WorkspaceOk(r)'
      BY <2>0, <2>1 DEF WorkspaceOk
    <3>1. w = r
      BY <2>0
    <3>2. /\ login'[r].email \in Email /\ user'[login'[r].email] # Unknown
          /\ user'[login'[r].email].ws = r /\ user'[login'[r].email].role = "owner"
      BY <1>1, <1>2, <1>3, <1>5, <3>1
    <3> QED BY <1>5, <3>2 DEF WorkspaceOk
  <2>2. CASE q # r
    <3> SUFFICES ASSUME q \in workspaces PROVE WorkspaceOk(q)'
      BY <2>0, <2>2 DEF WorkspaceOk
    <3>1. /\ login[q].pc \in {"issue", "done"} /\ login[q].email \in Email
          /\ user[login[q].email] # Unknown /\ user[login[q].email].ws = q
          /\ user[login[q].email].role = "owner"
      BY <2>0 DEF AccountsInv, WorkspaceOk
    <3>2. login'[q] = login[q] /\ login[q].email # login[r].email
      BY <1>1, <1>5, <2>0, <2>2, <3>1
    <3> QED BY <1>2, <1>3, <3>1, <3>2 DEF WorkspaceOk
  <2> QED BY <2>1, <2>2
<1>12. \A s \in session : SessionOk(s)'
  <2> TAKE s \in session
  <2>1. SessionOk(s) /\ s.by # r
    BY DEF AccountsInv, SessionOk
  <2>2. login'[s.by] = login[s.by]
    BY <1>5, <2>1 DEF SessionOk
  <2> QED BY <1>7, <2>1, <2>2 DEF SessionOk
<1>13. ASSUME NEW e \in Email PROVE AccountOk(e)'
  <2>1. CASE e = login[r].email
    <3>1. user'[e].ws = w /\ user'[e].role = role
      BY <1>2, <1>3, <2>1
    <3>2. CASE w = r
      BY <1>5, <2>1, <3>1, <3>2 DEF AccountOk, Explained
    <3>3. CASE w # r
      BY <2>1, <3>1, <3>3 DEF AccountOk, Explained
    <3> QED BY <3>2, <3>3
  <2>2. CASE e # login[r].email
    <3>1. user'[e] = user[e]
      BY <1>3, <2>2
    <3>2. user[e] # Unknown /\ user[e].ws # Home => Explained(e)'
      BY <3>1, ExplainedKept, MovesBefore
    <3> QED BY <3>1, <3>2 DEF AccountsInv, AccountOk
  <2> QED BY <2>1, <2>2
<1> QED BY <1>5, <1>6, <1>7, <1>8, <1>9, <1>10, <1>11, <1>12, <1>13 DEF AccountsInv

(* SeedAndCommit: a workspace, its owner and its rule; the registration may be answered or not. *)
LEMMA SeedKeeps == ASSUME AccountsInv, NEW r \in Login, SeedAndCommit(r) PROVE AccountsInv'
<1>1. /\ login[r] \in Logins /\ login \in [Login -> Logins] /\ LoginOk(r) /\ login[r].pc = "seed"
      /\ user' = [user EXCEPT ![login[r].email] = Account(r, "owner")]
      /\ workspaces' = workspaces \cup {r} /\ rules' = rules \cup {r}
      /\ UNCHANGED <<states, loginTrail, session>>
  BY DEF AccountsInv, AccountTypeOK, SeedAndCommit, LoginAt
<1>2. PICK l \in Logins :
        /\ login' = [login EXCEPT ![r] = l] /\ l.pc \in {"issue", "done"}
        /\ l.op = login[r].op /\ l.email = login[r].email /\ l.state = login[r].state
        /\ l.pc = "issue" => l.decision \in Decisions
  <2>1. CASE login' = [login EXCEPT ![r].pc = "issue", ![r].decision = "access"]
    <3> DEFINE l == [login[r] EXCEPT !.pc = "issue", !.decision = "access"]
    <3>1. /\ l \in Logins /\ l.pc = "issue" /\ l.op = login[r].op /\ l.email = login[r].email
          /\ l.state = login[r].state /\ l.decision \in Decisions
      BY <1>1 DEF Logins, Decisions
    <3>2. login' = [login EXCEPT ![r] = l]
      BY <1>1, <2>1
    <3> HIDE DEF l
    <3> QED BY <3>1, <3>2
  <2>2. CASE login' = [login EXCEPT ![r].pc = "done"]
    <3> DEFINE l == [login[r] EXCEPT !.pc = "done"]
    <3>1. /\ l \in Logins /\ l.pc = "done" /\ l.op = login[r].op /\ l.email = login[r].email
          /\ l.state = login[r].state
      BY <1>1 DEF Logins
    <3>2. login' = [login EXCEPT ![r] = l]
      BY <1>1, <2>2
    <3> HIDE DEF l
    <3> QED BY <3>1, <3>2
  <2> QED BY <2>1, <2>2 DEF SeedAndCommit
<1>3. Moves(r, l) /\ login'[r] = l
  BY <1>1, <1>2 DEF Moves
<1>4. LoginOk(r)' /\ AccessOk(r)'
  BY <1>1, <1>2, <1>3 DEF LoginOk, AccessOk, ByCredential
<1>5. "owner" \in ValidRoles /\ r \in workspaces \cup {r}
  BY DEF ValidRoles
<1> QED BY <1>1, <1>2, <1>3, <1>4, <1>5, CommitKeeps

(* CommitUser: an account of the creator's workspace and the row that says so. *)
LEMMA CommitUserKeeps == ASSUME AccountsInv, NEW r \in Login, CommitUser(r) PROVE AccountsInv'
<1> DEFINE l == [login[r] EXCEPT !.pc = "done"]
<1>0. PICK made : made = CreatedRow(r, login[r].ws, login[r].email, login[r].role)
  OBVIOUS
<1>1. /\ login[r] \in Logins /\ login \in [Login -> Logins] /\ LoginOk(r) /\ login[r].pc = "audit"
      /\ login[r].role \in ValidRoles /\ login[r].email \in Email /\ login[r].ws \in workspaces
      /\ workspaces \subseteq Login \cup {Home} /\ user \in [Email -> Accounts \cup {Unknown}]
  BY DEF AccountsInv, AccountTypeOK, CommitUser, LoginAt, LoginOk
<1>2. /\ user' = [user EXCEPT ![login[r].email] = Account(login[r].ws, login[r].role)]
      /\ loginTrail' = loginTrail \cup {made}
      /\ UNCHANGED <<workspaces, rules, states, session>>
      /\ login' = [login EXCEPT ![r] = l]
  BY <1>0, <1>1 DEF CommitUser, Done
<1>3. /\ l \in Logins /\ l.pc = "done" /\ l.op = login[r].op /\ l.email = login[r].email
      /\ l.state = login[r].state
  BY <1>1 DEF Logins
<1> HIDE DEF l
<1>4. Moves(r, l) /\ login'[r] = l
  BY <1>1, <1>2, <1>3 DEF Moves
<1>5. LoginOk(r)' /\ AccessOk(r)'
  BY <1>1, <1>3, <1>4 DEF LoginOk, AccessOk
<1>6. CreatedOk(made)'
  <2>1. user'[login[r].email] = Account(login[r].ws, login[r].role)
    BY <1>1, <1>2
  <2>2. /\ Account(login[r].ws, login[r].role).ws = login[r].ws
        /\ Account(login[r].ws, login[r].role).role = login[r].role
    BY DEF Account
  <2>3. Account(login[r].ws, login[r].role) # Unknown
    <3>1. Account(login[r].ws, login[r].role) \in Accounts
      BY <1>1 DEF Account, Accounts
    <3> QED BY <3>1, AccountsAssumption DEF Accounts, ValidRoles
  <2>4. made.email = login[r].email /\ made.outcome = login[r].role /\ made.ws = login[r].ws
    BY <1>0 DEF CreatedRow
  <2> QED BY <1>1, <2>1, <2>2, <2>3, <2>4 DEF CreatedOk
<1>7. workspaces' = workspaces \cup {login[r].ws} /\ rules' = rules \cup {login[r].ws}
  BY <1>1, <1>2 DEF AccountsInv, AccountTypeOK
<1>8. /\ loginTrail \subseteq loginTrail' /\ CreatedRow(r, login[r].ws, login[r].email, login[r].role) \in loginTrail'
      /\ \A x \in loginTrail' \ loginTrail : CreatedOk(x)'
  BY <1>0, <1>2, <1>6
<1>9. login[r].ws # r
  BY <1>1, <1>4, MovesBefore
<1> QED BY <1>1, <1>2, <1>3, <1>4, <1>5, <1>7, <1>8, <1>9, CommitKeeps

(* ConfirmTotp: an account keeps its workspace and its role. *)
LEMMA ConfirmKeeps == ASSUME AccountsInv, NEW e \in Email, ConfirmTotp(e) PROVE AccountsInv'
<1> DEFINE new == [user[e] EXCEPT !.confirmed = TRUE]
<1>1. /\ user[e] # Unknown /\ user[e] \in Accounts /\ user \in [Email -> Accounts \cup {Unknown}]
      /\ UNCHANGED <<workspaces, rules, states, loginTrail, session, login>>
  BY DEF ConfirmTotp, AccountsInv, AccountTypeOK
<1>2. user' = [user EXCEPT ![e] = new]
  BY <1>1 DEF ConfirmTotp
<1>3. new \in Accounts /\ new.ws = user[e].ws /\ new.role = user[e].role
  BY <1>1 DEF Accounts
<1>4. new # Unknown
  BY <1>3, AccountsAssumption DEF Accounts, ValidRoles
<1> HIDE DEF new
<1>5. AccountsGrow /\ \A x \in Email : user[x] = Unknown <=> user'[x] = Unknown
  BY <1>1, <1>2, <1>3, <1>4 DEF AccountsGrow
<1>6. /\ \A x : Employee(x) => Employee(x)'
      /\ \A x \in loginTrail' : CreatedOk(x)'
  BY <1>1, <1>5, GrowthKept
<1>7. AccountTypeOK' /\ StatesOk'
  BY <1>1, <1>5 DEF AccountsInv, AccountTypeOK, AccountsGrow, StatesOk, Authorized
<1>8. ASSUME NEW q \in Login PROVE LoginOk(q)' /\ AccessOk(q)' /\ InsertOk(q)' /\ SpentOk(q)'
  <2>1. LoginOk(q)' /\ SpentOk(q)'
    BY <1>1 DEF AccountsInv, LoginOk, SpentOk, Authorized
  <2>2. AccessOk(q)'
    BY <1>1, <1>6 DEF AccountsInv, AccessOk
  <2>3. InsertOk(q)'
    BY <1>1, <1>5 DEF AccountsInv, InsertOk, LoginOk
  <2> QED BY <2>1, <2>2, <2>3
<1>9. \A q \in Login : WorkspaceOk(q)'
  BY <1>1, <1>5 DEF AccountsInv, WorkspaceOk, AccountsGrow
<1>10. \A s \in session : SessionOk(s)'
  BY <1>1, <1>6 DEF AccountsInv, SessionOk
<1>11. \A x \in Email : AccountOk(x)'
  BY <1>1, <1>5 DEF AccountsInv, AccountOk, Explained, AccountsGrow
<1> QED BY <1>1, <1>6, <1>7, <1>8, <1>9, <1>10, <1>11 DEF AccountsInv

(* Every step keeps the invariant. *)
LEMMA AccountsStep == AccountsInv /\ [AccountsNext]_accountVars => AccountsInv'
<1> SUFFICES ASSUME AccountsInv, [AccountsNext]_accountVars PROVE AccountsInv'
  OBVIOUS
<1>1. CASE UNCHANGED accountVars
  BY <1>1 DEF accountVars, AccountsInv, AccountTypeOK, LoginOk, AccessOk, InsertOk, SpentOk, WorkspaceOk,
              StatesOk, Authorized, SessionOk, AccountOk, Explained, CreatedOk, Employee
<1>2. ASSUME NEW r \in Login, LoginStep(r) PROVE AccountsInv'
  <2>1. ASSUME NEW e \in Email, Token(r, e) \/ Exchange(r, e) PROVE AccountsInv'
    BY <2>1, LoginBeginKeeps
  <2>2. ASSUME NEW by \in Email, NEW e \in Email, NEW role, Register(r, e) \/ CreateUser(r, by, e, role)
        PROVE  AccountsInv'
    BY <2>2, AccountBeginKeeps
  <2>3. ASSUME NEW s \in Login, Callback(r, s) PROVE AccountsInv'
    BY <2>3, CallbackKeeps
  <2> QED BY <1>2, <2>1, <2>2, <2>3, LoginEndKeeps, RecordLoginKeeps, IssuePairKeeps, AuthorizeKeeps,
             InsertKeeps, SeedKeeps, CommitUserKeeps DEF LoginStep
<1>3. ASSUME NEW s \in Login, ExpireState(s) PROVE AccountsInv'
  BY <1>3, ExpireKeeps
<1>4. ASSUME NEW e \in Email, ConfirmTotp(e) PROVE AccountsInv'
  BY <1>4, ConfirmKeeps
<1> QED BY <1>1, <1>2, <1>3, <1>4 DEF AccountsNext

(* However registrations, creations, callbacks and failures interleave: a login that opened a session
   has its row in the trail and is no owner's or administrator's; a state serves one callback; a
   registered workspace has its rule and its registrant as an owner, and everyone else in it a true
   row of the trail. *)
THEOREM AccountsAlwaysHold == AccountsSpec => []AccountsHold
<1>1. AccountsInv => LoginIsProven
  <2> SUFFICES ASSUME AccountsInv, NEW s \in session, s.op # "register"
               PROVE  /\ LoginRow(s.by, s.email, s.op) \in loginTrail
                      /\ user[s.email].role \notin Privileged
                      /\ s.op = "oidc" => /\ login[s.state].op = "authorize" /\ s.state \notin states
                                          /\ \A t \in SignedIn \ {s} : t.state # s.state
    BY Zenon DEF LoginIsProven, SignedIn, LoginRow
  <2>1. SessionOk(s) /\ s.by \in Login /\ SpentOk(s.by)
    BY DEF AccountsInv, SessionOk
  <2>2. LoginRow(s.by, s.email, s.op) \in loginTrail /\ user[s.email].role \notin Privileged
    BY <2>1 DEF SessionOk, Employee
  <2>3. s.op = login[s.by].op /\ s.state = login[s.by].state
    BY <2>1 DEF SessionOk
  <2>4. ASSUME s.op = "oidc", NEW t \in session, t # s PROVE t.state # s.state
    <3>1. SessionOk(t) /\ t.by \in Login /\ t.by # s.by
      BY <2>1, <2>4 DEF AccountsInv, SessionOk
    <3>2. t.op = login[t.by].op /\ t.state = login[t.by].state
      BY <3>1 DEF SessionOk
    <3>3. CASE t.op = "oidc"
      BY <2>1, <2>3, <2>4, <3>1, <3>2, <3>3 DEF SpentOk
    <3>4. CASE t.op # "oidc"
      <4>1. t.state = Unknown
        BY <3>1, <3>2, <3>4 DEF AccountsInv, LoginOk
      <4>2. s.state \in Login
        BY <2>1, <2>3, <2>4 DEF SpentOk, Authorized
      <4> QED BY <4>1, <4>2, AccountsAssumption
    <3> QED BY <3>3, <3>4
  <2> QED BY <2>1, <2>2, <2>3, <2>4 DEF SpentOk, Authorized, SignedIn
<1>2. AccountsInv => AccountsAreWhole
  <2> SUFFICES ASSUME AccountsInv PROVE AccountsAreWhole
    OBVIOUS
  <2>1. ASSUME NEW w \in workspaces \ {Home}
        PROVE  LET owner == user[login[w].email] IN owner # Unknown /\ owner.ws = w /\ owner.role = "owner"
    BY DEF AccountsInv, AccountTypeOK, WorkspaceOk
  <2>2. workspaces = rules /\ \A e \in Email : AccountOk(e)
    BY DEF AccountsInv, AccountTypeOK
  <2>3. \A x \in loginTrail : x.method = "create" =>
          user[x.email] # Unknown /\ user[x.email].ws = x.ws /\ user[x.email].role = x.outcome
    BY DEF AccountsInv, CreatedOk
  <2> QED BY <2>1, <2>2, <2>3 DEF AccountsAreWhole, AccountOk, Explained
<1> QED BY <1>1, <1>2, AccountsStart, AccountsStep, PTL DEF AccountsSpec, AccountsHold

(***************************************************************************)
(* ApiKeys.                                                                 *)
(***************************************************************************)
Counts(S) == {Cardinality(T) : T \in SUBSET S}

KeyRows == [status : {"none", "active", "rotating", "revoked"}, home : Workspace \cup {Nobody},
            owner : Member \cup {Nobody}, born : Counts(Key), age : Nat,
            successor : Key \cup {NoKey}]
Lookups == [pc : {"idle", "present", "found"}, key : Key \cup {NoKey}, age : Nat]
Rotations == [key : Key \cup {NoKey}, age : Nat]
Sweeps == [pc : {"idle", "sweeping"}, todo : SUBSET Workspace, enumerated : Counts(Workspace),
           swept : Nat, failures : Nat, due : SUBSET Key]

KeyTypeOK ==
  /\ row \in [Key -> KeyRows]
  /\ lock \in [Key -> KeyAdmin \cup {Nobody}]
  /\ keyCache \in [Key -> 0..Uncached]
  /\ lookup \in [KeyCaller -> Lookups]
  /\ rotation \in [KeyAdmin -> Rotations]
  /\ sweep \in Sweeps

(* A row that is there belongs to a workspace, and one that is not has no age. *)
RowOk(k) ==
  /\ row[k].status = "none" => row[k].age = 0
  /\ row[k].status # "none" => row[k].home \in Workspace

(* A rotation has its row under its lock, so that nobody revokes or rotates it meanwhile, and
   commits within LookupStall. *)
RotationOk(a) ==
  /\ rotation[a].age <= LookupStall
  /\ rotation[a].key # NoKey => lock[rotation[a].key] = a /\ row[rotation[a].key].status = "active"

(* What a lookup has found has been dead no longer than the lookup is old. *)
LookupOk(c) ==
  /\ lookup[c].pc # "idle" => lookup[c].key \in Key
  /\ lookup[c].pc # "found" => lookup[c].age = 0
  /\ lookup[c].pc = "found" => /\ lookup[c].age <= LookupStall
                               /\ DeadFor(lookup[c].key) <= lookup[c].age

(* What the cache answers for has been dead no longer than its entry is old, and the lookup that
   filled it took. *)
CacheOk(k) == KeyCached(k) => DeadFor(k) <= LookupStall + keyCache[k]

(* A key that was due when the sweep began is closed, or its workspace is to come, or the sweep
   has a failure to report. *)
SweepOk ==
  \A k \in sweep.due :
    /\ Expired(k) \/ row[k].status = "revoked"
    /\ sweep.failures = 0 /\ row[k].status # "revoked" => row[k].home \in sweep.todo

KeysInv ==
  /\ KeyTypeOK
  /\ \A k \in Key : RowOk(k) /\ CacheOk(k)
  /\ \A a \in KeyAdmin : RotationOk(a)
  /\ \A c \in KeyCaller : LookupOk(c)
  /\ SweepOk

(* How long a key has been dead is a number, and not positive while it is usable or unused. *)
LEMMA DeadForIs ==
  ASSUME KeyTypeOK, NEW k \in Key
  PROVE  /\ DeadFor(k) = IF row[k].status = "active" \/ (row[k].status = "rotating" /\ row[k].age < Grace)
                         THEN 0 ELSE row[k].age - Grace
         /\ DeadFor(k) \in Int
BY KeysAssumption DEF KeyTypeOK, KeyRows, DeadFor, Usable, InGrace

(* The same after a step. *)
LEMMA DeadForBecomes ==
  ASSUME KeyTypeOK', NEW k \in Key
  PROVE  /\ DeadFor(k)' = IF row'[k].status = "active" \/ (row'[k].status = "rotating" /\ row'[k].age < Grace)
                          THEN 0 ELSE row'[k].age - Grace
         /\ DeadFor(k)' \in Int
BY KeysAssumption DEF KeyTypeOK, KeyRows, DeadFor, Usable, InGrace

(* There is no key at the start. *)
LEMMA KeysStart == KeysInit => KeysInv
<1> SUFFICES ASSUME KeysInit PROVE KeysInv
  OBVIOUS
<1>1. 0 \in Counts(Key) /\ 0 \in Counts(Workspace)
  <2>1. Cardinality({}) = 0
    BY FS_EmptySet
  <2> QED BY <2>1 DEF Counts
<1>2. KeyTypeOK
  BY <1>1, KeysAssumption
     DEF KeysInit, KeyTypeOK, NoRow, KeyRows, NoLookup, Lookups, NoRotation, Rotations, NoSweep, Sweeps,
         Uncached
<1>3. \A k \in Key : RowOk(k) /\ CacheOk(k)
  BY KeysAssumption DEF KeysInit, RowOk, CacheOk, KeyCached, Uncached, NoRow
<1>4. \A a \in KeyAdmin : RotationOk(a)
  BY KeysAssumption DEF KeysInit, RotationOk, NoRotation
<1>5. \A c \in KeyCaller : LookupOk(c)
  BY DEF KeysInit, LookupOk, NoLookup
<1>6. SweepOk
  BY DEF KeysInit, SweepOk, NoSweep
<1> QED BY <1>2, <1>3, <1>4, <1>5, <1>6 DEF KeysInv

(* A key that is issued. *)
LEMMA IssuedIs ==
  ASSUME NEW w \in Workspace \cup {Nobody}, NEW u \in Member \cup {Nobody}
  PROVE  /\ Issued(w, u) \in KeyRows
         /\ Issued(w, u).status = "active" /\ Issued(w, u).home = w /\ Issued(w, u).age = 0
<1> DEFINE n == Cardinality({k \in Key : ~Unused(k)})
<1>1. n \in Counts(Key)
  BY DEF Counts
<1>2. Issued(w, u) = [NoRow EXCEPT !.status = "active", !.home = w, !.owner = u, !.born = n]
  BY DEF Issued
<1> HIDE DEF n
<1>3. 0 \in Nat /\ NoKey \in Key \cup {NoKey}
  OBVIOUS
<1> QED BY <1>1, <1>2, <1>3 DEF KeyRows, NoRow

(* A row that is closed keeps its home and its death. *)
LEMMA ClosedIs ==
  ASSUME KeyTypeOK, NEW k \in Key
  PROVE  /\ Closed(k) \in KeyRows
         /\ Closed(k).status = "revoked" /\ Closed(k).home = row[k].home
         /\ Closed(k).age = IF Expired(k) THEN row[k].age ELSE Grace
BY KeysAssumption DEF KeyTypeOK, KeyRows, Closed

(* What a step does to a row at most, unless time passes: it does not make a key longer dead. *)
Calm(k) == DeadFor(k)' <= 0 \/ DeadFor(k)' <= DeadFor(k)

(* Then the cache and the lookups are as true as they were. *)
LEMMA CalmKeeps ==
  ASSUME KeysInv, KeyTypeOK', \A k \in Key : Calm(k), UNCHANGED <<keyCache, lookup>>
  PROVE  (\A k \in Key : CacheOk(k)') /\ (\A c \in KeyCaller : LookupOk(c)')
<1>1. ASSUME NEW k \in Key PROVE CacheOk(k)'
  <2>1. Calm(k) /\ CacheOk(k) /\ DeadFor(k) \in Int /\ DeadFor(k)' \in Int
    BY DeadForIs, DeadForBecomes DEF KeysInv
  <2>2. keyCache[k] \in Nat
    BY KeysAssumption DEF KeysInv, KeyTypeOK, Uncached
  <2> QED BY <2>1, <2>2, KeysAssumption DEF Calm, CacheOk, KeyCached
<1>2. ASSUME NEW c \in KeyCaller PROVE LookupOk(c)'
  <2>1. LookupOk(c) /\ lookup[c] \in Lookups
    BY DEF KeysInv, KeyTypeOK
  <2>2. CASE lookup[c].pc = "found"
    <3>1. lookup[c].key \in Key /\ lookup[c].age \in Nat
      BY <2>1, <2>2 DEF LookupOk, Lookups
    <3>2. Calm(lookup[c].key) /\ DeadFor(lookup[c].key) \in Int
      BY <3>1, DeadForIs DEF KeysInv
    <3>3. DeadFor(lookup[c].key)' \in Int
      <4> DEFINE k == lookup[c].key
      <4>1. k \in Key /\ lookup'[c].key = k
        BY <3>1
      <4>2. DeadFor(k)' \in Int
        BY <3>1, DeadForBecomes
      <4> QED BY <4>1, <4>2
    <3> QED BY <2>1, <2>2, <3>1, <3>2, <3>3, KeysAssumption DEF LookupOk, Calm
  <2> QED BY <2>1, <2>2 DEF LookupOk
<1> QED BY <1>1, <1>2

(* CreateKey: a key is there, alive. *)
LEMMA CreateKeyKeeps == KeysInv /\ CreateKey => KeysInv'
<1> SUFFICES ASSUME KeysInv, CreateKey PROVE KeysInv'
  OBVIOUS
<1>1. PICK k \in Key, w \in Workspace, u \in Member \cup {Nobody} :
        Unused(k) /\ Create(k, w, u) /\ UNCHANGED <<lock, keyCache, lookup, rotation, sweep>>
  BY DEF CreateKey
<1> DEFINE new == Issued(w, u)
<1>2. /\ row' = [row EXCEPT ![k] = new]
      /\ row[k].status = "none"
  BY <1>1 DEF Create, Unused
<1>3. new \in KeyRows /\ new.status = "active" /\ new.home = w /\ new.age = 0
  BY IssuedIs
<1> HIDE DEF new
<1>4. KeyTypeOK'
  BY <1>1, <1>2, <1>3 DEF KeysInv, KeyTypeOK
<1>5. /\ row'[k] = new
      /\ \A q \in Key \ {k} : row'[q] = row[q]
  BY <1>2 DEF KeysInv, KeyTypeOK
<1>6. \A q \in Key : RowOk(q)'
  BY <1>3, <1>5 DEF KeysInv, RowOk
<1>7. \A q \in Key : Calm(q)
  <2> TAKE q \in Key
  <2>1. CASE q = k
    BY <1>3, <1>4, <1>5, <2>1, DeadForBecomes DEF Calm
  <2>2. CASE q # k
    BY <1>4, <1>5, <2>2, DeadForIs, DeadForBecomes DEF Calm, KeysInv
  <2> QED BY <2>1, <2>2
<1>8. \A a \in KeyAdmin : RotationOk(a)'
  BY <1>1, <1>2, <1>5 DEF KeysInv, RotationOk, KeyTypeOK, Rotations
<1>9. SweepOk'
  BY <1>1, <1>2, <1>5 DEF KeysInv, SweepOk, Expired, KeyTypeOK, Sweeps
<1> QED BY <1>1, <1>4, <1>6, <1>7, <1>8, <1>9, CalmKeeps DEF KeysInv

(* RevokeKey: a key dies now, or is closed with the death it had. *)
LEMMA RevokeKeyKeeps == KeysInv /\ RevokeKey => KeysInv'
<1> SUFFICES ASSUME KeysInv, RevokeKey PROVE KeysInv'
  OBVIOUS
<1>1. PICK k \in Key :
        lock[k] = Nobody /\ RevokeRow(k) /\ UNCHANGED <<lock, keyCache, lookup, rotation, sweep>>
  BY DEF RevokeKey
<1> DEFINE new == Closed(k)
<1>2. /\ row' = [row EXCEPT ![k] = new]
      /\ row[k].status \in {"active", "rotating"}
  BY <1>1 DEF RevokeRow
<1>3. /\ new \in KeyRows /\ new.status = "revoked" /\ new.home = row[k].home
      /\ new.age = IF Expired(k) THEN row[k].age ELSE Grace
  BY ClosedIs DEF KeysInv
<1> HIDE DEF new
<1>4. KeyTypeOK'
  BY <1>1, <1>2, <1>3 DEF KeysInv, KeyTypeOK
<1>5. /\ row'[k] = new
      /\ \A q \in Key \ {k} : row'[q] = row[q]
  BY <1>2 DEF KeysInv, KeyTypeOK
<1>6. \A q \in Key : RowOk(q)'
  BY <1>2, <1>3, <1>5 DEF KeysInv, RowOk
<1>7. \A q \in Key : Calm(q)
  <2> TAKE q \in Key
  <2>1. CASE q = k
    <3>1. row[k].age \in Nat
      BY DEF KeysInv, KeyTypeOK, KeyRows
    <3> QED BY <1>2, <1>3, <1>4, <1>5, <2>1, <3>1, DeadForIs, DeadForBecomes, KeysAssumption
            DEF Calm, KeysInv, Expired
  <2>2. CASE q # k
    BY <1>4, <1>5, <2>2, DeadForIs, DeadForBecomes DEF Calm, KeysInv
  <2> QED BY <2>1, <2>2
<1>8. \A a \in KeyAdmin : RotationOk(a)'
  BY <1>1, <1>5, KeysAssumption DEF KeysInv, RotationOk, KeyTypeOK, Rotations
<1>9. SweepOk'
  BY <1>1, <1>3, <1>5 DEF KeysInv, SweepOk, Expired, KeyTypeOK, Sweeps
<1> QED BY <1>1, <1>4, <1>6, <1>7, <1>8, <1>9, CalmKeeps DEF KeysInv

(* SweepOne: the expired keys of a workspace are closed with the death they had. *)
LEMMA SweepOneKeeps == KeysInv /\ SweepOne => KeysInv'
<1> SUFFICES ASSUME KeysInv, SweepOne PROVE KeysInv'
  OBVIOUS
<1>1. PICK w \in sweep.todo :
        LET closed == {k \in Key : row[k].home = w /\ Expired(k)} IN
        /\ row' = [k \in Key |-> IF k \in closed THEN Closed(k) ELSE row[k]]
        /\ sweep' = [sweep EXCEPT !.todo = @ \ {w}, !.swept = @ + 1]
        /\ UNCHANGED <<lock, keyTrail, keyCache, lookup, rotation>>
  BY DEF SweepOne
<1>2. \A q \in Key : /\ row[q].home = w /\ Expired(q) => row'[q] = Closed(q)
                     /\ ~(row[q].home = w /\ Expired(q)) => row'[q] = row[q]
  BY <1>1
<1>3. \A q \in Key : Expired(q) => /\ Closed(q) \in KeyRows /\ Closed(q).status = "revoked"
                                   /\ Closed(q).home = row[q].home /\ Closed(q).age = row[q].age
  BY ClosedIs DEF KeysInv
<1>4. /\ sweep' \in Sweeps /\ sweep'.todo = sweep.todo \ {w}
      /\ sweep'.due = sweep.due /\ sweep'.failures = sweep.failures
  <2> DEFINE rest == sweep.todo \ {w}
             count == sweep.swept + 1
  <2>1. sweep \in Sweeps /\ rest \in SUBSET Workspace /\ count \in Nat
    BY DEF KeysInv, KeyTypeOK, Sweeps
  <2>2. sweep' = [sweep EXCEPT !.todo = rest, !.swept = count]
    BY <1>1
  <2> HIDE DEF rest, count
  <2>3. /\ sweep' \in Sweeps /\ sweep'.todo = rest
        /\ sweep'.due = sweep.due /\ sweep'.failures = sweep.failures
    BY <2>1, <2>2 DEF Sweeps
  <2> QED BY <2>3 DEF rest
<1>5. KeyTypeOK'
  <2>1. row' \in [Key -> KeyRows]
    BY <1>1, <1>2, <1>3 DEF KeysInv, KeyTypeOK
  <2> QED BY <1>1, <1>4, <2>1 DEF KeysInv, KeyTypeOK
<1>6. \A q \in Key : RowOk(q)'
  BY <1>2, <1>3 DEF KeysInv, RowOk, Expired
<1>7. \A q \in Key : Calm(q)
  <2> TAKE q \in Key
  <2>1. CASE row[q].home = w /\ Expired(q)
    <3>1. row[q].age \in Nat /\ row'[q].status = "revoked" /\ row'[q].age = row[q].age
      BY <1>2, <1>3, <2>1 DEF KeysInv, KeyTypeOK, KeyRows
    <3> QED BY <1>5, <2>1, <3>1, DeadForIs, DeadForBecomes, KeysAssumption DEF Calm, KeysInv, Expired
  <2>2. CASE ~(row[q].home = w /\ Expired(q))
    BY <1>2, <1>5, <2>2, DeadForIs, DeadForBecomes DEF Calm, KeysInv
  <2> QED BY <2>1, <2>2
<1>8. \A a \in KeyAdmin : RotationOk(a)'
  BY <1>1, <1>2 DEF KeysInv, RotationOk, KeyTypeOK, Rotations, Expired
<1>9. SweepOk'
  <2> SUFFICES ASSUME NEW q \in sweep.due
               PROVE  /\ (Expired(q) \/ row[q].status = "revoked")'
                      /\ sweep'.failures = 0 /\ row'[q].status # "revoked" => row'[q].home \in sweep'.todo
    BY <1>4 DEF SweepOk
  <2>1. q \in Key
    BY DEF KeysInv, KeyTypeOK, Sweeps
  <2> QED BY <1>2, <1>3, <1>4, <2>1 DEF KeysInv, SweepOk, Expired
<1> QED BY <1>1, <1>5, <1>6, <1>7, <1>8, <1>9, CalmKeeps DEF KeysInv

(* RotateCommit: the row its lock kept active is in grace, and its successor alive. *)
LEMMA RotateCommitKeeps == ASSUME KeysInv, NEW a \in KeyAdmin, RotateCommit(a) PROVE KeysInv'
<1> DEFINE k == rotation[a].key
<1>1. k # NoKey /\ rotation[a] \in Rotations /\ RotationOk(a)
  BY DEF RotateCommit, KeysInv, KeyTypeOK
<1>2. /\ k \in Key /\ row[k].status = "active" /\ lock[k] = a
      /\ rotation[a].age \in Nat /\ rotation[a].age <= LookupStall
  BY <1>1 DEF Rotations, RotationOk
<1>3. PICK n \in Key : Unused(n) /\ Succeed(k, n, rotation[a].age)
  BY DEF RotateCommit
<1> DEFINE new == Issued(row[k].home, Nobody)
           old == [row[k] EXCEPT !.status = "rotating", !.age = rotation[a].age, !.successor = n]
<1>4. n # k /\ row[n].status = "none" /\ row[k] \in KeyRows
  BY <1>2, <1>3 DEF Unused, KeysInv, KeyTypeOK
<1>5. /\ row' = [row EXCEPT ![n] = new, ![k] = old]
  BY <1>2, <1>3, <1>4 DEF Succeed, KeysInv, KeyTypeOK
<1>6. new \in KeyRows /\ new.status = "active" /\ new.home = row[k].home /\ new.age = 0
  BY <1>4, IssuedIs DEF KeyRows
<1>7. /\ old \in KeyRows /\ old.status = "rotating" /\ old.home = row[k].home
      /\ old.age = rotation[a].age
  BY <1>2, <1>4 DEF KeyRows
<1> HIDE DEF new, old
<1>8. /\ row'[n] = new /\ row'[k] = old
      /\ \A q \in Key \ {k, n} : row'[q] = row[q]
  BY <1>2, <1>4, <1>5 DEF KeysInv, KeyTypeOK
<1>9. /\ lock' = [lock EXCEPT ![k] = Nobody] /\ rotation' = [rotation EXCEPT ![a] = NoRotation]
      /\ UNCHANGED <<keyCache, lookup, sweep>>
  BY DEF RotateCommit
<1>10. KeyTypeOK'
  <2>1. row' \in [Key -> KeyRows]
    BY <1>2, <1>5, <1>6, <1>7 DEF KeysInv, KeyTypeOK
  <2>2. NoRotation \in Rotations
    BY DEF NoRotation, Rotations
  <2> QED BY <1>2, <1>9, <2>1, <2>2 DEF KeysInv, KeyTypeOK
<1>11. \A q \in Key : RowOk(q)'
  BY <1>2, <1>6, <1>7, <1>8 DEF KeysInv, RowOk
<1>12. \A q \in Key : Calm(q)
  <2> TAKE q \in Key
  <2>1. CASE q = n
    BY <1>6, <1>8, <1>10, <2>1, DeadForBecomes DEF Calm
  <2>2. CASE q = k
    BY <1>2, <1>7, <1>8, <1>10, <2>2, DeadForBecomes, KeysAssumption DEF Calm
  <2>3. CASE q \notin {k, n}
    BY <1>8, <1>10, <2>3, DeadForIs, DeadForBecomes DEF Calm, KeysInv
  <2> QED BY <2>1, <2>2, <2>3
<1>13. \A b \in KeyAdmin : RotationOk(b)'
  <2> TAKE b \in KeyAdmin
  <2>1. CASE b = a
    BY <1>9, <2>1, KeysAssumption DEF RotationOk, NoRotation, KeysInv, KeyTypeOK
  <2>2. CASE b # a
    <3>1. rotation'[b] = rotation[b] /\ RotationOk(b) /\ rotation[b] \in Rotations
      BY <1>9, <2>2 DEF KeysInv, KeyTypeOK
    <3>2. rotation[b].key # NoKey => rotation[b].key \in Key \ {k, n}
      BY <1>2, <1>4, <2>2, <3>1 DEF RotationOk, Rotations
    <3> QED BY <1>2, <1>8, <1>9, <3>1, <3>2 DEF RotationOk, KeysInv, KeyTypeOK
  <2> QED BY <2>1, <2>2
<1>14. SweepOk'
  BY <1>2, <1>4, <1>8, <1>9 DEF KeysInv, SweepOk, Expired, KeyTypeOK, Sweeps
<1> QED BY <1>9, <1>10, <1>11, <1>12, <1>13, <1>14, CalmKeeps DEF KeysInv

(* Steps that leave the rows alone. *)
LEMMA RowsStand ==
  ASSUME KeysInv, KeyTypeOK', UNCHANGED row
  PROVE  (\A k \in Key : RowOk(k)' /\ Calm(k)) /\ (sweep' = sweep => SweepOk')
<1>1. \A k \in Key : Calm(k)
  BY DeadForIs, DeadForBecomes DEF Calm, KeysInv
<1> QED BY <1>1 DEF KeysInv, RowOk, SweepOk, Expired

(* RotateKey takes a free row, RotateAbort frees it. *)
LEMMA RotateKeyKeeps == ASSUME KeysInv, NEW a \in KeyAdmin, RotateKey(a) \/ RotateAbort(a) PROVE KeysInv'
<1>1. KeyTypeOK' /\ \A b \in KeyAdmin : RotationOk(b)'
  <2>1. CASE RotateKey(a)
    <3>1. PICK k \in Key : /\ lock[k] = Nobody /\ row[k].status = "active"
                           /\ lock' = [lock EXCEPT ![k] = a]
                           /\ rotation' = [rotation EXCEPT ![a] = [key |-> k, age |-> 0]]
                           /\ UNCHANGED <<row, keyTrail, keyCache, lookup, sweep>>
      BY <2>1 DEF RotateKey
    <3>2. KeyTypeOK'
      BY <3>1 DEF KeysInv, KeyTypeOK, Rotations
    <3> QED BY <3>1, <3>2, KeysAssumption DEF KeysInv, KeyTypeOK, RotationOk, Rotations
  <2>2. CASE RotateAbort(a)
    <3>1. /\ rotation[a].key \in Key /\ lock[rotation[a].key] = a
          /\ lock' = [lock EXCEPT ![rotation[a].key] = Nobody]
          /\ rotation' = [rotation EXCEPT ![a] = NoRotation]
          /\ UNCHANGED <<row, keyTrail, keyCache, lookup, sweep>>
      BY <2>2 DEF RotateAbort, KeysInv, KeyTypeOK, RotationOk, Rotations
    <3>2. KeyTypeOK'
      BY <3>1 DEF KeysInv, KeyTypeOK, Rotations, NoRotation
    <3> QED BY <3>1, <3>2, KeysAssumption DEF KeysInv, KeyTypeOK, RotationOk, Rotations, NoRotation
  <2> QED BY <2>1, <2>2
<1>2. UNCHANGED <<row, keyCache, lookup, sweep>>
  BY DEF RotateKey, RotateAbort
<1> QED BY <1>1, <1>2, RowsStand, CalmKeeps DEF KeysInv

(* authenticate_request reads the row and fills the cache. *)
LookupStep(c) ==
  \/ PresentKey(c) \/ FetchMine(c) \/ CacheHit(c) \/ LookUp(c) \/ Refuse(c) \/ FillCache(c) \/ Leave(c)

(* A request's step finds a key usable, and fills the cache with what it found. *)
LEMMA LookupKeeps == ASSUME KeysInv, NEW c \in KeyCaller, LookupStep(c) PROVE KeysInv'
<1>0. lookup[c] \in Lookups /\ LookupOk(c) /\ lookup \in [KeyCaller -> Lookups]
  BY DEF KeysInv, KeyTypeOK
<1>1. UNCHANGED <<row, lock, rotation, sweep>>
  BY DEF LookupStep, PresentKey, FetchMine, CacheHit, LookUp, Refuse, FillCache, Leave
<1>2. PICK l \in Lookups :
        /\ lookup' = [lookup EXCEPT ![c] = l]
        /\ l.pc = "found" => /\ l.key \in Key /\ l.key = lookup[c].key /\ l.age = lookup[c].age
                             /\ lookup[c].pc = "present" /\ Usable(l.key)
        /\ l.pc # "idle" => l.key \in Key
        /\ l.pc # "found" => l.age = 0
  <2>1. NoLookup \in Lookups /\ NoLookup.pc = "idle" /\ NoLookup.age = 0
    BY DEF NoLookup, Lookups
  <2>2. CASE lookup' = [lookup EXCEPT ![c] = NoLookup]
    BY <2>1, <2>2
  <2>3. CASE PresentKey(c) \/ FetchMine(c)
    <3>1. PICK k \in Key : lookup' = [lookup EXCEPT ![c] = [pc |-> "present", key |-> k, age |-> 0]]
      BY <2>3 DEF PresentKey, FetchMine, FetchPlaintext
    <3> DEFINE l == [pc |-> "present", key |-> k, age |-> 0]
    <3>2. l \in Lookups /\ l.pc = "present" /\ l.key = k /\ l.age = 0
      BY DEF Lookups
    <3> QED BY <3>1, <3>2
  <2>4. CASE LookUp(c)
    <3> DEFINE l == [lookup[c] EXCEPT !.pc = "found"]
    <3>1. l \in Lookups /\ l.pc = "found" /\ l.key = lookup[c].key /\ l.age = lookup[c].age
      BY <1>0 DEF Lookups
    <3>2. /\ lookup' = [lookup EXCEPT ![c] = l] /\ lookup[c].pc = "present"
          /\ Usable(lookup[c].key) /\ lookup[c].key \in Key
      BY <1>0, <2>4 DEF LookUp, LookupOk
    <3> HIDE DEF l
    <3> QED BY <3>1, <3>2
  <2> QED BY <2>2, <2>3, <2>4 DEF LookupStep, CacheHit, Refuse, FillCache, Leave
<1>3. \/ keyCache' = keyCache
      \/ /\ lookup[c].pc = "found"
         /\ keyCache' = [keyCache EXCEPT ![lookup[c].key] = 0]
  BY DEF LookupStep, PresentKey, FetchMine, CacheHit, LookUp, Refuse, FillCache, Leave
<1>4. KeyTypeOK'
  <2>1. keyCache' \in [Key -> 0..Uncached]
    BY <1>3, KeysAssumption DEF KeysInv, KeyTypeOK, Uncached
  <2> QED BY <1>1, <1>2, <2>1 DEF KeysInv, KeyTypeOK
<1>5. /\ \A k \in Key : RowOk(k)' /\ DeadFor(k)' = DeadFor(k) /\ DeadFor(k) \in Int
      /\ SweepOk' /\ \A a \in KeyAdmin : RotationOk(a)'
  BY <1>1, <1>4, RowsStand, DeadForIs, DeadForBecomes DEF KeysInv, RotationOk
<1>6. ASSUME NEW k \in Key PROVE CacheOk(k)'
  <2>1. CASE keyCache'[k] = keyCache[k]
    BY <1>5, <2>1 DEF KeysInv, CacheOk, KeyCached
  <2>2. CASE lookup[c].pc = "found" /\ k = lookup[c].key /\ keyCache'[k] = 0
    BY <1>0, <1>5, <2>2, KeysAssumption DEF LookupOk, Lookups, CacheOk, KeyCached
  <2> QED BY <1>0, <1>3, <2>1, <2>2 DEF KeysInv, KeyTypeOK, LookupOk
<1>7. ASSUME NEW d \in KeyCaller PROVE LookupOk(d)'
  <2>1. CASE d # c
    <3>1. lookup'[d] = lookup[d] /\ LookupOk(d)
      BY <1>0, <1>2, <2>1 DEF KeysInv
    <3> QED BY <1>5, <3>1 DEF LookupOk
  <2>2. CASE d = c
    <3>1. lookup'[d] = l
      BY <1>0, <1>2, <2>2
    <3>2. l.pc = "found" => DeadFor(l.key) = 0 /\ l.age = 0
      BY <1>0, <1>2 DEF DeadFor, LookupOk
    <3> QED BY <1>2, <1>5, <3>1, <3>2, KeysAssumption DEF LookupOk
  <2> QED BY <2>1, <2>2
<1> QED BY <1>4, <1>5, <1>6, <1>7 DEF KeysInv

(* SweepStart notes what is due and lists every workspace, or counts a failure. *)
LEMMA SweepStartKeeps == KeysInv /\ SweepStart => KeysInv'
<1> SUFFICES ASSUME KeysInv, SweepStart PROVE KeysInv'
  OBVIOUS
<1>1. PICK blind \in BOOLEAN :
        LET listed == Enumerate(blind) IN
        sweep' = [pc |-> "sweeping", todo |-> listed.ids, enumerated |-> Cardinality(listed.ids),
                  swept |-> 0, failures |-> IF listed.ok THEN 0 ELSE 1,
                  due |-> {k \in Key : Expired(k)}]
  BY DEF SweepStart
<1>2. UNCHANGED <<row, lock, keyCache, lookup, rotation>>
  BY DEF SweepStart
<1> DEFINE ids == IF blind THEN {} ELSE Workspace
           bad == IF blind THEN 1 ELSE 0
           due == {k \in Key : Expired(k)}
           n == Cardinality(ids)
<1>3. sweep' = [pc |-> "sweeping", todo |-> ids, enumerated |-> n, swept |-> 0, failures |-> bad,
                due |-> due]
  <2>1. CASE blind
    BY <1>1, <2>1 DEF Enumerate
  <2>2. CASE ~blind
    BY <1>1, <2>2 DEF Enumerate
  <2> QED BY <2>1, <2>2
<1>4. ids \in SUBSET Workspace /\ n \in Counts(Workspace) /\ bad \in Nat /\ due \in SUBSET Key
  BY DEF Counts
<1>5. bad = 0 => ids = Workspace
  OBVIOUS
<1>6. \A k \in due : k \in Key /\ Expired(k)
  OBVIOUS
<1> HIDE DEF ids, bad, due, n
<1>7. sweep' \in Sweeps /\ sweep'.todo = ids /\ sweep'.failures = bad /\ sweep'.due = due
  BY <1>3, <1>4 DEF Sweeps
<1>8. KeyTypeOK'
  BY <1>2, <1>7 DEF KeysInv, KeyTypeOK
<1>9. SweepOk'
  BY <1>2, <1>5, <1>6, <1>7 DEF SweepOk, Expired, KeysInv, RowOk
<1> QED BY <1>2, <1>8, <1>9, RowsStand, CalmKeeps DEF KeysInv, RotationOk

(* SweepFails counts the workspace it leaves out; SweepDone forgets what was due. *)
LEMMA SweepEndKeeps == KeysInv /\ (SweepFails \/ SweepDone) => KeysInv'
<1> SUFFICES ASSUME KeysInv, SweepFails \/ SweepDone PROVE KeysInv'
  OBVIOUS
<1>1. UNCHANGED <<row, lock, keyCache, lookup, rotation>>
  BY DEF SweepFails, SweepDone
<1>2. sweep' \in Sweeps /\ SweepOk'
  <2>1. CASE SweepFails
    <3>1. PICK w \in sweep.todo : sweep' = [sweep EXCEPT !.todo = @ \ {w}, !.failures = @ + 1]
      BY <2>1 DEF SweepFails
    <3> DEFINE rest == sweep.todo \ {w}
               count == sweep.failures + 1
    <3>2. sweep \in Sweeps /\ rest \in SUBSET Workspace /\ count \in Nat /\ count # 0
      BY DEF KeysInv, KeyTypeOK, Sweeps
    <3>3. sweep' = [sweep EXCEPT !.todo = rest, !.failures = count]
      BY <3>1
    <3> HIDE DEF rest, count
    <3>4. sweep' \in Sweeps /\ sweep'.due = sweep.due /\ sweep'.failures # 0
      BY <3>2, <3>3 DEF Sweeps
    <3> QED BY <1>1, <3>4 DEF KeysInv, SweepOk, Expired
  <2>2. CASE SweepDone
    <3>1. sweep' = NoSweep /\ 0 \in Counts(Workspace)
      <4>1. Cardinality({}) = 0
        BY FS_EmptySet
      <4> QED BY <2>2, <4>1 DEF SweepDone, Counts
    <3> QED BY <3>1 DEF NoSweep, Sweeps, SweepOk
  <2> QED BY <2>1, <2>2
<1>3. KeyTypeOK'
  BY <1>1, <1>2 DEF KeysInv, KeyTypeOK
<1> QED BY <1>1, <1>2, <1>3, RowsStand, CalmKeeps DEF KeysInv, RotationOk

(* KeysAge: the dead, the entries of the cache and the lookups age together. *)
LEMMA KeysAgeKeeps == KeysInv /\ KeysAge => KeysInv'
<1> SUFFICES ASSUME KeysInv, KeysAge PROVE KeysInv'
  OBVIOUS
<1>1. ASSUME NEW k \in Key
      PROVE  /\ row'[k] \in KeyRows /\ row'[k].status = row[k].status /\ row'[k].home = row[k].home
             /\ row'[k].age = IF Ageing(k) THEN row[k].age + 1 ELSE row[k].age
             /\ row[k].age \in Nat
  <2> DEFINE n == row[k].age + 1
  <2>1. row[k] \in KeyRows /\ n \in Nat
    BY DEF KeysInv, KeyTypeOK, KeyRows
  <2>2. row'[k] = IF Ageing(k) THEN [row[k] EXCEPT !.age = n] ELSE row[k]
    BY DEF KeysAge
  <2> HIDE DEF n
  <2>3. /\ row'[k] \in KeyRows /\ row'[k].status = row[k].status /\ row'[k].home = row[k].home
        /\ row'[k].age = IF Ageing(k) THEN n ELSE row[k].age
        /\ row[k].age \in Nat
    BY <2>1, <2>2 DEF KeyRows
  <2> QED BY <2>3 DEF n
<1>2. ASSUME NEW k \in Key
      PROVE  /\ keyCache[k] \in Nat /\ keyCache'[k] \in 0..Uncached
             /\ keyCache'[k] = IF KeyCached(k) THEN keyCache[k] + 1 ELSE Uncached
  <2>1. keyCache[k] \in 0..Uncached /\ Uncached = KeyTtl + 1
    BY DEF KeysInv, KeyTypeOK, Uncached
  <2>2. keyCache'[k] = IF KeyCached(k) THEN keyCache[k] + 1 ELSE Uncached
    BY DEF KeysAge
  <2> QED BY <2>1, <2>2, KeysAssumption DEF KeyCached
<1>3. ASSUME NEW c \in KeyCaller
      PROVE  /\ lookup'[c] \in Lookups /\ lookup'[c].pc = lookup[c].pc /\ lookup'[c].key = lookup[c].key
             /\ lookup'[c].age = IF lookup[c].pc = "found" THEN lookup[c].age + 1 ELSE 0
             /\ lookup[c].pc = "found" => lookup[c].age < LookupStall
             /\ lookup[c].age \in Nat
  <2> DEFINE n == IF lookup[c].pc = "found" THEN lookup[c].age + 1 ELSE 0
  <2>1. lookup[c] \in Lookups /\ n \in Nat
    BY DEF KeysInv, KeyTypeOK, Lookups
  <2>2. lookup'[c] = [lookup[c] EXCEPT !.age = n]
    BY DEF KeysAge
  <2> HIDE DEF n
  <2>3. /\ lookup'[c] \in Lookups /\ lookup'[c].pc = lookup[c].pc /\ lookup'[c].key = lookup[c].key
        /\ lookup'[c].age = n /\ lookup[c].age \in Nat
    BY <2>1, <2>2 DEF Lookups
  <2> QED BY <2>3 DEF n, KeysAge
<1>4. ASSUME NEW a \in KeyAdmin
      PROVE  /\ rotation'[a] \in Rotations /\ rotation'[a].key = rotation[a].key
             /\ rotation'[a].age = IF rotation[a].key # NoKey THEN rotation[a].age + 1 ELSE 0
             /\ rotation[a].key # NoKey => rotation[a].age < LookupStall
             /\ rotation[a].age \in Nat
  <2> DEFINE n == IF rotation[a].key # NoKey THEN rotation[a].age + 1 ELSE 0
  <2>1. rotation[a] \in Rotations /\ n \in Nat
    BY DEF KeysInv, KeyTypeOK, Rotations
  <2>2. rotation'[a] = [rotation[a] EXCEPT !.age = n]
    BY DEF KeysAge
  <2> HIDE DEF n
  <2>3. /\ rotation'[a] \in Rotations /\ rotation'[a].key = rotation[a].key
        /\ rotation'[a].age = n /\ rotation[a].age \in Nat
    BY <2>1, <2>2 DEF Rotations
  <2> QED BY <2>3 DEF n, KeysAge
<1>5. UNCHANGED <<lock, sweep>>
  BY DEF KeysAge
<1>6. KeyTypeOK'
  <2>1. row' \in [Key -> KeyRows]
    BY <1>1 DEF KeysAge
  <2>2. keyCache' \in [Key -> 0..Uncached]
    BY <1>2 DEF KeysAge
  <2>3. lookup' \in [KeyCaller -> Lookups]
    BY <1>3 DEF KeysAge
  <2>4. rotation' \in [KeyAdmin -> Rotations]
    BY <1>4 DEF KeysAge
  <2> QED BY <1>5, <2>1, <2>2, <2>3, <2>4 DEF KeysInv, KeyTypeOK
<1>7. ASSUME NEW k \in Key PROVE DeadFor(k)' <= 0 \/ DeadFor(k)' <= DeadFor(k) + 1
  BY <1>1, <1>6, DeadForIs, DeadForBecomes, KeysAssumption DEF KeysInv, Ageing
<1>8. \A k \in Key : RowOk(k)'
  BY <1>1 DEF KeysInv, RowOk, Ageing
<1>9. ASSUME NEW k \in Key PROVE CacheOk(k)'
  <2> SUFFICES ASSUME KeyCached(k)' PROVE DeadFor(k)' <= LookupStall + keyCache'[k]
    BY DEF CacheOk
  <2>1. KeyCached(k) /\ keyCache'[k] = keyCache[k] + 1
    BY <1>2, KeysAssumption DEF KeyCached, Uncached
  <2>2. DeadFor(k) <= LookupStall + keyCache[k]
    BY <2>1 DEF KeysInv, CacheOk
  <2>3. DeadFor(k) \in Int /\ DeadFor(k)' \in Int /\ keyCache[k] \in Nat
    BY <1>2, <1>6, DeadForIs, DeadForBecomes DEF KeysInv
  <2> QED BY <1>7, <2>1, <2>2, <2>3, KeysAssumption
<1>10. ASSUME NEW c \in KeyCaller PROVE LookupOk(c)'
  <2>1. LookupOk(c)
    BY DEF KeysInv
  <2>2. CASE lookup[c].pc = "found"
    <3>1. PICK k \in Key : k = lookup[c].key
      BY <2>1, <2>2 DEF LookupOk
    <3>2. DeadFor(k) <= lookup[c].age /\ lookup'[c].key = k /\ lookup'[c].age = lookup[c].age + 1
      BY <1>3, <2>1, <2>2, <3>1 DEF LookupOk
    <3>3. DeadFor(k) \in Int /\ DeadFor(k)' \in Int
      BY <1>6, DeadForIs, DeadForBecomes DEF KeysInv
    <3>4. DeadFor(k)' <= lookup'[c].age
      BY <1>3, <1>7, <3>2, <3>3
    <3> QED BY <1>3, <2>2, <3>1, <3>2, <3>4, KeysAssumption DEF LookupOk
  <2> QED BY <1>3, <2>1, <2>2 DEF LookupOk
<1>11. \A a \in KeyAdmin : RotationOk(a)'
  <2> TAKE a \in KeyAdmin
  <2>1. RotationOk(a) /\ rotation[a] \in Rotations
    BY DEF KeysInv, KeyTypeOK
  <2>2. rotation'[a].age <= LookupStall
    BY <1>4, KeysAssumption
  <2>3. rotation[a].key # NoKey => row'[rotation[a].key].status = "active"
    BY <1>1, <2>1 DEF RotationOk, Rotations
  <2> QED BY <1>4, <1>5, <2>1, <2>2, <2>3 DEF RotationOk
<1>12. SweepOk'
  <2> SUFFICES ASSUME NEW k \in sweep.due
               PROVE  /\ (Expired(k) \/ row[k].status = "revoked")'
                      /\ sweep.failures = 0 /\ row'[k].status # "revoked" => row'[k].home \in sweep.todo
    BY <1>5 DEF SweepOk
  <2>1. k \in Key
    BY DEF KeysInv, KeyTypeOK, Sweeps
  <2> QED BY <1>1, <2>1, KeysAssumption DEF KeysInv, SweepOk, Expired, Ageing
<1> QED BY <1>6, <1>8, <1>9, <1>10, <1>11, <1>12 DEF KeysInv

(* KeysInv is an invariant. *)
LEMMA KeysInvariance == KeysSpec => []KeysInv
<1>1. KeysInv /\ [KeysNext]_keyVars => KeysInv'
  <2> SUFFICES ASSUME KeysInv, [KeysNext]_keyVars PROVE KeysInv'
    OBVIOUS
  <2>1. CASE UNCHANGED keyVars
    BY <2>1 DEF keyVars, KeysInv, KeyTypeOK, RowOk, CacheOk, KeyCached, RotationOk, LookupOk, SweepOk,
                DeadFor, Usable, InGrace, Expired
  <2>2. ASSUME NEW a \in KeyAdmin, RotateKey(a) \/ RotateCommit(a) \/ RotateAbort(a) PROVE KeysInv'
    BY <2>2, RotateKeyKeeps, RotateCommitKeeps
  <2>3. ASSUME NEW c \in KeyCaller, LookupStep(c) PROVE KeysInv'
    BY <2>3, LookupKeeps
  <2> QED BY <2>1, <2>2, <2>3, CreateKeyKeeps, RevokeKeyKeeps, SweepStartKeeps, SweepOneKeeps,
             SweepEndKeeps, KeysAgeKeeps DEF KeysNext, LookupStep
<1> QED BY <1>1, KeysStart, PTL DEF KeysSpec

(* A revoked key, or a rotated one out of grace, is served for no longer than the TTL of the cache
   and the time between a lookup and the filling, whoever uses it and however the two interleave with
   the revocation: get_api_key never renews an entry. *)
THEOREM RevokedKeysStop == KeysSpec => RevokedStopsInTime
<1>1. KeysInv /\ [KeysNext]_keyVars => [ServedInTime]_keyVars
  <2> SUFFICES ASSUME KeysInv, NEW c \in KeyCaller, CacheHit(c) \/ FillCache(c)
               PROVE  DeadFor(lookup[c].key) <= LookupStall + KeyTtl
    BY DEF ServedInTime
  <2> DEFINE k == lookup[c].key
  <2>1. lookup[c] \in Lookups /\ LookupOk(c) /\ lookup[c].pc # "idle"
    BY DEF KeysInv, KeyTypeOK, CacheHit, FillCache
  <2>2. k \in Key
    BY <2>1 DEF LookupOk
  <2>3. DeadFor(k) \in Int /\ CacheOk(k) /\ keyCache[k] \in Nat
    BY <2>2, DeadForIs, KeysAssumption DEF KeysInv, KeyTypeOK, Uncached
  <2>4. CASE CacheHit(c)
    <3>1. keyCache[k] <= KeyTtl
      BY <2>4 DEF CacheHit, KeyCached
    <3> QED BY <2>3, <3>1, KeysAssumption DEF CacheOk, KeyCached
  <2>5. CASE FillCache(c)
    BY <2>1, <2>3, <2>5, KeysAssumption DEF FillCache, LookupOk, Lookups
  <2> QED BY <2>4, <2>5
<1> QED BY <1>1, KeysInvariance, PTL DEF KeysSpec, RevokedStopsInTime

(* A sweep that reports success has closed every key that was out of grace when it began: a
   workspace it could not enumerate or sweep is a failure it reports. *)
THEOREM CleanSweeps == KeysSpec => CleanSweepIsComplete
<1>1. KeysInv /\ [KeysNext]_keyVars => [SweepIsComplete]_keyVars
  BY DEF SweepIsComplete, SweepDone, AllOk, KeysInv, SweepOk
<1> QED BY <1>1, KeysInvariance, PTL DEF KeysSpec, CleanSweepIsComplete
(***************************************************************************)
(* RateLimit.  A bucket's instants run from the oldest to the newest.       *)
(***************************************************************************)
Ages == 0..(Window + 1)

Aged(s) ==
  /\ s \in Seq(Ages)
  /\ \A i, j \in 1..Len(s) : i <= j => s[j] <= s[i]

(* What a bucket let through in the window is what it still holds of the window, or that and one
   request which found it run empty and was not recorded, before all that it holds. *)
Accounted(s, let) ==
  \/ let = Recent(s)
  \/ \E u \in 0..Window : let = <<u>> \o s /\ \A i \in 1..Len(s) : s[i] <= u

BucketOk(s, let) == Aged(s) /\ Accounted(s, let) /\ Len(Recent(s)) <= MaxRequests

LimitsInv ==
  /\ DOMAIN entry = Bucket /\ DOMAIN passed = Bucket
  /\ DOMAIN turn = Arrival
  /\ \A c \in Arrival : DOMAIN turn[c] = {"pc", "key"} /\ turn[c].key \in Bucket
  /\ \A b \in Bucket : BucketOk(entry[b], passed[b])

(* The instants past the window stand first; Recent is what comes after them. *)
LEMMA RecentIs ==
  ASSUME NEW s, Aged(s)
  PROVE  \E n \in 0..Len(s) :
           /\ \A i \in 1..n : s[i] > Window
           /\ \A i \in (n + 1)..Len(s) : s[i] <= Window
           /\ Recent(s) \in Seq(Ages)
           /\ Len(Recent(s)) = Len(s) - n
           /\ \A i \in 1..(Len(s) - n) : Recent(s)[i] = s[n + i]
<1> DEFINE T == {j \in 1..(Len(s) + 1) : j <= Len(s) => s[j] <= Window}
           Past == {i \in DOMAIN s : s[i] > Window}
<1>0. Len(s) \in Nat /\ DOMAIN s = 1..Len(s) /\ Window \in Nat /\ \A i \in 1..Len(s) : s[i] \in Ages
  BY LimitsAssumption DEF Aged
<1>1. T \subseteq Nat /\ T # {}
  <2>1. Len(s) + 1 \in T
    BY <1>0
  <2> QED BY <2>1, <1>0
<1>2. PICK m \in T : \A j \in T : ~(<<j, m>> \in OpToRel(<, Nat))
  BY <1>1, WFMin, NatLessThanWellFounded
<1>3. \A j \in T : ~(j < m)
  BY <1>1, <1>2 DEF OpToRel
<1>4. PICK n \in 0..Len(s) : n = m - 1
  BY <1>0
<1>5. \A i \in 1..n : s[i] > Window
  BY <1>0, <1>3, <1>4 DEF Ages
<1>6. \A i \in (n + 1)..Len(s) : s[i] <= Window
  <2> TAKE i \in (n + 1)..Len(s)
  <2>1. m \in 1..Len(s) /\ m <= i /\ s[m] <= Window
    BY <1>0, <1>4
  <2>2. s[i] <= s[m]
    BY <2>1, <1>0, <1>4 DEF Aged
  <2> QED BY <2>1, <2>2, <1>0, <1>4 DEF Ages
<1>7. Past = 1..n
  <2>1. \A i \in Past : i \in 1..n
    BY <1>0, <1>6 DEF Ages
  <2>2. \A i \in 1..n : i \in Past
    BY <1>0, <1>5
  <2> QED BY <2>1, <2>2
<1>8. Cardinality(Past) = n
  <2>1. Cardinality(1..n) = IF 1 > n THEN 0 ELSE n - 1 + 1
    BY <1>0, FS_Interval
  <2>2. Cardinality(1..n) = n
    BY <2>1, <1>0
  <2> QED BY <2>2, <1>7, Zenon
<1>9. Recent(s) = SubSeq(s, n + 1, Len(s))
  BY <1>8 DEF Recent
<1>10. /\ Recent(s) \in Seq(Ages)
       /\ Len(Recent(s)) = Len(s) - n
       /\ \A i \in 1..(Len(s) - n) : Recent(s)[i] = s[n + i]
  <2>1. \A i \in (n + 1)..Len(s) : s[i] \in Ages
    BY <1>0
  <2>2. n + 1 \in Int /\ Len(s) \in Int
    BY <1>0
  <2>3. /\ SubSeq(s, n + 1, Len(s)) \in Seq(Ages)
        /\ Len(SubSeq(s, n + 1, Len(s))) = IF n + 1 <= Len(s) THEN Len(s) - (n + 1) + 1 ELSE 0
        /\ \A i \in 1..(Len(s) - (n + 1) + 1) : SubSeq(s, n + 1, Len(s))[i] = s[n + 1 + i - 1]
    BY <2>1, <2>2, SubSeqProperties
  <2>4. Len(Recent(s)) = Len(s) - n
    <3> DEFINE l == Len(Recent(s))
    <3>1. l = IF n + 1 <= Len(s) THEN Len(s) - (n + 1) + 1 ELSE 0
      BY <2>3, <1>9, Zenon
    <3> HIDE DEF l
    <3>2. Len(s) \in Nat /\ n \in Nat /\ n <= Len(s)
      BY <1>0
    <3>3. CASE n + 1 <= Len(s)
      BY <3>1, <3>2, <3>3 DEF l
    <3>4. CASE ~(n + 1 <= Len(s))
      <4>1. l = 0 /\ n = Len(s)
        BY <3>1, <3>2, <3>4
      <4> QED BY <4>1, <3>2 DEF l
    <3> QED BY <3>3, <3>4
  <2>5. ASSUME NEW i \in 1..(Len(s) - n) PROVE Recent(s)[i] = s[n + i]
    <3>1. i \in 1..(Len(s) - (n + 1) + 1) /\ n + 1 + i - 1 = n + i
      BY <1>0
    <3> QED BY <3>1, <2>3, <1>9
  <2> QED BY <2>3, <2>4, <2>5, <1>9
<1> QED BY <1>5, <1>6, <1>10

(* Two sequences of instants with the same elements are the same. *)
LEMMA SameInstants ==
  ASSUME NEW s \in Seq(Ages), NEW t \in Seq(Ages), Len(s) = Len(t), \A i \in 1..Len(s) : s[i] = t[i]
  PROVE  s = t
BY SeqEqual

(* Trimming a bucket with nothing past the window leaves it. *)
LEMMA AllRecent ==
  ASSUME NEW s, Aged(s), \A i \in 1..Len(s) : s[i] <= Window
  PROVE  Recent(s) = s
<1>0. s \in Seq(Ages) /\ Len(s) \in Nat /\ Window \in Nat /\ \A i \in 1..Len(s) : s[i] \in Ages
  BY LimitsAssumption DEF Aged
<1>1. PICK n \in 0..Len(s) :
        /\ \A i \in 1..n : s[i] > Window
        /\ Recent(s) \in Seq(Ages) /\ Len(Recent(s)) = Len(s) - n
        /\ \A i \in 1..(Len(s) - n) : Recent(s)[i] = s[n + i]
  BY RecentIs
<1>2. n = 0
  BY <1>0, <1>1 DEF Ages
<1> QED BY <1>0, <1>1, <1>2, SameInstants

(* What is trimmed runs from the oldest to the newest, and holds nothing past the window. *)
LEMMA RecentAged ==
  ASSUME NEW s, Aged(s)
  PROVE  Aged(Recent(s)) /\ \A i \in 1..Len(Recent(s)) : Recent(s)[i] <= Window
<1>0. s \in Seq(Ages) /\ Len(s) \in Nat /\ Window \in Nat /\ \A i \in 1..Len(s) : s[i] \in Ages
  BY LimitsAssumption DEF Aged
<1>1. PICK n \in 0..Len(s) :
        /\ \A i \in (n + 1)..Len(s) : s[i] <= Window
        /\ Recent(s) \in Seq(Ages) /\ Len(Recent(s)) = Len(s) - n
        /\ \A i \in 1..(Len(s) - n) : Recent(s)[i] = s[n + i]
  BY RecentIs
<1>2. \A i \in 1..Len(Recent(s)) : Recent(s)[i] <= Window
  BY <1>0, <1>1
<1>3. ASSUME NEW i \in 1..Len(Recent(s)), NEW j \in 1..Len(Recent(s)), i <= j
      PROVE  Recent(s)[j] <= Recent(s)[i]
  <2>1. n + i \in 1..Len(s) /\ n + j \in 1..Len(s) /\ n + i <= n + j
    BY <1>0, <1>1, <1>3
  <2>2. s[n + j] <= s[n + i]
    BY <2>1 DEF Aged
  <2> QED BY <2>2, <1>1, <1>3
<1> QED BY <1>1, <1>2, <1>3 DEF Aged

(* A tick keeps the order. *)
LEMMA OlderAged ==
  ASSUME NEW s, Aged(s)
  PROVE  /\ Aged(Older(s)) /\ Len(Older(s)) = Len(s)
         /\ \A i \in 1..Len(s) : Older(s)[i] = IF s[i] <= Window THEN s[i] + 1 ELSE Window + 1
<1>0. /\ s \in Seq(Ages) /\ Len(s) \in Nat /\ DOMAIN s = 1..Len(s)
      /\ Window \in Nat /\ \A i \in 1..Len(s) : s[i] \in Ages
  BY LimitsAssumption DEF Aged
<1>1. \A i \in 1..Len(s) : Older(s)[i] = IF s[i] <= Window THEN s[i] + 1 ELSE Window + 1
  BY <1>0 DEF Older
<1>2. \A i \in 1..Len(s) : Older(s)[i] \in Ages
  BY <1>0, <1>1 DEF Ages
<1>3. DOMAIN Older(s) = 1..Len(s) /\ Older(s) = [i \in 1..Len(s) |-> Older(s)[i]]
  BY <1>0 DEF Older
<1>4. Older(s) \in Seq(Ages) /\ Len(Older(s)) = Len(s)
  <2>1. \A f, n : n \in Nat /\ f = [i \in 1..n |-> f[i]] /\ (\A i \in 1..n : f[i] \in Ages)
                  => f \in Seq(Ages) /\ Len(f) = n
    OBVIOUS
  <2> QED BY <2>1, <1>0, <1>2, <1>3
<1>5. ASSUME NEW i \in 1..Len(s), NEW j \in 1..Len(s), i <= j
      PROVE  Older(s)[j] <= Older(s)[i]
  <2>1. s[j] <= s[i]
    BY <1>5 DEF Aged
  <2> QED BY <2>1, <1>0, <1>1 DEF Ages
<1> QED BY <1>1, <1>4, <1>5 DEF Aged

(* Two trimmed ends of one sequence of instants are the same where the same instants are past. *)
LEMMA SameRecent ==
  ASSUME NEW s, Aged(s), NEW t, Aged(t), NEW k \in Nat, Len(s) = k + Len(t),
         \A i \in 1..Len(t) : t[i] = s[k + i],
         \A i \in 1..k : s[i] > Window
  PROVE  Recent(s) = Recent(t)
<1>0. /\ Len(s) \in Nat /\ Len(t) \in Nat /\ Window \in Nat
      /\ \A i \in 1..Len(s) : s[i] \in Nat
      /\ \A i \in 1..Len(t) : t[i] \in Nat
  BY LimitsAssumption, SMTT(30) DEF Aged, Ages
<1>1. PICK n \in 0..Len(s) :
        /\ \A i \in 1..n : s[i] > Window
        /\ \A i \in (n + 1)..Len(s) : s[i] <= Window
        /\ Recent(s) \in Seq(Ages) /\ Len(Recent(s)) = Len(s) - n
        /\ \A i \in 1..(Len(s) - n) : Recent(s)[i] = s[n + i]
  BY RecentIs
<1>2. PICK m \in 0..Len(t) :
        /\ \A i \in 1..m : t[i] > Window
        /\ \A i \in (m + 1)..Len(t) : t[i] <= Window
        /\ Recent(t) \in Seq(Ages) /\ Len(Recent(t)) = Len(t) - m
        /\ \A i \in 1..(Len(t) - m) : Recent(t)[i] = t[m + i]
  BY RecentIs
<1>3. ~(n < k)
  <2> SUFFICES ASSUME n < k PROVE FALSE
    OBVIOUS
  <2>1. n + 1 \in 1..k /\ n + 1 \in (n + 1)..Len(s)
    BY <1>0
  <2> QED BY <2>1, <1>0, <1>1
<1>4. ~(n < k + m)
  <2> SUFFICES ASSUME n < k + m PROVE FALSE
    OBVIOUS
  <2>1. n + 1 - k \in 1..m /\ n + 1 \in (n + 1)..Len(s) /\ n + 1 - k \in 1..Len(t)
    BY <1>0, <1>3
  <2>2. t[n + 1 - k] = s[n + 1]
    <3>1. t[n + 1 - k] = s[k + (n + 1 - k)]
      BY <2>1
    <3> QED BY <3>1, <1>0
  <2> QED BY <2>1, <2>2, <1>0, <1>1, <1>2
<1>5. ~(n > k + m)
  <2> SUFFICES ASSUME n > k + m PROVE FALSE
    OBVIOUS
  <2>1. m + 1 \in (m + 1)..Len(t) /\ m + 1 \in 1..Len(t) /\ k + (m + 1) \in 1..n
    BY <1>0
  <2>2. t[m + 1] = s[k + (m + 1)]
    BY <2>1
  <2> QED BY <2>1, <2>2, <1>0, <1>1, <1>2
<1>6. n = k + m
  BY <1>0, <1>4, <1>5
<1>7. Len(Recent(s)) = Len(Recent(t))
  BY <1>0, <1>1, <1>2, <1>6
<1>8. ASSUME NEW i \in 1..Len(Recent(s)) PROVE Recent(s)[i] = Recent(t)[i]
  <2>1. i \in 1..(Len(s) - n) /\ i \in 1..(Len(t) - m) /\ m + i \in 1..Len(t)
    BY <1>0, <1>1, <1>2, <1>6
  <2>2. Recent(s)[i] = s[n + i] /\ Recent(t)[i] = t[m + i]
    BY <2>1, <1>1, <1>2
  <2>3. t[m + i] = s[k + (m + i)] /\ k + (m + i) = n + i
    BY <2>1, <1>0, <1>6
  <2> QED BY <2>2, <2>3
<1> QED BY <1>1, <1>2, <1>7, <1>8, SameInstants

(* To age what is left of a bucket is to age the bucket. *)
LEMMA RecentOlder ==
  ASSUME NEW s, Aged(s)
  PROVE  Recent(Older(Recent(s))) = Recent(Older(s))
<1>0. Len(s) \in Nat /\ Window \in Nat /\ \A i \in 1..Len(s) : s[i] \in Nat
  BY LimitsAssumption DEF Aged, Ages
<1>1. PICK n \in 0..Len(s) :
        /\ \A i \in 1..n : s[i] > Window
        /\ Recent(s) \in Seq(Ages) /\ Len(Recent(s)) = Len(s) - n
        /\ \A i \in 1..(Len(s) - n) : Recent(s)[i] = s[n + i]
  BY RecentIs
<1>2. Aged(Recent(s))
  BY RecentAged
<1> DEFINE old == Older(s)
           new == Older(Recent(s))
<1>3. /\ Aged(old) /\ Len(old) = Len(s)
      /\ \A i \in 1..Len(s) : old[i] = IF s[i] <= Window THEN s[i] + 1 ELSE Window + 1
  BY OlderAged
<1>4. /\ Aged(new) /\ Len(new) = Len(Recent(s))
      /\ \A i \in 1..Len(Recent(s)) :
           new[i] = IF Recent(s)[i] <= Window THEN Recent(s)[i] + 1 ELSE Window + 1
  BY <1>2, OlderAged
<1> HIDE DEF old, new
<1>5. n \in Nat /\ Len(old) = n + Len(new)
  BY <1>0, <1>1, <1>3, <1>4
<1>6. ASSUME NEW i \in 1..Len(new) PROVE new[i] = old[n + i]
  <2>1. i \in 1..(Len(s) - n) /\ i \in 1..Len(Recent(s)) /\ n + i \in 1..Len(s)
    BY <1>0, <1>1, <1>4
  <2>2. Recent(s)[i] = s[n + i]
    BY <2>1, <1>1
  <2> QED BY <2>1, <2>2, <1>3, <1>4
<1>7. \A i \in 1..n : old[i] > Window
  BY <1>0, <1>1, <1>3
<1>8. Recent(old) = Recent(new)
  BY <1>3, <1>4, <1>5, <1>6, <1>7, SameRecent
<1> QED BY <1>8 DEF old, new

(* A request that was let in as the newest. *)
LEMMA AppendAged ==
  ASSUME NEW s, Aged(s)
  PROVE  Aged(Append(s, 0)) /\ Len(Append(s, 0)) = Len(s) + 1
<1>0. s \in Seq(Ages) /\ Len(s) \in Nat /\ Window \in Nat /\ 0 \in Ages /\ \A i \in 1..Len(s) : s[i] \in Nat
  BY LimitsAssumption DEF Aged, Ages
<1>1. /\ Append(s, 0) \in Seq(Ages) /\ Len(Append(s, 0)) = Len(s) + 1
      /\ \A i \in 1..Len(s) : Append(s, 0)[i] = s[i]
      /\ Append(s, 0)[Len(s) + 1] = 0
  BY <1>0, AppendProperties
<1>2. ASSUME NEW i \in 1..(Len(s) + 1), NEW j \in 1..(Len(s) + 1), i <= j
      PROVE  Append(s, 0)[j] <= Append(s, 0)[i]
  <2>1. CASE j = Len(s) + 1
    <3>1. Append(s, 0)[i] \in Nat
      BY <1>0, <1>1
    <3> QED BY <2>1, <3>1, <1>1
  <2>2. CASE j # Len(s) + 1
    <3>1. i \in 1..Len(s) /\ j \in 1..Len(s)
      BY <2>2, <1>0, <1>2
    <3> QED BY <3>1, <1>1, <1>2 DEF Aged
  <2> QED BY <2>1, <2>2
<1> QED BY <1>1, <1>2 DEF Aged

(* A request that finds its bucket run empty passes and is not recorded: whatever the bucket let
   through before is past the window too. *)
LEMMA RunEmpty ==
  ASSUME NEW s, NEW let, BucketOk(s, let), s # <<>>, Recent(s) = <<>>
  PROVE  BucketOk(<<>>, Append(let, 0))
<1>0. Window \in Nat /\ MaxRequests \in Nat /\ Aged(s)
  BY LimitsAssumption DEF BucketOk
<1>1. Aged(<<>>)
  BY DEF Aged
<1>2. Recent(<<>>) = <<>>
  BY <1>1, AllRecent
<1>3. let = <<>>
  <2>1. CASE let = Recent(s)
    BY <2>1
  <2>2. ASSUME NEW u \in 0..Window, \A i \in 1..Len(s) : s[i] <= u
        PROVE  FALSE
    <3>1. s \in Seq(Ages) /\ \A i \in 1..Len(s) : s[i] \in Nat
      BY <1>0 DEF Aged, Ages
    <3>2. \A i \in 1..Len(s) : s[i] <= Window
      BY <3>1, <2>2, <1>0
    <3>3. Recent(s) = s
      BY <3>2, <1>0, AllRecent
    <3> QED BY <3>3
  <2> QED BY <2>1, <2>2 DEF BucketOk, Accounted
<1>4. Append(let, 0) = <<0>> \o <<>>
  BY <1>3
<1>5. Accounted(<<>>, Append(let, 0))
  BY <1>0, <1>4 DEF Accounted
<1> QED BY <1>0, <1>1, <1>2, <1>5 DEF BucketOk

(* A bucket that was trimmed, and a request that was refused. *)
LEMMA Trimmed ==
  ASSUME NEW s, NEW let, BucketOk(s, let)
  PROVE  BucketOk(Recent(s), let) /\ Recent(Recent(s)) = Recent(s)
<1>0. Window \in Nat /\ Aged(s) /\ Aged(Recent(s))
  BY LimitsAssumption, RecentAged DEF BucketOk
<1>1. Recent(Recent(s)) = Recent(s)
  BY <1>0, RecentAged, AllRecent
<1>2. ASSUME NEW u \in 0..Window, \A i \in 1..Len(s) : s[i] <= u
      PROVE  Recent(s) = s
  <2>1. s \in Seq(Ages) /\ \A i \in 1..Len(s) : s[i] \in Nat
    BY <1>0 DEF Aged, Ages
  <2>2. \A i \in 1..Len(s) : s[i] <= Window
    BY <2>1, <1>2, <1>0
  <2> QED BY <2>2, <1>0, AllRecent
<1>3. Accounted(Recent(s), let)
  BY <1>1, <1>2 DEF BucketOk, Accounted
<1> QED BY <1>0, <1>1, <1>3 DEF BucketOk

(* A request that was recorded. *)
LEMMA Recorded ==
  ASSUME NEW s, NEW let, BucketOk(s, let), Len(Recent(s)) < MaxRequests
  PROVE  BucketOk(Append(Recent(s), 0), Append(let, 0))
<1> DEFINE left == Recent(s)
<1>0. /\ Window \in Nat /\ MaxRequests \in Nat /\ Aged(left) /\ Accounted(left, let) /\ Recent(left) = left
      /\ \A i \in 1..Len(left) : left[i] <= Window
      /\ Len(left) < MaxRequests
  BY LimitsAssumption, Trimmed, RecentAged DEF BucketOk
<1> HIDE DEF left
<1>1. left \in Seq(Ages) /\ 0 \in Ages /\ Len(left) \in Nat /\ \A i \in 1..Len(left) : left[i] \in Ages
  BY <1>0 DEF Aged, Ages
<1>2. Aged(Append(left, 0)) /\ Len(Append(left, 0)) = Len(left) + 1
  BY <1>0, AppendAged
<1>3. \A i \in 1..(Len(left) + 1) : Append(left, 0)[i] = IF i <= Len(left) THEN left[i] ELSE 0
  BY <1>1
<1>4. Recent(Append(left, 0)) = Append(left, 0)
  <2>1. \A i \in 1..Len(Append(left, 0)) : Append(left, 0)[i] <= Window
    BY <1>0, <1>1, <1>2, <1>3
  <2> QED BY <2>1, <1>2, AllRecent
<1>5. Accounted(Append(left, 0), Append(let, 0))
  <2>1. CASE let = Recent(left)
    BY <2>1, <1>0, <1>4 DEF Accounted
  <2>2. ASSUME NEW u \in 0..Window, let = <<u>> \o left, \A i \in 1..Len(left) : left[i] <= u
        PROVE  Accounted(Append(left, 0), Append(let, 0))
    <3>1. Append(let, 0) = <<u>> \o Append(left, 0)
      BY <2>2, <1>0, <1>1 DEF Ages
    <3>2. \A i \in 1..Len(Append(left, 0)) : Append(left, 0)[i] <= u
      BY <2>2, <1>0, <1>1, <1>2, <1>3
    <3> QED BY <3>1, <3>2 DEF Accounted
  <2> QED BY <2>1, <2>2, <1>0 DEF Accounted
<1> QED BY <1>0, <1>1, <1>2, <1>4, <1>5 DEF BucketOk, left

(* A bucket as time passes: the unrecorded request leaves the window before anything recorded does. *)
LEMMA Ticked ==
  ASSUME NEW s, NEW let, BucketOk(s, let)
  PROVE  BucketOk(Older(s), Recent(Older(let)))
<1>0. Window \in Nat /\ MaxRequests \in Nat /\ Aged(s) /\ Len(Recent(s)) <= MaxRequests
  BY LimitsAssumption DEF BucketOk
<1>1. s \in Seq(Ages) /\ Len(s) \in Nat /\ \A i \in 1..Len(s) : s[i] \in Nat
  BY <1>0 DEF Aged, Ages
<1> DEFINE old == Older(s)
<1>2. /\ Aged(old) /\ Len(old) = Len(s)
      /\ \A i \in 1..Len(s) : old[i] = IF s[i] <= Window THEN s[i] + 1 ELSE Window + 1
  BY <1>0, OlderAged
<1>3. Len(Recent(old)) <= MaxRequests
  <2>1. Aged(Recent(s)) /\ Len(Recent(s)) \in Nat
    BY <1>0, RecentAged DEF Aged
  <2>2. Aged(Older(Recent(s))) /\ Len(Older(Recent(s))) = Len(Recent(s))
    BY <2>1, OlderAged
  <2>3. PICK n \in 0..Len(Older(Recent(s))) :
          Len(Recent(Older(Recent(s)))) = Len(Older(Recent(s))) - n
    BY <2>2, RecentIs
  <2>4. Recent(Older(Recent(s))) = Recent(Older(s))
    BY <1>0, RecentOlder
  <2> QED BY <2>1, <2>2, <2>3, <2>4, <1>0
<1>4. CASE let = Recent(s)
  <2>1. Recent(Older(let)) = Recent(old)
    BY <1>4, <1>0, RecentOlder
  <2> QED BY <2>1, <1>2, <1>3 DEF BucketOk, Accounted
<1>5. ASSUME NEW u \in 0..Window, let = <<u>> \o s, \A i \in 1..Len(s) : s[i] <= u
      PROVE  BucketOk(Older(s), Recent(Older(let)))
  <2>1. /\ let \in Seq(Ages) /\ Len(let) = Len(s) + 1 /\ let[1] = u
        /\ \A i \in 1..Len(s) : let[1 + i] = s[i]
    <3>1. <<u>> \in Seq(Ages)
      BY <1>0 DEF Ages
    <3> QED BY <3>1, <1>5, <1>1
  <2>2. Aged(let)
    <3> SUFFICES ASSUME NEW i \in 1..Len(let), NEW j \in 1..Len(let), i <= j
                 PROVE  let[j] <= let[i]
      BY <2>1 DEF Aged
    <3>1. CASE j = 1
      BY <3>1, <2>1, <1>0, <1>1
    <3>2. CASE j # 1 /\ i = 1
      <4>1. j - 1 \in 1..Len(s) /\ let[j] = s[j - 1]
        <5>1. j - 1 \in 1..Len(s) /\ 1 + (j - 1) = j
          BY <3>2, <2>1, <1>1
        <5> QED BY <5>1, <2>1
      <4> QED BY <4>1, <3>2, <2>1, <1>5
    <3>3. CASE j # 1 /\ i # 1
      <4>1. /\ j - 1 \in 1..Len(s) /\ 1 + (j - 1) = j
            /\ i - 1 \in 1..Len(s) /\ 1 + (i - 1) = i /\ i - 1 <= j - 1
        BY <3>3, <2>1, <1>1
      <4>2. let[j] = s[j - 1] /\ let[i] = s[i - 1]
        BY <4>1, <2>1
      <4> QED BY <4>1, <4>2, <1>0 DEF Aged
    <3> QED BY <3>1, <3>2, <3>3
  <2> DEFINE aged == Older(let)
  <2>3. /\ Aged(aged) /\ Len(aged) = Len(let)
        /\ \A i \in 1..Len(let) : aged[i] = IF let[i] <= Window THEN let[i] + 1 ELSE Window + 1
    BY <2>2, OlderAged
  <2> HIDE DEF aged, old
  <2>4. \A i \in 1..Len(old) : aged[1 + i] = old[i]
    <3> TAKE i \in 1..Len(old)
    <3>1. i \in 1..Len(s) /\ 1 + i \in 1..Len(let) /\ let[1 + i] = s[i]
      BY <1>1, <1>2, <2>1
    <3> QED BY <3>1, <1>2, <2>3
  <2>5. Len(aged) = 1 + Len(old) /\ Len(old) \in Nat /\ aged[1] = u + 1
    <3>1. 1 \in 1..Len(let) /\ let[1] <= Window
      BY <2>1, <1>0, <1>1
    <3>2. aged[1] = u + 1
      BY <3>1, <2>1, <2>3
    <3> QED BY <3>2, <1>1, <1>2, <2>1, <2>3
  <2>6. CASE u = Window
    <3>1. \A i \in 1..1 : aged[i] > Window
      BY <2>5, <2>6, <1>0
    <3>2. Recent(aged) = Recent(old)
      BY <3>1, <2>3, <2>4, <2>5, <1>2, SameRecent
    <3> QED BY <3>2, <1>2, <1>3 DEF BucketOk, Accounted, aged, old
  <2>7. CASE u # Window
    <3>1. u + 1 \in 0..Window
      BY <2>7, <1>0
    <3>2. \A i \in 1..Len(old) : old[i] <= u + 1
      BY <1>0, <1>1, <1>2, <1>5
    <3>3. \A i \in 1..Len(aged) : aged[i] <= Window
      <4> TAKE i \in 1..Len(aged)
      <4>1. CASE i = 1
        BY <4>1, <2>5, <3>1, <1>0
      <4>2. CASE i # 1
        <5>1. i - 1 \in 1..Len(old) /\ 1 + (i - 1) = i
          BY <4>2, <2>5
        <5>2. aged[i] = old[i - 1] /\ old[i - 1] <= u + 1 /\ old[i - 1] \in Nat
          BY <5>1, <2>4, <3>2, <1>0, <1>1, <1>2
        <5> QED BY <5>2, <3>1, <1>0
      <4> QED BY <4>1, <4>2
    <3>4. Recent(aged) = aged
      BY <3>3, <2>3, AllRecent
    <3>5. aged = <<u + 1>> \o old
      <4>1. <<u + 1>> \in Seq(Ages) /\ old \in Seq(Ages) /\ aged \in Seq(Ages)
        BY <3>1, <1>0, <1>2, <2>3 DEF Aged, Ages
      <4>2. <<u + 1>> \o old \in Seq(Ages) /\ Len(<<u + 1>> \o old) = 1 + Len(old)
        BY <4>1
      <4>3. ASSUME NEW i \in 1..Len(aged) PROVE aged[i] = (<<u + 1>> \o old)[i]
        <5>1. CASE i = 1
          BY <5>1, <4>1, <2>5
        <5>2. CASE i # 1
          <6>1. i - 1 \in 1..Len(old) /\ 1 + (i - 1) = i
            BY <5>2, <2>5
          <6>2. aged[i] = old[i - 1]
            BY <6>1, <2>4
          <6>3. (<<u + 1>> \o old)[i] = old[i - 1]
            BY <6>1, <4>1
          <6> QED BY <6>2, <6>3
        <5> QED BY <5>1, <5>2
      <4> QED BY <4>1, <4>2, <4>3, <2>5, SameInstants
    <3>6. Accounted(old, Recent(aged))
      BY <3>1, <3>2, <3>4, <3>5 DEF Accounted
    <3> QED BY <3>6, <1>2, <1>3 DEF BucketOk, aged, old
  <2> QED BY <2>6, <2>7
<1> QED BY <1>4, <1>5 DEF BucketOk, Accounted

(* A bucket that let through what it accounts for is within its limit and one. *)
LEMMA WithinOne ==
  ASSUME NEW s, NEW let, BucketOk(s, let)
  PROVE  Len(let) <= MaxRequests + 1
<1>0. Window \in Nat /\ MaxRequests \in Nat /\ Aged(s) /\ Len(Recent(s)) <= MaxRequests
  BY LimitsAssumption DEF BucketOk
<1>1. Len(Recent(s)) \in Nat
  BY <1>0, RecentAged DEF Aged
<1>2. ASSUME NEW u \in 0..Window, let = <<u>> \o s, \A i \in 1..Len(s) : s[i] <= u
      PROVE  Len(let) <= MaxRequests + 1
  <2>1. s \in Seq(Ages) /\ Len(s) \in Nat /\ \A i \in 1..Len(s) : s[i] \in Nat
    BY <1>0 DEF Aged, Ages
  <2>2. \A i \in 1..Len(s) : s[i] <= Window
    BY <2>1, <1>2, <1>0
  <2>3. Recent(s) = s
    BY <2>2, <1>0, AllRecent
  <2>4. <<u>> \in Seq(Ages)
    BY <1>0 DEF Ages
  <2>5. Len(let) = 1 + Len(s)
    BY <2>1, <2>4, <1>2
  <2> QED BY <2>1, <2>3, <2>5, <1>0
<1>3. CASE let = Recent(s)
  BY <1>3, <1>0, <1>1
<1> QED BY <1>2, <1>3 DEF BucketOk, Accounted

(* Whatever the verdict, a checked bucket stays accounted for. *)
LEMMA CheckStep ==
  ASSUME LimitsInv, NEW b \in Bucket, Check(b)
  PROVE  /\ DOMAIN entry' = Bucket /\ DOMAIN passed' = Bucket
         /\ \A x \in Bucket : BucketOk(entry'[x], passed'[x])
<1> DEFINE left == Recent(entry[b])
           keep == Verdict(b).keep
           let  == passed'[b]
<1>1. BucketOk(entry[b], passed[b]) /\ DOMAIN entry = Bucket /\ DOMAIN passed = Bucket
  BY DEF LimitsInv
<1>2. /\ DOMAIN entry' = Bucket /\ DOMAIN passed' = Bucket
      /\ entry'[b] = keep
      /\ let = IF Verdict(b).ok THEN Append(passed[b], 0) ELSE passed[b]
      /\ \A x \in Bucket : x # b => entry'[x] = entry[x] /\ passed'[x] = passed[x]
  BY <1>1 DEF Check
<1>3. BucketOk(keep, let)
  <2>1. CASE entry[b] # <<>> /\ left = <<>>
    <3>1. Verdict(b) = [ok |-> TRUE, keep |-> <<>>]
      BY <2>1 DEF Verdict
    <3> QED BY <3>1, <2>1, <1>1, <1>2, RunEmpty
  <2>2. CASE ~(entry[b] # <<>> /\ left = <<>>)
             /\ (Cardinality(Tracked) > Capacity \/ Len(left) >= MaxRequests)
    <3>1. Verdict(b) = [ok |-> FALSE, keep |-> left]
      BY <2>2 DEF Verdict
    <3> QED BY <3>1, <1>1, <1>2, Trimmed
  <2>3. CASE ~(entry[b] # <<>> /\ left = <<>>)
             /\ ~(Cardinality(Tracked) > Capacity) /\ ~(Len(left) >= MaxRequests)
    <3>1. Verdict(b) = [ok |-> TRUE, keep |-> Append(left, 0)]
      BY <2>3 DEF Verdict
    <3>2. Len(left) < MaxRequests
      <4>1. Len(left) \in Nat
        BY <1>1, RecentAged DEF BucketOk, Aged
      <4> QED BY <4>1, <2>3, LimitsAssumption
    <3> QED BY <3>1, <3>2, <1>1, <1>2, Recorded
  <2> QED BY <2>1, <2>2, <2>3
<1> QED BY <1>2, <1>3 DEF LimitsInv

(* The invariant of the limiter holds at the start and through every check and every tick. *)
THEOREM LimitsInvariance == LimitsSpec => []LimitsInv
<1>1. LimitsInit => LimitsInv
  <2> SUFFICES ASSUME LimitsInit PROVE LimitsInv
    OBVIOUS
  <2>1. Aged(<<>>)
    BY DEF Aged
  <2>2. Recent(<<>>) = <<>>
    BY <2>1, AllRecent
  <2>3. BucketOk(<<>>, <<>>)
    BY <2>1, <2>2, LimitsAssumption DEF BucketOk, Accounted
  <2> QED BY <2>3 DEF LimitsInit, LimitsInv, NotStarted, Bucket
<1>2. LimitsInv /\ [LimitsNext]_limitVars => LimitsInv'
  <2> SUFFICES ASSUME LimitsInv, [LimitsNext]_limitVars PROVE LimitsInv'
    OBVIOUS
  <2>0. /\ DOMAIN turn = Arrival
        /\ \A c \in Arrival : DOMAIN turn[c] = {"pc", "key"} /\ turn[c].key \in Bucket
    BY DEF LimitsInv
  <2>1. CASE Tick
    <3>1. \A b \in Bucket : BucketOk(Older(entry[b]), Recent(Older(passed[b])))
      BY Ticked DEF LimitsInv
    <3>2. \A b \in Bucket : BucketOk(entry'[b], passed'[b])
      BY <3>1, <2>1 DEF Tick
    <3> QED BY <3>2, <2>0, <2>1 DEF Tick, LimitsInv
  <2>2. ASSUME NEW c \in Arrival, Arrive(c) PROVE LimitsInv'
    BY <2>0, <2>2 DEF Arrive, LimitsInv, Bucket
  <2>3. ASSUME NEW c \in Arrival, CheckKey(c) PROVE LimitsInv'
    <3>1. /\ DOMAIN entry' = Bucket /\ DOMAIN passed' = Bucket
          /\ \A x \in Bucket : BucketOk(entry'[x], passed'[x])
      BY <2>0, <2>3, CheckStep DEF CheckKey
    <3>2. /\ DOMAIN turn' = Arrival
          /\ \A d \in Arrival : DOMAIN turn'[d] = {"pc", "key"} /\ turn'[d].key \in Bucket
      BY <2>0, <2>3 DEF CheckKey, NotStarted, Bucket
    <3> QED BY <3>1, <3>2 DEF LimitsInv
  <2>4. ASSUME NEW c \in Arrival, CheckWorkspace(c) PROVE LimitsInv'
    <3>1. /\ DOMAIN entry' = Bucket /\ DOMAIN passed' = Bucket
          /\ \A x \in Bucket : BucketOk(entry'[x], passed'[x])
      BY <2>4, CheckStep DEF CheckWorkspace, Bucket
    <3>2. /\ DOMAIN turn' = Arrival
          /\ \A d \in Arrival : DOMAIN turn'[d] = {"pc", "key"} /\ turn'[d].key \in Bucket
      BY <2>0, <2>4 DEF CheckWorkspace, NotStarted, Bucket
    <3> QED BY <3>1, <3>2 DEF LimitsInv
  <2>5. CASE UNCHANGED limitVars
    BY <2>5 DEF limitVars, LimitsInv
  <2> QED BY <2>1, <2>2, <2>3, <2>4, <2>5 DEF LimitsNext
<1> QED BY <1>1, <1>2, PTL DEF LimitsSpec

(* No window of RateLimiter::check, for any keys, requests, limits, windows and capacities, holds
   more than one request above the limit, although a bucket that has run empty lets one pass
   unrecorded. *)
THEOREM RateIsBounded == LimitsSpec => []RateBound
<1>1. LimitsInv => RateBound
  BY WithinOne DEF LimitsInv, RateBound
<1> QED BY <1>1, LimitsInvariance, PTL


(***************************************************************************)
(* Providers.                                                               *)
(***************************************************************************)
Stored == Credential \cup {NoProvider, Absent}
TargetRecs == [provider : Provider, credential : Stored]
Resolutions == [pc : {"idle", "read"}, model : Model \cup {Absent}, targets : SUBSET TargetRecs, age : Nat]
Entries == [targets : SUBSET TargetRecs, age : Nat]
EditFields == {"pc", "provider", "todo", "existing", "excluded", "name", "found", "kept"}

CatalogueTypeOK ==
  /\ credential \in [Provider -> Stored]
  /\ retired \in [Credential -> Nat \cup {Absent}]
  /\ resolution \in [Resolver -> Resolutions]
  /\ modelCache \in [Model -> Entries]

(* What is stored is not retired, and has been given out. *)
StoredOk == \A p \in Provider : credential[p] \in Credential => retired[credential[p]] = 0

(* None of the targets' credentials has been retired for longer than age. *)
FreshIn(ret, targets, age) ==
  \A t \in targets : t.credential \in Credential => ret[t.credential] \in Nat /\ ret[t.credential] <= age

ResolutionOk(c) ==
  resolution[c].pc = "read" => /\ resolution[c].model \in Model
                               /\ resolution[c].age <= ResolveStall
                               /\ FreshIn(retired, resolution[c].targets, resolution[c].age)

EntryOk(n) == ModelCached(n) => FreshIn(retired, modelCache[n].targets, modelCache[n].age + ResolveStall)

(* What an update writes back is a credential, however old. *)
EditOk(e) ==
  /\ DOMAIN e = EditFields
  /\ e.pc \in {"rotate", "rename"} => e.provider \in Provider /\ e.kept \in Stored

EditsOk == DOMAIN edit = Editor /\ \A a \in Editor : EditOk(edit[a])

CatalogueInv ==
  /\ CatalogueTypeOK
  /\ StoredOk
  /\ \A c \in Resolver : ResolutionOk(c)
  /\ \A n \in Model : EntryOk(n)
  /\ EditsOk

(* The catalogue is empty at the start. *)
LEMMA CatalogueStart == CatalogueInit => CatalogueInv
<1> SUFFICES ASSUME CatalogueInit PROVE CatalogueInv
  OBVIOUS
<1>1. CatalogueTypeOK
  BY CatalogueAssumption DEF CatalogueInit, CatalogueTypeOK, Stored, NoProvider, Resolutions, NoResolution,
                             Entries, Unfilled
<1>2. StoredOk
  BY DEF CatalogueInit, StoredOk, NoProvider, Credential
<1>3. \A c \in Resolver : ResolutionOk(c)
  BY DEF CatalogueInit, ResolutionOk, NoResolution
<1>4. \A n \in Model : EntryOk(n)
  BY CatalogueAssumption DEF CatalogueInit, EntryOk, ModelCached, Unfilled
<1>5. EditsOk
  BY DEF CatalogueInit, EditsOk, EditOk, NoEdit, EditFields
<1> QED BY <1>1, <1>2, <1>3, <1>4, <1>5 DEF CatalogueInv

(* A credential is a number, and what stands for none is not. *)
LEMMA CredentialsAre == Credential \subseteq Nat /\ Absent \notin Credential /\ NoProvider \notin Credential
BY CatalogueAssumption DEF Credential, NoProvider

(* A step that retires nothing further keeps what resolutions and entries say of their targets. *)
LEMMA FreshKept ==
  ASSUME CatalogueInv, UNCHANGED <<resolution, modelCache>>,
         \A v \in Credential : retired[v] \in Nat => retired'[v] \in Nat /\ retired'[v] <= retired[v]
  PROVE  (\A c \in Resolver : ResolutionOk(c)') /\ (\A n \in Model : EntryOk(n)')
<1>1. ASSUME NEW targets, NEW age \in Nat, FreshIn(retired, targets, age)
      PROVE  FreshIn(retired', targets, age)
  BY <1>1 DEF FreshIn
<1>2. ASSUME NEW c \in Resolver PROVE ResolutionOk(c)'
  <2>1. ResolutionOk(c) /\ resolution[c].age \in Nat
    BY DEF CatalogueInv, CatalogueTypeOK, Resolutions
  <2> QED BY <1>1, <2>1 DEF ResolutionOk
<1>3. ASSUME NEW n \in Model PROVE EntryOk(n)'
  <2>1. EntryOk(n) /\ modelCache[n].age + ResolveStall \in Nat
    BY CatalogueAssumption DEF CatalogueInv, CatalogueTypeOK, Entries
  <2> QED BY <1>1, <2>1 DEF EntryOk, ModelCached
<1> QED BY <1>2, <1>3

(* Store: what is stored is in use from now on. *)
LEMMA StoreKeeps ==
  ASSUME CatalogueInv, NEW p \in Provider, NEW c \in Stored, Store(p, c),
         UNCHANGED <<resolution, modelCache>>, EditsOk'
  PROVE  CatalogueInv'
<1>1. /\ credential' = [credential EXCEPT ![p] = c]
      /\ \A v \in Credential : retired'[v] = IF v = c THEN 0 ELSE retired[v]
      /\ retired' = [v \in Credential |-> IF v = c THEN 0 ELSE retired[v]]
  BY DEF Store
<1>2. CatalogueTypeOK'
  BY <1>1 DEF CatalogueInv, CatalogueTypeOK
<1>3. StoredOk'
  BY <1>1 DEF CatalogueInv, CatalogueTypeOK, StoredOk
<1>4. \A v \in Credential : retired[v] \in Nat => retired'[v] \in Nat /\ retired'[v] <= retired[v]
  BY <1>1
<1> QED BY <1>2, <1>3, <1>4, FreshKept DEF CatalogueInv

(* A request for which nothing is held. *)
LEMMA NoEditIs == EditOk(NoEdit) /\ NoEdit.pc = "idle"
BY DEF EditOk, NoEdit, EditFields

(* A sync that starts holds no credential. *)
LEMMA StartSyncKeeps ==
  ASSUME EditsOk, NEW a \in Editor, NEW p \in Provider, StartSync(a, p)
  PROVE  EditsOk'
<1> DEFINE e == [NoEdit EXCEPT !.pc = "upstream", !.provider = p]
<1>1. EditOk(e)
  BY DEF EditOk, NoEdit, EditFields
<1> HIDE DEF e
<1>2. edit' = [edit EXCEPT ![a] = e]
  BY DEF StartSync, e
<1> QED BY <1>1, <1>2 DEF EditsOk

(* CreateProvider, and the write of an update: the credential may be one that another update has
   replaced since it was read. *)
LEMMA ProviderWriteKeeps ==
  ASSUME CatalogueInv, NEW a \in Editor, CreateProvider(a) \/ UpdateWrite(a)
  PROVE  CatalogueInv'
<1>0. EditsOk /\ EditOk(edit[a]) /\ NewCredential \subseteq Stored /\ Absent \in Stored
  BY DEF CatalogueInv, EditsOk, NewCredential, Stored
<1>1. CASE CreateProvider(a)
  <2>1. PICK p \in Provider, c \in NewCredential \cup {Absent} :
          CreateRow(p, c) /\ IF c = Absent THEN UNCHANGED edit ELSE StartSync(a, p)
    BY <1>1 DEF CreateProvider
  <2>2. Store(p, c) /\ c \in Stored /\ UNCHANGED <<resolution, modelCache>>
    BY <1>0, <1>1, <2>1 DEF CreateProvider, CreateRow
  <2>3. EditsOk'
    <3>1. CASE c = Absent
      BY <1>0, <2>1, <3>1 DEF EditsOk
    <3>2. CASE c # Absent
      BY <1>0, <2>1, <3>2, StartSyncKeeps
    <3> QED BY <3>1, <3>2
  <2> QED BY <2>2, <2>3, StoreKeeps
<1>2. CASE UpdateWrite(a)
  <2>1. edit[a].provider \in Provider /\ edit[a].kept \in Stored /\ UNCHANGED <<resolution, modelCache>>
    BY <1>0, <1>2 DEF UpdateWrite, EditOk
  <2>2. CASE edit[a].pc = "rename" /\ UpdateRow(edit[a].provider, edit[a].kept)
             /\ edit' = [edit EXCEPT ![a] = NoEdit]
    <3>1. EditsOk'
      BY <1>0, <2>2, NoEditIs DEF EditsOk
    <3>2. Store(edit[a].provider, edit[a].kept)
      BY <2>2 DEF UpdateRow
    <3> QED BY <2>1, <3>1, <3>2, StoreKeeps
  <2>3. CASE /\ \E c \in NewCredential : UpdateRow(edit[a].provider, c)
             /\ StartSync(a, edit[a].provider)
    <3>1. EditsOk'
      BY <1>0, <2>1, <2>3, StartSyncKeeps
    <3>2. PICK c \in NewCredential : Store(edit[a].provider, c)
      BY <2>3 DEF UpdateRow
    <3>3. c \in Stored
      BY <1>0
    <3> QED BY <2>1, <3>1, <3>2, <3>3, StoreKeeps
  <2> QED BY <1>2, <2>2, <2>3 DEF UpdateWrite
<1> QED BY <1>1, <1>2

(* DeleteProvider, DeleteModel and DeleteModels retire nothing by themselves: time does. *)
LEMMA DeleteKeeps == CatalogueInv /\ (DeleteProvider \/ DeleteModel \/ DeleteModels) => CatalogueInv'
<1> SUFFICES ASSUME CatalogueInv, DeleteProvider \/ DeleteModel \/ DeleteModels PROVE CatalogueInv'
  OBVIOUS
<1>1. UNCHANGED <<retired, edit, resolution, modelCache>>
  BY DEF DeleteProvider, DeleteModel, DeleteModels
<1>2. credential' = credential \/ \E p \in Provider : credential' = [credential EXCEPT ![p] = NoProvider]
  BY DEF DeleteProvider, DeleteRow, DeleteModel, DeleteModels
<1>3. CatalogueTypeOK' /\ StoredOk' /\ EditsOk'
  BY <1>1, <1>2, CredentialsAre DEF CatalogueInv, CatalogueTypeOK, Stored, StoredOk, EditsOk
<1>4. \A v \in Credential : retired[v] \in Nat => retired'[v] \in Nat /\ retired'[v] <= retired[v]
  BY <1>1
<1> QED BY <1>1, <1>3, <1>4, FreshKept DEF CatalogueInv

(* The steps of a request that only reads, or that writes models. *)
EditStep(a) ==
  \/ UpdateRead(a) \/ AddModel(a) \/ SyncProvider(a) \/ ListUpstream(a) \/ ReadExisting(a)
  \/ ReadExcluded(a) \/ SyncEach(a) \/ CreateModel(a) \/ EndJob(a)

(* They leave the credentials alone, and hold one only as UpdateRead has read it. *)
LEMMA EditStepKeeps == ASSUME CatalogueInv, NEW a \in Editor, EditStep(a) PROVE CatalogueInv'
<1>1. UNCHANGED <<credential, retired, resolution, modelCache>>
  BY DEF EditStep, UpdateRead, AddModel, SyncProvider, ListUpstream, ReadExisting, ReadExcluded, SyncEach,
         CreateModel, EndJob
<1>0. EditsOk /\ EditOk(edit[a])
  BY DEF CatalogueInv, EditsOk
<1>2. EditsOk'
  <2>1. CASE UpdateRead(a)
    <3>1. PICK p \in Provider, rotates \in BOOLEAN :
            edit' = [edit EXCEPT ![a] = [NoEdit EXCEPT !.provider = p,
                      !.pc = IF rotates THEN "rotate" ELSE "rename", !.kept = credential[p]]]
      BY <2>1 DEF UpdateRead
    <3> DEFINE e == [NoEdit EXCEPT !.provider = p, !.pc = IF rotates THEN "rotate" ELSE "rename",
                                   !.kept = credential[p]]
    <3>2. credential[p] \in Stored
      BY DEF CatalogueInv, CatalogueTypeOK
    <3>3. EditOk(e)
      BY <3>2 DEF EditOk, NoEdit, EditFields
    <3>4. edit' = [edit EXCEPT ![a] = e]
      BY <3>1
    <3> HIDE DEF e
    <3> QED BY <1>0, <3>3, <3>4 DEF EditsOk
  <2>2. CASE AddModel(a)
    <3>1. PICK p \in Provider, n \in Model : \E found \in FindModel(p, n) :
            edit' = [edit EXCEPT ![a] = [NoEdit EXCEPT !.pc = "add", !.provider = p, !.name = n,
                                                       !.found = found]]
      BY <2>2 DEF AddModel
    <3>2. PICK found : edit' = [edit EXCEPT ![a] = [NoEdit EXCEPT !.pc = "add", !.provider = p,
                                                                  !.name = n, !.found = found]]
      BY <3>1
    <3> DEFINE e == [NoEdit EXCEPT !.pc = "add", !.provider = p, !.name = n, !.found = found]
    <3>3. EditOk(e)
      BY DEF EditOk, NoEdit, EditFields
    <3>4. edit' = [edit EXCEPT ![a] = e]
      BY <3>2
    <3> HIDE DEF e
    <3> QED BY <1>0, <3>3, <3>4 DEF EditsOk
  <2>3. CASE SyncProvider(a)
    BY <1>0, <2>3, StartSyncKeeps DEF SyncProvider
  <2>4. CASE ListUpstream(a)
    BY <1>0, <2>4 DEF ListUpstream, EditsOk, EditOk, EditFields
  <2>5. CASE ReadExisting(a)
    BY <1>0, <2>5 DEF ReadExisting, EditsOk, EditOk, EditFields
  <2>6. CASE ReadExcluded(a)
    BY <1>0, <2>6 DEF ReadExcluded, EditsOk, EditOk, EditFields
  <2>7. CASE SyncEach(a)
    BY <1>0, <2>7 DEF SyncEach, EditsOk, EditOk, EditFields
  <2>8. CASE Continue(a)
    <3> DEFINE rest == edit[a].todo \ {edit[a].name}
               e == [edit[a] EXCEPT !.pc = "each", !.todo = rest, !.found = Absent]
    <3>1. edit' = [edit EXCEPT ![a] = IF edit[a].pc = "add" THEN NoEdit ELSE e]
      BY <2>8 DEF Continue
    <3> HIDE DEF rest
    <3>2. EditOk(e)
      BY <1>0 DEF EditOk, EditFields
    <3> HIDE DEF e
    <3> QED BY <1>0, <3>1, <3>2, NoEditIs DEF EditsOk
  <2>9. CASE edit' = [edit EXCEPT ![a] = NoEdit]
    BY <1>0, <2>9, NoEditIs DEF EditsOk
  <2> QED BY <2>1, <2>2, <2>3, <2>4, <2>5, <2>6, <2>7, <2>8, <2>9 DEF EditStep, CreateModel, EndJob
<1>3. CatalogueTypeOK' /\ StoredOk'
  BY <1>1 DEF CatalogueInv, CatalogueTypeOK, StoredOk
<1>4. \A v \in Credential : retired[v] \in Nat => retired'[v] \in Nat /\ retired'[v] <= retired[v]
  BY <1>1
<1> QED BY <1>1, <1>2, <1>3, <1>4, FreshKept DEF CatalogueInv

(* resolve_model reads stored credentials, and caches what it has read. *)
LEMMA ResolveKeeps ==
  ASSUME CatalogueInv, NEW c \in Resolver, ResolveRead(c) \/ ResolveFill(c)
  PROVE  CatalogueInv'
<1>0. /\ resolution \in [Resolver -> Resolutions] /\ resolution[c] \in Resolutions /\ ResolutionOk(c)
      /\ modelCache \in [Model -> Entries]
  BY DEF CatalogueInv, CatalogueTypeOK
<1>1. UNCHANGED <<credential, retired, edit>>
  BY DEF ResolveRead, ResolveFill
<1>2. StoredOk' /\ EditsOk'
  BY <1>1 DEF CatalogueInv, StoredOk, EditsOk
<1>3. CASE ResolveRead(c)
  <2>1. PICK n \in Model :
          resolution' = [resolution EXCEPT ![c] =
                           [pc |-> "read", model |-> n, targets |-> Targets(n), age |-> 0]]
    BY <1>3 DEF ResolveRead
  <2> DEFINE ts == Targets(n)
             new == [pc |-> "read", model |-> n, targets |-> ts, age |-> 0]
  <2>2. \A t \in ts : \E p \in Provider : t = [provider |-> p, credential |-> credential[p]]
    BY DEF Targets, Target, ResolveTargets
  <2>3. ts \in SUBSET TargetRecs
    BY <2>2 DEF TargetRecs, CatalogueInv, CatalogueTypeOK
  <2>4. FreshIn(retired, ts, 0)
    BY <2>2 DEF FreshIn, CatalogueInv, StoredOk
  <2>5. resolution' = [resolution EXCEPT ![c] = new]
    BY <2>1
  <2> HIDE DEF ts
  <2>6. /\ new \in Resolutions /\ new.pc = "read" /\ new.model = n /\ new.targets = ts /\ new.age = 0
    BY <2>3 DEF Resolutions
  <2> HIDE DEF new
  <2>7. UNCHANGED modelCache
    BY <1>3 DEF ResolveRead
  <2>8. CatalogueTypeOK' /\ \A m \in Model : EntryOk(m)'
    BY <1>1, <2>5, <2>6, <2>7 DEF CatalogueInv, CatalogueTypeOK, EntryOk, ModelCached
  <2>9. ASSUME NEW d \in Resolver PROVE ResolutionOk(d)'
    <3>1. CASE d = c
      <4>1. resolution'[d] = new
        BY <1>0, <2>5, <3>1
      <4> QED BY <1>1, <2>4, <2>6, <4>1, CatalogueAssumption DEF ResolutionOk
    <3>2. CASE d # c
      <4>1. resolution'[d] = resolution[d] /\ ResolutionOk(d)
        BY <1>0, <2>5, <3>2 DEF CatalogueInv
      <4> QED BY <1>1, <4>1 DEF ResolutionOk
    <3> QED BY <3>1, <3>2
  <2> QED BY <1>2, <2>8, <2>9 DEF CatalogueInv
<1>4. CASE ResolveFill(c)
  <2> DEFINE m == resolution[c].model
             new == [targets |-> resolution[c].targets, age |-> 0]
  <2>1. /\ m \in Model /\ resolution[c].age \in Nat /\ resolution[c].age <= ResolveStall
        /\ FreshIn(retired, resolution[c].targets, resolution[c].age)
        /\ resolution[c].targets \in SUBSET TargetRecs
    BY <1>0, <1>4 DEF ResolveFill, ResolutionOk, Resolutions
  <2>2. /\ modelCache' = [modelCache EXCEPT ![m] = new]
        /\ resolution' = [resolution EXCEPT ![c] = NoResolution]
    BY <1>4 DEF ResolveFill
  <2>3. new \in Entries /\ new.targets = resolution[c].targets /\ new.age = 0
    BY <2>1 DEF Entries
  <2>4. FreshIn(retired, new.targets, 0 + ResolveStall)
    BY <2>1, <2>3, CatalogueAssumption DEF FreshIn
  <2>5. NoResolution \in Resolutions /\ NoResolution.pc = "idle"
    BY DEF NoResolution, Resolutions
  <2> HIDE DEF m, new
  <2>6. CatalogueTypeOK'
    BY <1>0, <1>1, <2>1, <2>2, <2>3, <2>5 DEF CatalogueInv, CatalogueTypeOK
  <2>7. ASSUME NEW n \in Model PROVE EntryOk(n)'
    <3>1. CASE n = m
      <4>1. modelCache'[n] = new
        BY <1>0, <2>1, <2>2, <3>1
      <4> QED BY <1>1, <2>3, <2>4, <4>1 DEF EntryOk
    <3>2. CASE n # m
      <4>1. modelCache'[n] = modelCache[n] /\ EntryOk(n)
        BY <1>0, <2>2, <3>2 DEF CatalogueInv
      <4> QED BY <1>1, <4>1 DEF EntryOk, ModelCached
    <3> QED BY <3>1, <3>2
  <2>8. \A d \in Resolver : ResolutionOk(d)'
    BY <1>0, <1>1, <2>2, <2>5 DEF CatalogueInv, ResolutionOk
  <2> QED BY <1>2, <2>6, <2>7, <2>8 DEF CatalogueInv
<1> QED BY <1>3, <1>4

(* CatalogueAges: what is retired, read and cached ages together, and what is stored does not. *)
LEMMA CatalogueAgesKeeps == CatalogueInv /\ CatalogueAges => CatalogueInv'
<1> SUFFICES ASSUME CatalogueInv, CatalogueAges PROVE CatalogueInv'
  OBVIOUS
<1>1. UNCHANGED <<credential, edit>>
  BY DEF CatalogueAges
<1>2. ASSUME NEW v \in Credential
      PROVE  /\ retired'[v] \in Nat \cup {Absent}
             /\ retired[v] \in Nat => retired'[v] \in Nat /\ retired'[v] <= retired[v] + 1
             /\ retired[v] \in Nat /\ Current(v) => retired'[v] = 0
  <2>1. retired[v] \in Nat \cup {Absent} /\ OldestRetired \in Nat /\ Absent \notin Nat
    BY CatalogueAssumption DEF CatalogueInv, CatalogueTypeOK, OldestRetired
  <2>2. retired'[v] = IF retired[v] = Absent THEN Absent
                      ELSE IF Current(v) THEN 0
                      ELSE IF retired[v] < OldestRetired THEN retired[v] + 1 ELSE OldestRetired
    BY DEF CatalogueAges
  <2>3. CASE retired[v] = Absent
    BY <2>1, <2>2, <2>3
  <2>4. CASE retired[v] \in Nat
    <3>1. retired'[v] = IF Current(v) THEN 0
                        ELSE IF retired[v] < OldestRetired THEN retired[v] + 1 ELSE OldestRetired
      BY <2>1, <2>2, <2>4
    <3> QED BY <2>1, <2>4, <3>1
  <2> QED BY <2>1, <2>3, <2>4
<1>3. ASSUME NEW targets, NEW age \in Nat, FreshIn(retired, targets, age)
      PROVE  FreshIn(retired', targets, age + 1)
  BY <1>2, <1>3 DEF FreshIn
<1>4. ASSUME NEW n \in Model
      PROVE  /\ modelCache'[n] \in Entries /\ modelCache[n].age \in Nat
             /\ modelCache'[n].targets = modelCache[n].targets
             /\ modelCache'[n].age = IF ModelCached(n) THEN modelCache[n].age + 1 ELSE modelCache[n].age
  <2> DEFINE k == modelCache[n].age + 1
  <2>1. modelCache[n] \in Entries /\ k \in Nat
    BY DEF CatalogueInv, CatalogueTypeOK, Entries
  <2>2. modelCache'[n] = IF ModelCached(n) THEN [modelCache[n] EXCEPT !.age = k] ELSE modelCache[n]
    BY DEF CatalogueAges
  <2> HIDE DEF k
  <2>3. /\ modelCache'[n] \in Entries /\ modelCache[n].age \in Nat
        /\ modelCache'[n].targets = modelCache[n].targets
        /\ modelCache'[n].age = IF ModelCached(n) THEN k ELSE modelCache[n].age
    BY <2>1, <2>2 DEF Entries
  <2> QED BY <2>3 DEF k
<1>5. ASSUME NEW c \in Resolver
      PROVE  /\ resolution'[c] \in Resolutions /\ resolution[c].age \in Nat
             /\ resolution'[c].pc = resolution[c].pc /\ resolution'[c].model = resolution[c].model
             /\ resolution'[c].targets = resolution[c].targets
             /\ resolution[c].pc = "read" => /\ resolution'[c].age = resolution[c].age + 1
                                             /\ resolution[c].age < ResolveStall
  <2> DEFINE k == resolution[c].age + 1
  <2>1. resolution[c] \in Resolutions /\ k \in Nat
    BY DEF CatalogueInv, CatalogueTypeOK, Resolutions
  <2>2. /\ resolution'[c] = IF resolution[c].pc = "read" THEN [resolution[c] EXCEPT !.age = k]
                            ELSE resolution[c]
        /\ resolution[c].pc = "read" => resolution[c].age < ResolveStall
    BY DEF CatalogueAges
  <2> HIDE DEF k
  <2>3. /\ resolution'[c] \in Resolutions /\ resolution[c].age \in Nat
        /\ resolution'[c].pc = resolution[c].pc /\ resolution'[c].model = resolution[c].model
        /\ resolution'[c].targets = resolution[c].targets
        /\ resolution[c].pc = "read" => resolution'[c].age = k
    BY <2>1, <2>2 DEF Resolutions
  <2> QED BY <2>2, <2>3 DEF k
<1>6. CatalogueTypeOK'
  <2>1. retired' \in [Credential -> Nat \cup {Absent}]
    BY <1>2 DEF CatalogueAges
  <2>2. modelCache' \in [Model -> Entries]
    BY <1>4 DEF CatalogueAges
  <2>3. resolution' \in [Resolver -> Resolutions]
    BY <1>5 DEF CatalogueAges
  <2> QED BY <1>1, <2>1, <2>2, <2>3 DEF CatalogueInv, CatalogueTypeOK
<1>7. StoredOk' /\ EditsOk'
  BY <1>1, <1>2 DEF CatalogueInv, StoredOk, EditsOk, Current
<1>8. ASSUME NEW n \in Model PROVE EntryOk(n)'
  <2> DEFINE k == modelCache[n].age + ResolveStall
  <2> SUFFICES ASSUME ModelCached(n)'
               PROVE  FreshIn(retired', modelCache'[n].targets, modelCache'[n].age + ResolveStall)
    BY DEF EntryOk
  <2>1. ModelCached(n) /\ modelCache'[n].age = modelCache[n].age + 1
    BY <1>4 DEF ModelCached
  <2>2. k \in Nat /\ modelCache'[n].age + ResolveStall = k + 1
    BY <1>4, <2>1, CatalogueAssumption
  <2>3. FreshIn(retired, modelCache[n].targets, k)
    BY <2>1 DEF CatalogueInv, EntryOk
  <2> HIDE DEF k
  <2> QED BY <1>3, <1>4, <2>2, <2>3
<1>9. ASSUME NEW c \in Resolver PROVE ResolutionOk(c)'
  <2> SUFFICES ASSUME resolution[c].pc = "read" PROVE ResolutionOk(c)'
    BY <1>5 DEF ResolutionOk
  <2>1. /\ resolution[c].model \in Model /\ FreshIn(retired, resolution[c].targets, resolution[c].age)
    BY DEF CatalogueInv, ResolutionOk
  <2>2. FreshIn(retired', resolution[c].targets, resolution[c].age + 1)
    BY <1>3, <1>5, <2>1
  <2>3. resolution[c].age + 1 <= ResolveStall
    BY <1>5, CatalogueAssumption
  <2> QED BY <1>5, <2>1, <2>2, <2>3 DEF ResolutionOk
<1> QED BY <1>6, <1>7, <1>8, <1>9 DEF CatalogueInv

(* A credential that was rotated away, or went with its provider, is used for no longer than the
   resolution cache's TTL and the time between a resolution's read and its entry, whatever updates
   race: an update that writes an old credential back has it stored again. *)
THEOREM RotatedCredentialsStop == CatalogueSpec => []RotatedInTime
<1>1. CatalogueInv /\ [CatalogueNext]_catalogueVars => CatalogueInv'
  <2> SUFFICES ASSUME CatalogueInv, [CatalogueNext]_catalogueVars PROVE CatalogueInv'
    OBVIOUS
  <2>1. CASE UNCHANGED catalogueVars
    BY <2>1 DEF catalogueVars, CatalogueInv, CatalogueTypeOK, StoredOk, ResolutionOk, EntryOk, ModelCached,
                EditsOk
  <2>2. ASSUME NEW a \in Editor, CreateProvider(a) \/ UpdateWrite(a) PROVE CatalogueInv'
    BY <2>2, ProviderWriteKeeps
  <2>3. ASSUME NEW a \in Editor, EditStep(a) PROVE CatalogueInv'
    BY <2>3, EditStepKeeps
  <2>4. ASSUME NEW c \in Resolver, ResolveRead(c) \/ ResolveFill(c) PROVE CatalogueInv'
    BY <2>4, ResolveKeeps
  <2> QED BY <2>1, <2>2, <2>3, <2>4, DeleteKeeps, CatalogueAgesKeeps DEF CatalogueNext, EditStep
<1>2. CatalogueInv => RotatedInTime
  <2> SUFFICES ASSUME CatalogueInv, NEW n \in Model, ModelCached(n), NEW t \in modelCache[n].targets,
                      t.credential \in Credential
               PROVE  retired[t.credential] <= ModelTtl + ResolveStall
    BY DEF RotatedInTime
  <2>1. EntryOk(n) /\ modelCache[n].age \in Nat /\ modelCache[n].age <= ModelTtl
    BY DEF CatalogueInv, CatalogueTypeOK, Entries, ModelCached
  <2>2. /\ retired[t.credential] \in Nat
        /\ retired[t.credential] <= modelCache[n].age + ResolveStall
    BY <2>1 DEF EntryOk, FreshIn
  <2> QED BY <2>1, <2>2, CatalogueAssumption
<1> QED BY <1>1, <1>2, CatalogueStart, PTL DEF CatalogueSpec

(***************************************************************************)
(* Budget.                                                                  *)
(***************************************************************************)
BudgetStages == {"new", "budget", "charge_day", "charge_month", "resolve", "settle_day", "settle_month"} \cup Ended

BudgetRequests == [pc : BudgetStages, est : Nat, used : Nat, row : Rows \cup {NoBudget}, at : Day, seen : Int,
                   charged : BOOLEAN, warned : BOOLEAN]

BudgetTypeOK ==
  /\ today \in Day /\ budget \in Rows \cup {NoBudget}
  /\ daily \in [Day -> Int] /\ monthly \in [Month -> Int] /\ returned \in [Day -> Nat]
  /\ req \in [Request -> BudgetRequests] /\ calm \in BOOLEAN

(* A request is charged by the second of the two calls. *)
Uncharged == {"new", "budget", "charge_day", "charge_month"}
ChargeShape ==
  \A r \in Request : /\ req[r].pc \in Uncharged => ~req[r].charged
                     /\ req[r].pc \in {"charge_day", "charge_month"} => req[r].row \in Rows

(* What a request has booked so far on the counters of days and of months. *)
Reserved(q) == IF q.charged THEN q.est ELSE 0
BookedDay(q) == IF q.pc = "charge_month" THEN q.est
                ELSE IF q.pc \in {"settle_month", "answered"} THEN Reserved(q) + (q.used - q.est) ELSE Reserved(q)
BookedMonth(q) == IF q.pc = "answered" THEN Reserved(q) + (q.used - q.est) ELSE Reserved(q)

BookedDays == [r \in Request |-> BookedDay(req[r])]
BookedMonths == [r \in Request |-> BookedMonth(req[r])]

(* The counters hold what the requests booked, at every moment. *)
BooksBalance ==
  calm => /\ SumOver(daily, Day) = SumOver(BookedDays, Request)
          /\ SumOver(monthly, Month) = SumOver(BookedMonths, Request)

BooksInv == BudgetTypeOK /\ ChargeShape /\ BooksBalance

(* Under a budget that stands, no request passes the gate without a charge. *)
AllCharged ==
  (calm /\ budget # NoBudget) =>
    \A r \in Request : req[r].pc \in {"resolve", "settle_day", "settle_month", "answered"} => req[r].charged

(* The budget under which the requests of a calm behaviour run. *)
UnderOneBudget == calm /\ budget # NoBudget

RowsCurrent ==
  UnderOneBudget => \A r \in Request :
    /\ req[r].pc \in {"charge_day", "charge_month", "resolve", "settle_day"} => req[r].row = budget
    /\ req[r].pc \in {"resolve", "settle_day"} => req[r].charged

(* Nothing is booked before the first request. *)
NothingYet ==
  (\A r \in Request : req[r].pc = "new") => \A d \in Day : daily[d] = 0 /\ returned[d] = 0

(* What a day's counter holds at least: the reservations of the requests in flight, and what the
   settlements under way will take away. *)
InFlight(q, d) == q.at = d /\ (q.pc = "charge_month" \/ (q.pc = "resolve" /\ q.charged))
Held(q, d) ==
  IF InFlight(q, d) THEN q.est
  ELSE IF q.pc = "settle_day" /\ q.at = d /\ q.used < q.est THEN q.est - q.used ELSE 0
HeldOn(R, d) == SumOver([r \in Request |-> Held(R[r], d)], Request)

CounterHolds == UnderOneBudget => \A d \in Day : HeldOn(req, d) <= daily[d] + returned[d]

(* Of any requests in flight on a day one was charged last: what it saw, or the limit if it has
   passed, covers them all. *)
Flying(R, d) == {r \in Request : InFlight(R[r], d)}
Ests(R) == [r \in Request |-> R[r].est]
Ceiling(q, limit) == IF q.pc = "resolve" THEN limit ELSE q.seen
FitOn(R, limit, extra, d) ==
  \A T \in SUBSET Flying(R, d) :
    T # {} => \E r \in T : SumOver(Ests(R), T) <= Ceiling(R[r], limit) + extra

LastCovers ==
  UnderOneBudget /\ budget.daily # NoLimit /\ budget.behavior = "block"
    => \A d \in Day : FitOn(req, budget.daily, returned[d], d)

ReservedInv == BudgetTypeOK /\ ChargeShape /\ RowsCurrent /\ NothingYet /\ CounterHolds /\ LastCovers

(* The sets of a budget are finite. *)
LEMMA BudgetSets ==
  /\ IsFiniteSet(Request) /\ IsFiniteSet(Day) /\ IsFiniteSet(Month)
  /\ 0 \in Day /\ Day \subseteq Nat /\ \A d \in Day : MonthOf(d) \in Month
<1>1. IsFiniteSet(Day) /\ 0 \in Day /\ Day \subseteq Nat
  BY BudgetAssumption, FS_Interval DEF Day
<1>2. DEFINE to == [d \in Day |-> MonthOf(d)]
<1>3. Month = {to[d] : d \in Day}
  BY DEF Month
<1>4. IsFiniteSet({to[d] : d \in Day})
  <2> HIDE DEF to
  <2> QED BY <1>1, ImageFinite
<1> QED BY <1>1, <1>3, <1>4, BudgetAssumption DEF Month

(* A request that has not begun is in shape. *)
LEMMA FreshType == Fresh \in BudgetRequests /\ Fresh.pc = "new" /\ Fresh.charged = FALSE
<1>1. PICK zero \in Nat : zero = 0
  OBVIOUS
<1>2. PICK no \in BOOLEAN : no = FALSE
  OBVIOUS
<1>3. Fresh = [pc |-> "new", est |-> zero, used |-> zero, row |-> NoBudget, at |-> zero, seen |-> zero,
               charged |-> no, warned |-> no]
  BY <1>1, <1>2 DEF Fresh
<1>4. zero \in Day /\ zero \in Int /\ "new" \in BudgetStages
  BY <1>1, BudgetSets DEF BudgetStages
<1>5. Fresh \in BudgetRequests
  BY <1>3, <1>4 DEF BudgetRequests
<1> QED BY <1>2, <1>3, <1>5

(* A request keeps its stage, estimate, use and charge when it ends, and everything otherwise. *)
Becomes(q, new) ==
  /\ q.pc = new.pc /\ q.est = new.est /\ q.used = new.used /\ q.charged = new.charged
  /\ new.pc \notin Ended => q = new

(* A request's step writes the record it names, cut down when the request has ended. *)
LEMMA StepIs ==
  ASSUME NEW r \in Request, NEW new \in BudgetRequests, Step(r, new)
  PROVE  \E q \in BudgetRequests : req' = [req EXCEPT ![r] = q] /\ Becomes(q, new)
<1> DEFINE ended == [Fresh EXCEPT !.pc = new.pc, !.est = new.est, !.used = new.used, !.charged = new.charged]
           q == IF new.pc \in Ended THEN ended ELSE new
<1>1. ended \in BudgetRequests /\ ended.pc = new.pc /\ ended.est = new.est /\ ended.used = new.used
      /\ ended.charged = new.charged
  <2>1. new.pc \in BudgetStages /\ new.est \in Nat /\ new.used \in Nat /\ new.charged \in BOOLEAN
    BY DEF BudgetRequests
  <2> QED BY <2>1, FreshType DEF BudgetRequests
<1>2. req' = [req EXCEPT ![r] = q]
  BY DEF Step
<1>3. q \in BudgetRequests /\ Becomes(q, new)
  <2> HIDE DEF ended
  <2> QED BY <1>1 DEF Becomes
<1> HIDE DEF q
<1> QED BY <1>2, <1>3

(* A request's record is replaced by one of the same shape. *)
Replaced(r) == \E q \in BudgetRequests : req' = [req EXCEPT ![r] = q]

(* Such a step replaces the request's record by one of the same shape. *)
LEMMA StepReplaces ==
  ASSUME NEW r \in Request, NEW new \in BudgetRequests, Step(r, new) PROVE Replaced(r)
BY StepIs DEF Replaced

(* A counter stays a counter. *)
LEMMA IncrByType ==
  ASSUME NEW D, NEW counter \in [D -> Int], NEW bucket \in D, NEW delta \in Int, NEW reply
  PROVE  IncrBy(counter, bucket, delta, reply) \in [D -> Int]
BY DEF IncrBy

(* A counter to which nothing is added is unchanged. *)
LEMMA NothingAdded ==
  ASSUME NEW D, NEW counter \in [D -> Int], NEW bucket \in D
  PROVE  counter = [counter EXCEPT ![bucket] = @ + 0]
OBVIOUS

(* The row a request is judged by leaves its record in shape. *)
LEMMA GateType ==
  ASSUME BudgetTypeOK, NEW r \in Request, NEW exceeded
  PROVE  /\ BudgetGate(r, exceeded) \in BudgetRequests
         /\ [BudgetGate(r, exceeded) EXCEPT !.charged = TRUE] \in BudgetRequests
<1>1. req[r] \in BudgetRequests
  BY DEF BudgetTypeOK
<1>2. BudgetGate(r, exceeded) \in BudgetRequests
  <2> DEFINE warns == req[r].row.behavior = "warn"
  <2>1. warns \in BOOLEAN
    OBVIOUS
  <2> HIDE DEF warns
  <2>z. PICK zero \in Int : zero = 0
    OBVIOUS
  <2>2. [req[r] EXCEPT !.pc = "resolve", !.seen = zero, !.warned = warns] \in BudgetRequests
    BY <1>1, <2>1 DEF BudgetRequests, BudgetStages
  <2>3. [req[r] EXCEPT !.pc = "resolve", !.seen = zero] \in BudgetRequests
    BY <1>1 DEF BudgetRequests, BudgetStages
  <2>4. [req[r] EXCEPT !.pc = "blocked"] \in BudgetRequests
    BY <1>1 DEF BudgetRequests, BudgetStages, Ended
  <2> QED BY <2>z, <2>2, <2>3, <2>4 DEF BudgetGate, warns
<1> QED BY <1>2 DEF BudgetRequests

(* The types are kept by every step. *)
LEMMA BudgetTypes == BudgetTypeOK /\ [BudgetNext]_budgetVars => BudgetTypeOK'
<1> SUFFICES ASSUME BudgetTypeOK, [BudgetNext]_budgetVars PROVE BudgetTypeOK'
  OBVIOUS
<1>s. \A r \in Request : req[r] \in BudgetRequests /\ req[r].at \in Day /\ MonthOf(req[r].at) \in Month
                         /\ req[r].est \in Nat /\ req[r].used \in Nat
  BY BudgetSets DEF BudgetTypeOK, BudgetRequests
<1>r. ASSUME NEW r \in Request, Replaced(r) PROVE req' \in [Request -> BudgetRequests]
  BY <1>r DEF BudgetTypeOK, Replaced
<1>1. CASE PutBudget
  BY <1>1 DEF PutBudget, Upsert, BudgetTypeOK
<1>2. CASE Midnight
  BY <1>2, BudgetAssumption DEF Midnight, BudgetTypeOK, Day
<1>3. ASSUME NEW r \in Request, Begin(r) PROVE BudgetTypeOK'
  <2>1. PICK est \in Sizes : Step(r, [req[r] EXCEPT !.pc = "budget", !.est = est])
    BY <1>3 DEF Begin
  <2>2. [req[r] EXCEPT !.pc = "budget", !.est = est] \in BudgetRequests
    BY <1>s, BudgetAssumption DEF BudgetRequests, BudgetStages
  <2>3. Replaced(r)
    BY <2>1, <2>2, StepReplaces
  <2> QED BY <1>3, <1>r, <2>3 DEF Begin, BudgetTypeOK
<1>4. ASSUME NEW r \in Request, ReadBudget(r) PROVE BudgetTypeOK'
  <2>1. Replaced(r)
    <3>1. /\ [req[r] EXCEPT !.pc = "resolve"] \in BudgetRequests
          /\ [req[r] EXCEPT !.pc = "charge_day", !.row = Get, !.at = today] \in BudgetRequests
          /\ [req[r] EXCEPT !.pc = "failed"] \in BudgetRequests
      BY <1>s DEF BudgetRequests, BudgetStages, Ended, BudgetTypeOK, Get
    <3> QED BY <1>4, <3>1, StepReplaces DEF ReadBudget
  <2> QED BY <1>4, <1>r, <2>1 DEF ReadBudget, BudgetTypeOK
<1>5. ASSUME NEW r \in Request, ChargeDaily(r) PROVE BudgetTypeOK'
  <2>1. PICK reply \in Replies :
          /\ daily' = IncrBy(daily, req[r].at, req[r].est, reply)
          /\ calm' = (calm /\ reply = "ok")
          /\ Step(r, IF reply = "ok"
                     THEN [req[r] EXCEPT !.pc = "charge_month", !.seen = daily'[req[r].at]]
                     ELSE [req[r] EXCEPT !.pc = "resolve"])
    BY <1>5 DEF ChargeDaily
  <2>2. daily' \in [Day -> Int] /\ daily'[req[r].at] \in Int
    BY <1>s, <2>1, IncrByType DEF BudgetTypeOK
  <2>3. /\ [req[r] EXCEPT !.pc = "charge_month", !.seen = daily'[req[r].at]] \in BudgetRequests
        /\ [req[r] EXCEPT !.pc = "resolve"] \in BudgetRequests
    BY <1>s, <2>2 DEF BudgetRequests, BudgetStages
  <2>4. Replaced(r)
    BY <2>1, <2>3, StepReplaces
  <2>5. calm' \in BOOLEAN
    BY <2>1 DEF BudgetTypeOK
  <2> QED BY <1>5, <1>r, <2>2, <2>4, <2>5 DEF ChargeDaily, BudgetTypeOK
<1>6. ASSUME NEW r \in Request, ChargeMonthly(r) PROVE BudgetTypeOK'
  <2> DEFINE month == MonthOf(req[r].at)
  <2>1. PICK reply \in Replies :
          /\ monthly' = IncrBy(monthly, month, req[r].est, reply)
          /\ calm' = (calm /\ reply = "ok")
          /\ Step(r, IF reply = "ok"
                     THEN [BudgetGate(r, Exceeded(req[r].row, req[r].seen, monthly'[month]))
                             EXCEPT !.charged = TRUE]
                     ELSE [req[r] EXCEPT !.pc = "resolve"])
    BY <1>6 DEF ChargeMonthly
  <2>2. monthly' \in [Month -> Int]
    BY <1>s, <2>1, IncrByType DEF BudgetTypeOK
  <2>3. [req[r] EXCEPT !.pc = "resolve"] \in BudgetRequests
    BY <1>s DEF BudgetRequests, BudgetStages
  <2>4. Replaced(r)
    BY <2>1, <2>3, GateType, StepReplaces
  <2>5. calm' \in BOOLEAN
    BY <2>1 DEF BudgetTypeOK
  <2> QED BY <1>6, <1>r, <2>2, <2>4, <2>5 DEF ChargeMonthly, BudgetTypeOK
<1>7. ASSUME NEW r \in Request, Fails(r) \/ Probe(r) PROVE BudgetTypeOK'
  <2>1. [req[r] EXCEPT !.pc = "failed"] \in BudgetRequests
    BY <1>s DEF BudgetRequests, BudgetStages, Ended
  <2>2. Replaced(r)
    BY <1>7, <2>1, StepReplaces DEF Fails, Probe
  <2> QED BY <1>7, <1>r, <2>2 DEF Fails, Probe, BudgetTypeOK
<1>8. ASSUME NEW r \in Request, Answers(r) PROVE BudgetTypeOK'
  <2>1. PICK used \in Sizes \cup {0} :
          /\ Step(r, [req[r] EXCEPT !.pc = IF used = req[r].est THEN "answered" ELSE "settle_day",
                                    !.used = used, !.at = today])
          /\ returned' = IF used < req[r].est /\ req[r].at # today
                         THEN [returned EXCEPT ![today] = @ + (req[r].est - used)] ELSE returned
    BY <1>8 DEF Answers
  <2>2. used \in Nat
    BY BudgetAssumption
  <2>3. [req[r] EXCEPT !.pc = IF used = req[r].est THEN "answered" ELSE "settle_day",
                       !.used = used, !.at = today] \in BudgetRequests
    <3>1. PICK pc \in BudgetStages : pc = IF used = req[r].est THEN "answered" ELSE "settle_day"
      BY DEF BudgetStages, Ended
    <3>2. today \in Day
      BY DEF BudgetTypeOK
    <3>3. [req[r] EXCEPT !.pc = pc, !.used = used, !.at = today] \in BudgetRequests
      BY <1>s, <2>2, <3>2 DEF BudgetRequests
    <3> QED BY <3>1, <3>3
  <2>4. Replaced(r)
    BY <2>1, <2>3, StepReplaces
  <2>5. returned' \in [Day -> Nat]
    BY <1>s, <2>1, <2>2 DEF BudgetTypeOK
  <2> QED BY <1>8, <1>r, <2>4, <2>5 DEF Answers, BudgetTypeOK
<1>9. ASSUME NEW r \in Request, SettleDaily(r) PROVE BudgetTypeOK'
  <2>1. PICK reply \in Replies :
          /\ daily' = IncrBy(daily, req[r].at, req[r].used - req[r].est, reply)
          /\ calm' = (calm /\ reply # "error")
          /\ Step(r, [req[r] EXCEPT !.pc = "settle_month"])
    BY <1>9 DEF SettleDaily
  <2>2. [req[r] EXCEPT !.pc = "settle_month"] \in BudgetRequests
    BY <1>s DEF BudgetRequests, BudgetStages
  <2>3. Replaced(r)
    BY <2>1, <2>2, StepReplaces
  <2>4. req[r].used - req[r].est \in Int
    BY <1>s
  <2>5. daily' \in [Day -> Int] /\ calm' \in BOOLEAN
    BY <1>s, <2>1, <2>4, IncrByType DEF BudgetTypeOK
  <2> QED BY <1>9, <1>r, <2>3, <2>5 DEF SettleDaily, BudgetTypeOK
<1>10. ASSUME NEW r \in Request, SettleMonthly(r) PROVE BudgetTypeOK'
  <2>1. PICK reply \in Replies :
          /\ monthly' = IncrBy(monthly, MonthOf(req[r].at), req[r].used - req[r].est, reply)
          /\ calm' = (calm /\ reply # "error")
          /\ Step(r, [req[r] EXCEPT !.pc = "answered"])
    BY <1>10 DEF SettleMonthly
  <2>2. [req[r] EXCEPT !.pc = "answered"] \in BudgetRequests
    BY <1>s DEF BudgetRequests, BudgetStages, Ended
  <2>3. Replaced(r)
    BY <2>1, <2>2, StepReplaces
  <2>4. req[r].used - req[r].est \in Int
    BY <1>s
  <2>5. monthly' \in [Month -> Int] /\ calm' \in BOOLEAN
    BY <1>s, <2>1, <2>4, IncrByType DEF BudgetTypeOK
  <2> QED BY <1>10, <1>r, <2>3, <2>5 DEF SettleMonthly, BudgetTypeOK
<1>11. ASSUME NEW r \in Request, Dropped(r) PROVE BudgetTypeOK'
  <2>1. [req[r] EXCEPT !.pc = "dropped"] \in BudgetRequests
    BY <1>s DEF BudgetRequests, BudgetStages, Ended
  <2>2. Replaced(r)
    BY <1>11, <2>1, StepReplaces DEF Dropped
  <2>3. calm' \in BOOLEAN
    BY <1>11 DEF Dropped, BudgetTypeOK
  <2> QED BY <1>11, <1>r, <2>2, <2>3 DEF Dropped, BudgetTypeOK
<1>12. CASE UNCHANGED budgetVars
  BY <1>12 DEF budgetVars, BudgetTypeOK
<1> QED
  BY <1>1, <1>2, <1>3, <1>4, <1>5, <1>6, <1>7, <1>8, <1>9, <1>10, <1>11, <1>12
     DEF BudgetNext, ChatCompletions, Completions, Embeddings

(* A counter and the bookings it is the total of stay in step. *)
Shifted(D, before, after, at, delta) ==
  /\ before \in [D -> Int] /\ after \in [D -> Int]
  /\ after[at] = before[at] + delta /\ \A x \in D \ {at} : after[x] = before[x]

(* A counter and the bookings under it that move by the same amount keep the same total. *)
LEMMA BookedTogether ==
  ASSUME NEW D, IsFiniteSet(D), NEW counter, NEW after, NEW b \in D, NEW delta \in Int, NEW e, NEW f,
         NEW r \in Request, Shifted(D, counter, after, b, delta), Shifted(Request, e, f, r, delta),
         SumOver(counter, D) = SumOver(e, Request)
  PROVE  SumOver(after, D) = SumOver(f, Request)
<1>1. /\ \A x \in D : counter[x] \in Int /\ after[x] \in Int
      /\ \A x \in D \ {b} : counter[x] = after[x]
      /\ after[b] - counter[b] = delta
  BY DEF Shifted
<1>2. SumOver(after, D) = SumOver(counter, D) + (after[b] - counter[b])
  BY <1>1, SumChange
<1>3. /\ \A x \in Request : e[x] \in Int /\ f[x] \in Int
      /\ \A x \in Request \ {r} : e[x] = f[x]
      /\ f[r] - e[r] = delta
  BY DEF Shifted
<1>4. SumOver(f, Request) = SumOver(e, Request) + (f[r] - e[r])
  BY <1>3, SumChange, BudgetSets
<1> QED BY <1>1, <1>2, <1>3, <1>4

(* What a request has booked is a number. *)
LEMMA BookedType ==
  ASSUME NEW q \in BudgetRequests PROVE BookedDay(q) \in Int /\ BookedMonth(q) \in Int
<1>1. q.est \in Nat /\ q.used \in Nat
  BY DEF BudgetRequests
<1>2. PICK res \in Int : res = Reserved(q)
  BY <1>1 DEF Reserved
<1>3. q.est \in Int /\ res + (q.used - q.est) \in Int
  BY <1>1
<1> QED BY <1>2, <1>3 DEF BookedDay, BookedMonth

(* One request's record, and what it books with the step on a day and a month. *)
Shaped(q) ==
  /\ q.pc \in Uncharged => ~q.charged
  /\ q.pc \in {"charge_day", "charge_month"} => q.row \in Rows

Books(r, q, b, m, dayDelta, monthDelta) ==
  /\ req' = [req EXCEPT ![r] = q] /\ Shaped(q)
  /\ calm' => /\ calm
              /\ daily' = [daily EXCEPT ![b] = @ + dayDelta] /\ BookedDay(q) = BookedDay(req[r]) + dayDelta
              /\ monthly' = [monthly EXCEPT ![m] = @ + monthDelta]
              /\ BookedMonth(q) = BookedMonth(req[r]) + monthDelta

(* A step that books what it adds to the counters keeps the books. *)
LEMMA BookingKeeps ==
  ASSUME BooksInv, BudgetTypeOK', NEW r \in Request, NEW q \in BudgetRequests, NEW b \in Day, NEW m \in Month,
         NEW dayDelta \in Int, NEW monthDelta \in Int, Books(r, q, b, m, dayDelta, monthDelta)
  PROVE  ChargeShape' /\ BooksBalance'
<1>1. req \in [Request -> BudgetRequests] /\ req' = [req EXCEPT ![r] = q] /\ daily \in [Day -> Int]
      /\ monthly \in [Month -> Int]
  BY DEF BooksInv, BudgetTypeOK, Books
<1>2. ChargeShape'
  BY <1>1 DEF ChargeShape, BooksInv, Books, Shaped
<1>3. /\ BookedDays \in [Request -> Int] /\ BookedDays' \in [Request -> Int]
      /\ BookedMonths \in [Request -> Int] /\ BookedMonths' \in [Request -> Int]
  <2>1. \A x \in Request : req[x] \in BudgetRequests /\ req'[x] \in BudgetRequests
    BY <1>1
  <2>2. \A x \in Request : /\ BookedDay(req[x]) \in Int /\ BookedDay(req'[x]) \in Int
                           /\ BookedMonth(req[x]) \in Int /\ BookedMonth(req'[x]) \in Int
    BY <2>1, BookedType
  <2> QED BY <2>2 DEF BookedDays, BookedMonths
<1>4. /\ BookedDays'[r] = BookedDay(q) /\ BookedDays[r] = BookedDay(req[r])
      /\ BookedMonths'[r] = BookedMonth(q) /\ BookedMonths[r] = BookedMonth(req[r])
      /\ \A x \in Request \ {r} : BookedDays'[x] = BookedDays[x] /\ BookedMonths'[x] = BookedMonths[x]
  BY <1>1 DEF BookedDays, BookedMonths
<1>5. ASSUME calm'
      PROVE  /\ SumOver(daily', Day) = SumOver(BookedDays', Request)
             /\ SumOver(monthly', Month) = SumOver(BookedMonths', Request)
  <2>1. /\ SumOver(daily, Day) = SumOver(BookedDays, Request)
        /\ SumOver(monthly, Month) = SumOver(BookedMonths, Request)
    BY <1>5 DEF BooksInv, BooksBalance, Books
  <2>2. /\ daily' = [daily EXCEPT ![b] = @ + dayDelta] /\ BookedDays'[r] = BookedDays[r] + dayDelta
        /\ monthly' = [monthly EXCEPT ![m] = @ + monthDelta] /\ BookedMonths'[r] = BookedMonths[r] + monthDelta
    BY <1>4, <1>5 DEF Books
  <2>3. /\ Shifted(Day, daily, daily', b, dayDelta) /\ Shifted(Month, monthly, monthly', m, monthDelta)
        /\ Shifted(Request, BookedDays, BookedDays', r, dayDelta)
        /\ Shifted(Request, BookedMonths, BookedMonths', r, monthDelta)
    <3>1. Shifted(Day, daily, daily', b, dayDelta) /\ Shifted(Month, monthly, monthly', m, monthDelta)
      BY <1>1, <2>2 DEF Shifted
    <3>2. Shifted(Request, BookedDays, BookedDays', r, dayDelta)
      BY <1>3, <1>4, <2>2, Zenon DEF Shifted
    <3>3. Shifted(Request, BookedMonths, BookedMonths', r, monthDelta)
      BY <1>3, <1>4, <2>2, Zenon DEF Shifted
    <3> QED BY <3>1, <3>2, <3>3
  <2> QED BY <2>1, <2>3, BookedTogether, BudgetSets
<1> QED BY <1>2, <1>5 DEF BooksBalance

(* A step that touches no counter books nothing. *)
LEMMA BooksNothing ==
  ASSUME BooksInv, BudgetTypeOK', NEW r \in Request, NEW q \in BudgetRequests,
         req' = [req EXCEPT ![r] = q], Shaped(q), UNCHANGED <<daily, monthly>>,
         calm' => /\ calm /\ BookedDay(q) = BookedDay(req[r]) /\ BookedMonth(q) = BookedMonth(req[r])
  PROVE  ChargeShape' /\ BooksBalance'
<1>1. PICK b \in Day, m \in Month : TRUE
  BY BudgetSets
<1>2. PICK none \in Int : none = 0
  OBVIOUS
<1>3. daily' = [daily EXCEPT ![b] = @ + none] /\ monthly' = [monthly EXCEPT ![m] = @ + none]
  BY <1>2 DEF BooksInv, BudgetTypeOK
<1>4. BookedDay(req[r]) + none = BookedDay(req[r]) /\ BookedMonth(req[r]) + none = BookedMonth(req[r])
  BY <1>2, BookedType DEF BooksInv, BudgetTypeOK
<1>5. Books(r, q, b, m, none, none)
  BY <1>3, <1>4 DEF Books
<1> QED BY <1>5, BookingKeeps

(* Whatever the budget check says, the request keeps its estimate. *)
LEMMA GateKeeps ==
  ASSUME BudgetTypeOK, NEW r \in Request, NEW exceeded
  PROVE  LET gate == [BudgetGate(r, exceeded) EXCEPT !.charged = TRUE]
         IN gate.charged = TRUE /\ gate.est = req[r].est /\ gate.pc \in {"resolve", "blocked"}
<1>1. req[r] \in BudgetRequests
  BY DEF BudgetTypeOK
<1> DEFINE g == BudgetGate(r, exceeded)
<1>2. g \in BudgetRequests /\ g.est = req[r].est /\ g.pc \in {"resolve", "blocked"}
  <2> DEFINE warns == req[r].row.behavior = "warn"
  <2>1. g \in BudgetRequests
    BY GateType
  <2> HIDE DEF warns
  <2> QED BY <1>1, <2>1 DEF BudgetGate, BudgetRequests, warns
<1> HIDE DEF g
<1>3. LET gate == [g EXCEPT !.charged = TRUE]
      IN gate.charged = TRUE /\ gate.est = req[r].est /\ gate.pc \in {"resolve", "blocked"}
  BY <1>2 DEF BudgetRequests
<1> QED BY <1>3 DEF g

(* The books are kept by every step. *)
LEMMA BooksStep == BooksInv /\ [BudgetNext]_budgetVars => ChargeShape' /\ BooksBalance'
<1> SUFFICES ASSUME BooksInv, [BudgetNext]_budgetVars PROVE ChargeShape' /\ BooksBalance'
  OBVIOUS
<1>t. BudgetTypeOK /\ BudgetTypeOK'
  BY BudgetTypes DEF BooksInv
<1>s. \A r \in Request : /\ req[r] \in BudgetRequests /\ req[r].at \in Day /\ MonthOf(req[r].at) \in Month
                         /\ req[r].est \in Nat /\ req[r].used \in Nat /\ Shaped(req[r])
  BY <1>t, BudgetSets DEF BudgetTypeOK, BudgetRequests, BooksInv, ChargeShape, Shaped
<1>1. CASE PutBudget \/ Midnight \/ UNCHANGED budgetVars
  <2>0. calm' => calm
    BY <1>1, Zenon DEF PutBudget, Midnight, budgetVars
  <2>1. req' = req /\ daily' = daily /\ monthly' = monthly /\ (calm' => calm)
    BY <1>1, <2>0 DEF PutBudget, Midnight, budgetVars
  <2>2. ChargeShape'
    BY <2>1 DEF BooksInv, ChargeShape
  <2>3. BookedDays' = BookedDays /\ BookedMonths' = BookedMonths
    BY <2>1 DEF BookedDays, BookedMonths
  <2>4. BooksBalance'
    BY <2>1, <2>3 DEF BooksInv, BooksBalance
  <2> QED BY <2>2, <2>4
<1>2. ASSUME NEW r \in Request, Begin(r) PROVE ChargeShape' /\ BooksBalance'
  <2>1. PICK est \in Sizes : Step(r, [req[r] EXCEPT !.pc = "budget", !.est = est])
    BY <1>2 DEF Begin
  <2> DEFINE new == [req[r] EXCEPT !.pc = "budget", !.est = est]
  <2>2. new \in BudgetRequests /\ new.pc = "budget" /\ new.charged = req[r].charged
    BY <1>s, BudgetAssumption DEF BudgetRequests, BudgetStages
  <2> HIDE DEF new
  <2>3. PICK q \in BudgetRequests : req' = [req EXCEPT ![r] = q] /\ Becomes(q, new)
    BY <2>1, <2>2, StepIs DEF new
  <2>4. req[r].pc = "new" /\ ~req[r].charged /\ q.pc = "budget" /\ ~q.charged
    BY <1>2, <1>s, <2>2, <2>3 DEF Begin, Shaped, Uncharged, Becomes
  <2>5. /\ Shaped(q) /\ BookedDay(q) = BookedDay(req[r]) /\ BookedMonth(q) = BookedMonth(req[r])
    BY <2>4 DEF Shaped, BookedDay, BookedMonth, Reserved
  <2> QED BY <1>t, <1>2, <2>3, <2>5, BooksNothing DEF Begin
<1>3. ASSUME NEW r \in Request, ReadBudget(r) PROVE ChargeShape' /\ BooksBalance'
  <2>1. \E new1 \in BudgetRequests :
          /\ Step(r, new1) /\ ~new1.charged /\ new1.pc \in {"resolve", "charge_day", "failed"}
          /\ new1.pc = "charge_day" => new1.row \in Rows
    <3>1. req[r].pc = "budget" /\ ~req[r].charged
      BY <1>3, <1>s DEF ReadBudget, Shaped, Uncharged
    <3> DEFINE n1 == [req[r] EXCEPT !.pc = "resolve"]
               n2 == [req[r] EXCEPT !.pc = "charge_day", !.row = Get, !.at = today]
               n3 == [req[r] EXCEPT !.pc = "failed"]
    <3>2. /\ n1 \in BudgetRequests /\ n1.pc = "resolve" /\ n1.charged = req[r].charged
          /\ n2 \in BudgetRequests /\ n2.pc = "charge_day" /\ n2.charged = req[r].charged /\ n2.row = Get
          /\ n3 \in BudgetRequests /\ n3.pc = "failed" /\ n3.charged = req[r].charged
      BY <1>s, <1>t DEF BudgetRequests, BudgetStages, Ended, BudgetTypeOK, Get
    <3>3. Step(r, n1) \/ (Get # NoBudget /\ Step(r, n2)) \/ Step(r, n3)
      BY <1>3 DEF ReadBudget
    <3>4. Get # NoBudget => Get \in Rows
      BY <1>t DEF Get, BudgetTypeOK
    <3> HIDE DEF n1, n2, n3
    <3>5. CASE Step(r, n1)
      BY <3>1, <3>2, <3>5
    <3>6. CASE Get # NoBudget /\ Step(r, n2)
      BY <3>1, <3>2, <3>4, <3>6
    <3>7. CASE Step(r, n3)
      BY <3>1, <3>2, <3>7
    <3> QED BY <3>3, <3>5, <3>6, <3>7
  <2>2. PICK new1 \in BudgetRequests :
          /\ Step(r, new1) /\ ~new1.charged /\ new1.pc \in {"resolve", "charge_day", "failed"}
          /\ new1.pc = "charge_day" => new1.row \in Rows
    BY <2>1
  <2>3. PICK q \in BudgetRequests : req' = [req EXCEPT ![r] = q] /\ Becomes(q, new1)
    BY <2>2, StepIs
  <2>4. req[r].pc = "budget" /\ ~req[r].charged /\ ~q.charged /\ q.pc \in {"resolve", "charge_day", "failed"}
        /\ (q.pc = "charge_day" => q.row \in Rows)
    BY <1>3, <1>s, <2>2, <2>3 DEF ReadBudget, Shaped, Uncharged, Becomes, Ended
  <2>5. /\ Shaped(q) /\ BookedDay(q) = BookedDay(req[r]) /\ BookedMonth(q) = BookedMonth(req[r])
    BY <2>4 DEF Shaped, BookedDay, BookedMonth, Reserved
  <2> QED BY <1>t, <1>3, <2>3, <2>5, BooksNothing DEF ReadBudget
<1>4. ASSUME NEW r \in Request, ChargeDaily(r) PROVE ChargeShape' /\ BooksBalance'
  <2>1. PICK reply \in Replies :
          /\ daily' = IncrBy(daily, req[r].at, req[r].est, reply)
          /\ calm' = (calm /\ reply = "ok")
          /\ Step(r, IF reply = "ok"
                     THEN [req[r] EXCEPT !.pc = "charge_month", !.seen = daily'[req[r].at]]
                     ELSE [req[r] EXCEPT !.pc = "resolve"])
    BY <1>4 DEF ChargeDaily
  <2> DEFINE new == IF reply = "ok" THEN [req[r] EXCEPT !.pc = "charge_month", !.seen = daily'[req[r].at]]
                    ELSE [req[r] EXCEPT !.pc = "resolve"]
  <2>2. /\ new \in BudgetRequests /\ new.est = req[r].est /\ new.charged = req[r].charged /\ new.row = req[r].row
        /\ new.pc = IF reply = "ok" THEN "charge_month" ELSE "resolve"
    <3>1. daily'[req[r].at] \in Int
      BY <1>t, <1>s DEF BudgetTypeOK
    <3> QED BY <1>s, <3>1 DEF BudgetRequests, BudgetStages
  <2> HIDE DEF new
  <2>3. PICK q \in BudgetRequests : req' = [req EXCEPT ![r] = q] /\ Becomes(q, new)
    BY <2>1, <2>2, StepIs DEF new
  <2>4. /\ req[r].pc = "charge_day" /\ ~req[r].charged /\ req[r].row \in Rows /\ ~q.charged
        /\ q.est = req[r].est /\ q.row = req[r].row
        /\ q.pc = IF reply = "ok" THEN "charge_month" ELSE "resolve"
    BY <1>4, <1>s, <2>2, <2>3 DEF ChargeDaily, Shaped, Uncharged, Becomes, Ended
  <2>5. Shaped(q)
    BY <2>4 DEF Shaped
  <2>6. /\ reply = "ok" => BookedDay(q) = BookedDay(req[r]) + req[r].est
        /\ BookedMonth(q) = BookedMonth(req[r]) + 0
        /\ monthly' = [monthly EXCEPT ![MonthOf(req[r].at)] = @ + 0]
    <3>1. /\ BookedMonth(req[r]) = 0 /\ BookedDay(req[r]) = 0 /\ BookedMonth(q) = 0
          /\ reply = "ok" => BookedDay(q) = req[r].est
      BY <2>4 DEF BookedDay, BookedMonth, Reserved
    <3>2. monthly' = [monthly EXCEPT ![MonthOf(req[r].at)] = @ + 0]
      <4>1. monthly' = monthly
        BY <1>4 DEF ChargeDaily
      <4>2. monthly = [monthly EXCEPT ![MonthOf(req[r].at)] = @ + 0]
        BY <1>s, <1>t, NothingAdded DEF BudgetTypeOK
      <4> QED BY <4>1, <4>2
    <3> QED BY <1>s, <3>1, <3>2
  <2>7. Books(r, q, req[r].at, MonthOf(req[r].at), req[r].est, 0)
    BY <2>1, <2>3, <2>5, <2>6 DEF Books, IncrBy
  <2>8. req[r].at \in Day /\ MonthOf(req[r].at) \in Month /\ 0 \in Int /\ req[r].est \in Int
    BY <1>s
  <2> QED BY <1>t, <2>7, <2>8, BookingKeeps
<1>5. ASSUME NEW r \in Request, ChargeMonthly(r) PROVE ChargeShape' /\ BooksBalance'
  <2> DEFINE month == MonthOf(req[r].at)
             gate == [BudgetGate(r, Exceeded(req[r].row, req[r].seen, monthly'[month])) EXCEPT !.charged = TRUE]
  <2>1. PICK reply \in Replies :
          /\ monthly' = IncrBy(monthly, month, req[r].est, reply)
          /\ calm' = (calm /\ reply = "ok")
          /\ Step(r, IF reply = "ok" THEN gate ELSE [req[r] EXCEPT !.pc = "resolve"])
    BY <1>5 DEF ChargeMonthly
  <2>2. gate \in BudgetRequests /\ gate.charged = TRUE /\ gate.est = req[r].est /\ gate.pc \in {"resolve", "blocked"}
    BY <1>s, <1>t, GateType, GateKeeps
  <2> HIDE DEF gate
  <2> DEFINE new == IF reply = "ok" THEN gate ELSE [req[r] EXCEPT !.pc = "resolve"]
  <2>3. /\ new \in BudgetRequests /\ new.est = req[r].est /\ new.pc \in {"resolve", "blocked"}
        /\ reply = "ok" => new.charged
    BY <1>s, <2>2 DEF BudgetRequests, BudgetStages
  <2> HIDE DEF new
  <2>4. PICK q \in BudgetRequests : req' = [req EXCEPT ![r] = q] /\ Becomes(q, new)
    BY <2>1, <2>3, StepIs DEF new
  <2>5. /\ req[r].pc = "charge_month" /\ ~req[r].charged /\ (reply = "ok" => q.charged)
        /\ q.est = req[r].est /\ q.pc \in {"resolve", "blocked"}
    BY <1>5, <1>s, <2>3, <2>4 DEF ChargeMonthly, Shaped, Uncharged, Becomes
  <2>6. Shaped(q)
    BY <2>5 DEF Shaped, Uncharged
  <2>7. /\ reply = "ok" => BookedMonth(q) = BookedMonth(req[r]) + req[r].est
        /\ reply = "ok" => BookedDay(q) = BookedDay(req[r]) + 0
        /\ daily' = [daily EXCEPT ![req[r].at] = @ + 0]
    <3>1. /\ BookedMonth(req[r]) = 0 /\ BookedDay(req[r]) = req[r].est
          /\ reply = "ok" => BookedMonth(q) = req[r].est /\ BookedDay(q) = req[r].est
      BY <2>5 DEF BookedDay, BookedMonth, Reserved
    <3>2. daily' = [daily EXCEPT ![req[r].at] = @ + 0]
      <4>1. daily' = daily
        BY <1>5 DEF ChargeMonthly
      <4>2. daily = [daily EXCEPT ![req[r].at] = @ + 0]
        BY <1>s, <1>t, NothingAdded DEF BudgetTypeOK
      <4> QED BY <4>1, <4>2
    <3> QED BY <1>s, <3>1, <3>2
  <2>8. Books(r, q, req[r].at, month, 0, req[r].est)
    BY <2>1, <2>4, <2>6, <2>7 DEF Books, IncrBy
  <2>9. req[r].at \in Day /\ month \in Month /\ 0 \in Int /\ req[r].est \in Int
    BY <1>s
  <2> HIDE DEF month
  <2> QED BY <1>t, <2>8, <2>9, BookingKeeps
<1>6. ASSUME NEW r \in Request, Fails(r) \/ Probe(r) PROVE ChargeShape' /\ BooksBalance'
  <2> DEFINE new == [req[r] EXCEPT !.pc = "failed"]
  <2>1. new \in BudgetRequests /\ new.pc = "failed" /\ new.est = req[r].est /\ new.charged = req[r].charged
    BY <1>s DEF BudgetRequests, BudgetStages, Ended
  <2>2. Step(r, new) /\ req[r].pc = "resolve"
    BY <1>6 DEF Fails, Probe
  <2> HIDE DEF new
  <2>3. PICK q \in BudgetRequests : req' = [req EXCEPT ![r] = q] /\ Becomes(q, new)
    BY <2>1, <2>2, StepIs
  <2>4. /\ Shaped(q) /\ BookedDay(q) = BookedDay(req[r]) /\ BookedMonth(q) = BookedMonth(req[r])
    BY <2>1, <2>2, <2>3 DEF Becomes, Shaped, Uncharged, BookedDay, BookedMonth, Reserved
  <2>5. UNCHANGED <<daily, monthly>> /\ (calm' => calm)
    <3>1. daily' = daily /\ monthly' = monthly
      BY <1>6 DEF Fails, Probe
    <3>2. calm' = calm
      BY <1>6 DEF Fails, Probe
    <3> QED BY <3>1, <3>2
  <2> QED BY <1>t, <2>3, <2>4, <2>5, BooksNothing
<1>7. ASSUME NEW r \in Request, Answers(r) PROVE ChargeShape' /\ BooksBalance'
  <2>1. PICK used \in Sizes \cup {0} :
          Step(r, [req[r] EXCEPT !.pc = IF used = req[r].est THEN "answered" ELSE "settle_day",
                                 !.used = used, !.at = today])
    BY <1>7 DEF Answers
  <2> DEFINE new == [req[r] EXCEPT !.pc = IF used = req[r].est THEN "answered" ELSE "settle_day",
                                   !.used = used, !.at = today]
  <2>u. used \in Nat
    BY BudgetAssumption
  <2>2. /\ new \in BudgetRequests /\ new.est = req[r].est /\ new.charged = req[r].charged /\ new.used = used
        /\ new.pc = IF used = req[r].est THEN "answered" ELSE "settle_day"
    BY <1>s, <1>t, <2>u DEF BudgetRequests, BudgetStages, Ended, BudgetTypeOK
  <2> HIDE DEF new
  <2>3. PICK q \in BudgetRequests : req' = [req EXCEPT ![r] = q] /\ Becomes(q, new)
    BY <2>1, <2>2, StepIs DEF new
  <2>4. /\ req[r].pc = "resolve" /\ q.est = req[r].est /\ q.charged = req[r].charged /\ q.used = used
        /\ q.pc = IF used = req[r].est THEN "answered" ELSE "settle_day"
    BY <1>7, <2>2, <2>3 DEF Answers, Becomes
  <2>5. Shaped(q)
    BY <2>4 DEF Shaped, Uncharged
  <2>6. BookedDay(q) = BookedDay(req[r]) /\ BookedMonth(q) = BookedMonth(req[r])
    <3>1. Reserved(q) = Reserved(req[r])
      BY <2>4 DEF Reserved
    <3>2. PICK res \in Int : res = Reserved(req[r])
      BY <1>s DEF Reserved
    <3>3. used = req[r].est => res + (used - req[r].est) = res
      BY <1>s, <2>u, <3>2
    <3> QED BY <2>4, <3>1, <3>2, <3>3 DEF BookedDay, BookedMonth
  <2> QED BY <1>t, <1>7, <2>3, <2>5, <2>6, BooksNothing DEF Answers
<1>8. ASSUME NEW r \in Request, SettleDaily(r) PROVE ChargeShape' /\ BooksBalance'
  <2> DEFINE new == [req[r] EXCEPT !.pc = "settle_month"]
             delta == req[r].used - req[r].est
  <2>1. PICK reply \in Replies :
          daily' = IncrBy(daily, req[r].at, delta, reply) /\ calm' = (calm /\ reply # "error") /\ Step(r, new)
    BY <1>8 DEF SettleDaily
  <2>2. /\ new \in BudgetRequests /\ new.est = req[r].est /\ new.charged = req[r].charged
        /\ new.used = req[r].used /\ new.pc = "settle_month"
    BY <1>s DEF BudgetRequests, BudgetStages
  <2> HIDE DEF new
  <2>3. PICK q \in BudgetRequests : req' = [req EXCEPT ![r] = q] /\ Becomes(q, new)
    BY <2>1, <2>2, StepIs
  <2>4. /\ req[r].pc = "settle_day" /\ q.pc = "settle_month" /\ q.est = req[r].est
        /\ q.charged = req[r].charged /\ q.used = req[r].used
    BY <1>8, <2>2, <2>3 DEF SettleDaily, Becomes
  <2>5. Shaped(q) /\ delta \in Int
    <3>1. Shaped(q)
      BY <2>4 DEF Shaped, Uncharged
    <3>2. delta \in Int
      BY <1>s
    <3> QED BY <3>1, <3>2
  <2>6. /\ BookedDay(q) = BookedDay(req[r]) + delta /\ BookedMonth(q) = BookedMonth(req[r]) + 0
        /\ monthly' = [monthly EXCEPT ![MonthOf(req[r].at)] = @ + 0]
    <3>1. Reserved(q) = Reserved(req[r])
      BY <2>4 DEF Reserved
    <3>2. PICK res \in Int : res = Reserved(req[r])
      BY <1>s DEF Reserved
    <3>3. BookedDay(q) = res + delta /\ BookedDay(req[r]) = res /\ BookedMonth(q) = res /\ BookedMonth(req[r]) = res
      BY <2>4, <3>1, <3>2 DEF BookedDay, BookedMonth
    <3>4. monthly' = [monthly EXCEPT ![MonthOf(req[r].at)] = @ + 0]
      <4>1. monthly' = monthly
        BY <1>8 DEF SettleDaily
      <4>2. monthly = [monthly EXCEPT ![MonthOf(req[r].at)] = @ + 0]
        BY <1>s, <1>t, NothingAdded DEF BudgetTypeOK
      <4> QED BY <4>1, <4>2
    <3> QED BY <3>3, <3>4
  <2> HIDE DEF delta
  <2>7. Books(r, q, req[r].at, MonthOf(req[r].at), delta, 0)
    BY <2>1, <2>3, <2>5, <2>6 DEF Books, IncrBy
  <2>8. req[r].at \in Day /\ MonthOf(req[r].at) \in Month /\ 0 \in Int
    BY <1>s
  <2> QED BY <1>t, <2>5, <2>7, <2>8, BookingKeeps
<1>9. ASSUME NEW r \in Request, SettleMonthly(r) PROVE ChargeShape' /\ BooksBalance'
  <2> DEFINE new == [req[r] EXCEPT !.pc = "answered"]
             delta == req[r].used - req[r].est
  <2>1. PICK reply \in Replies :
          /\ monthly' = IncrBy(monthly, MonthOf(req[r].at), delta, reply)
          /\ calm' = (calm /\ reply # "error") /\ Step(r, new)
    BY <1>9 DEF SettleMonthly
  <2>2. /\ new \in BudgetRequests /\ new.est = req[r].est /\ new.charged = req[r].charged
        /\ new.used = req[r].used /\ new.pc = "answered"
    BY <1>s DEF BudgetRequests, BudgetStages, Ended
  <2> HIDE DEF new
  <2>3. PICK q \in BudgetRequests : req' = [req EXCEPT ![r] = q] /\ Becomes(q, new)
    BY <2>1, <2>2, StepIs
  <2>4. /\ req[r].pc = "settle_month" /\ q.pc = "answered" /\ q.est = req[r].est
        /\ q.charged = req[r].charged /\ q.used = req[r].used
    BY <1>9, <2>2, <2>3 DEF SettleMonthly, Becomes
  <2>5. Shaped(q) /\ delta \in Int
    <3>1. Shaped(q)
      BY <2>4 DEF Shaped, Uncharged
    <3>2. delta \in Int
      BY <1>s
    <3> QED BY <3>1, <3>2
  <2>6. /\ BookedMonth(q) = BookedMonth(req[r]) + delta /\ BookedDay(q) = BookedDay(req[r]) + 0
        /\ daily' = [daily EXCEPT ![req[r].at] = @ + 0]
    <3>1. Reserved(q) = Reserved(req[r])
      BY <2>4 DEF Reserved
    <3>2. PICK res \in Int : res = Reserved(req[r])
      BY <1>s DEF Reserved
    <3>3. /\ BookedMonth(q) = res + delta /\ BookedMonth(req[r]) = res
          /\ BookedDay(q) = res + delta /\ BookedDay(req[r]) = res + delta
      BY <2>4, <3>1, <3>2 DEF BookedDay, BookedMonth
    <3>4. daily' = [daily EXCEPT ![req[r].at] = @ + 0]
      <4>1. daily' = daily
        BY <1>9 DEF SettleMonthly
      <4>2. daily = [daily EXCEPT ![req[r].at] = @ + 0]
        BY <1>s, <1>t, NothingAdded DEF BudgetTypeOK
      <4> QED BY <4>1, <4>2
    <3> QED BY <2>5, <3>3, <3>4
  <2> HIDE DEF delta
  <2>7. Books(r, q, req[r].at, MonthOf(req[r].at), 0, delta)
    BY <2>1, <2>3, <2>5, <2>6 DEF Books, IncrBy
  <2>8. req[r].at \in Day /\ MonthOf(req[r].at) \in Month /\ 0 \in Int
    BY <1>s
  <2> QED BY <1>t, <2>5, <2>7, <2>8, BookingKeeps
<1>10. ASSUME NEW r \in Request, Dropped(r) PROVE ChargeShape' /\ BooksBalance'
  <2> DEFINE new == [req[r] EXCEPT !.pc = "dropped"]
  <2>1. new \in BudgetRequests /\ new.pc = "dropped" /\ new.est = req[r].est /\ new.charged = req[r].charged
    BY <1>s DEF BudgetRequests, BudgetStages, Ended
  <2>2. Step(r, new)
    BY <1>10 DEF Dropped
  <2> HIDE DEF new
  <2>3. PICK q \in BudgetRequests : req' = [req EXCEPT ![r] = q] /\ Becomes(q, new)
    BY <2>1, <2>2, StepIs
  <2>4. Shaped(q)
    BY <2>1, <2>3 DEF Becomes, Shaped, Uncharged
  <2>5. calm' => calm /\ BookedDay(q) = BookedDay(req[r]) /\ BookedMonth(q) = BookedMonth(req[r])
    BY <1>10, <2>1, <2>3 DEF Dropped, Becomes, BookedDay, BookedMonth, Reserved
  <2> QED BY <1>t, <1>10, <2>3, <2>4, <2>5, BooksNothing DEF Dropped
<1> QED
  BY <1>1, <1>2, <1>3, <1>4, <1>5, <1>6, <1>7, <1>8, <1>9, <1>10
     DEF BudgetNext, ChatCompletions, Completions, Embeddings

(* The books hold at the start. *)
LEMMA BooksStart == BudgetInit => BooksInv
<1> SUFFICES ASSUME BudgetInit PROVE BooksInv
  OBVIOUS
<1>1. BudgetTypeOK
  BY BudgetSets, FreshType DEF BudgetInit, BudgetTypeOK
<1>2. \A r \in Request : req[r].pc = "new" /\ ~req[r].charged
  BY FreshType DEF BudgetInit
<1>3. ChargeShape
  BY <1>2 DEF ChargeShape
<1>4. \A r \in Request : BookedDays[r] = 0 /\ BookedMonths[r] = 0
  BY <1>2 DEF BookedDays, BookedMonths, BookedDay, BookedMonth, Reserved
<1>5. /\ SumOver(daily, Day) = 0 /\ SumOver(monthly, Month) = 0
      /\ SumOver(BookedDays, Request) = 0 /\ SumOver(BookedMonths, Request) = 0
  <2>1. (\A d \in Day : daily[d] = 0) /\ (\A m \in Month : monthly[m] = 0)
    BY DEF BudgetInit
  <2> QED BY <1>4, <2>1, SumZero, BudgetSets
<1> QED BY <1>1, <1>3, <1>5 DEF BooksInv, BooksBalance

(* A request that moves is charged if it passes the gate, and the others have not moved. *)
LEMMA ChargedMove ==
  ASSUME BudgetTypeOK, AllCharged, NEW r \in Request, NEW q, Step(r, q), budget' = budget, calm' => calm,
         (calm' /\ budget # NoBudget /\ q.pc \in {"resolve", "settle_day", "settle_month", "answered"}) => q.charged
  PROVE  AllCharged'
<1> DEFINE new == IF q.pc \in Ended
                  THEN [Fresh EXCEPT !.pc = q.pc, !.est = q.est, !.used = q.used, !.charged = q.charged]
                  ELSE q
<1>1. req' = [req EXCEPT ![r] = new]
  BY DEF Step
<1>2. new.pc = q.pc /\ new.charged = q.charged
  BY DEF Fresh
<1> HIDE DEF new
<1>3. req'[r] = new /\ \A x \in Request : x # r => req'[x] = req[x]
  BY <1>1 DEF BudgetTypeOK
<1> QED BY <1>2, <1>3 DEF AllCharged

(* Every step keeps it: a request reaches the gate uncharged only without a budget or after a Redis
   failure. *)
LEMMA ChargedStep ==
  BudgetTypeOK /\ AllCharged /\ [BudgetNext]_budgetVars => AllCharged'
<1> SUFFICES ASSUME BudgetTypeOK, AllCharged, [BudgetNext]_budgetVars PROVE AllCharged'
  OBVIOUS
<1>1. CASE PutBudget
  <2>1. req' = req /\ (calm' => \A r \in Request : req[r].pc = "new")
    BY <1>1 DEF PutBudget
  <2> QED BY <2>1 DEF AllCharged
<1>2. CASE Midnight
  BY <1>2 DEF Midnight, AllCharged
<1>3. ASSUME NEW r \in Request, Begin(r) PROVE AllCharged'
  <2>1. PICK est \in Sizes : Step(r, [req[r] EXCEPT !.pc = "budget", !.est = est])
    BY <1>3, Zenon DEF Begin
  <2> DEFINE q == [req[r] EXCEPT !.pc = "budget", !.est = est]
  <2>2. q.pc = "budget"
    BY DEF BudgetTypeOK, BudgetRequests
  <2>3. Step(r, q)
    BY <2>1
  <2>4. budget' = budget /\ calm' = calm
    BY <1>3, Zenon DEF Begin
  <2> HIDE DEF q
  <2> QED BY <2>2, <2>3, <2>4, ChargedMove
<1>4. ASSUME NEW r \in Request, ReadBudget(r) PROVE AllCharged'
  <2>1. PICK q : Step(r, q) /\ (q.pc = "resolve" => budget = NoBudget) /\ q.pc \in {"resolve", "charge_day", "failed"}
    <3>1. CASE Get = NoBudget /\ Step(r, [req[r] EXCEPT !.pc = "resolve"])
      BY <3>1 DEF Get, BudgetTypeOK, BudgetRequests
    <3>2. CASE Step(r, [req[r] EXCEPT !.pc = "charge_day", !.row = Get, !.at = today])
      <4> DEFINE q == [req[r] EXCEPT !.pc = "charge_day", !.row = Get, !.at = today]
      <4>1. q.pc = "charge_day"
        BY DEF BudgetTypeOK, BudgetRequests
      <4>2. Step(r, q)
        BY <3>2
      <4> HIDE DEF q
      <4> QED BY <4>1, <4>2
    <3>3. CASE Step(r, [req[r] EXCEPT !.pc = "failed"])
      BY <3>3 DEF BudgetTypeOK, BudgetRequests
    <3> QED BY <1>4, <3>1, <3>2, <3>3 DEF ReadBudget
  <2>2. budget' = budget /\ calm' = calm
    BY <1>4 DEF ReadBudget
  <2> QED BY <2>1, <2>2, ChargedMove
<1>5. ASSUME NEW r \in Request, ChargeDaily(r) PROVE AllCharged'
  <2>1. PICK reply \in Replies :
          /\ calm' = (calm /\ reply = "ok")
          /\ Step(r, IF reply = "ok"
                     THEN [req[r] EXCEPT !.pc = "charge_month", !.seen = daily'[req[r].at]]
                     ELSE [req[r] EXCEPT !.pc = "resolve"])
    BY <1>5 DEF ChargeDaily
  <2>2. PICK q : Step(r, q) /\ (reply = "ok" => q.pc = "charge_month")
    <3>1. CASE reply = "ok"
      <4> DEFINE q == [req[r] EXCEPT !.pc = "charge_month", !.seen = daily'[req[r].at]]
      <4>1. q.pc = "charge_month"
        BY DEF BudgetTypeOK, BudgetRequests
      <4>2. Step(r, q)
        BY <2>1, <3>1
      <4> HIDE DEF q
      <4> QED BY <4>1, <4>2
    <3>2. CASE reply # "ok"
      BY <2>1, <3>2
    <3> QED BY <3>1, <3>2
  <2>3. budget' = budget
    BY <1>5 DEF ChargeDaily
  <2> QED BY <2>1, <2>2, <2>3, ChargedMove
<1>6. ASSUME NEW r \in Request, ChargeMonthly(r) PROVE AllCharged'
  <2>1. PICK reply \in Replies :
          /\ calm' = (calm /\ reply = "ok")
          /\ Step(r, IF reply = "ok"
                     THEN [BudgetGate(r, Exceeded(req[r].row, req[r].seen, monthly'[MonthOf(req[r].at)]))
                             EXCEPT !.charged = TRUE]
                     ELSE [req[r] EXCEPT !.pc = "resolve"])
    BY <1>6 DEF ChargeMonthly
  <2>2. PICK q : Step(r, q) /\ (reply = "ok" => q.charged)
    <3>1. CASE reply = "ok"
      <4> DEFINE gate == BudgetGate(r, Exceeded(req[r].row, req[r].seen, monthly'[MonthOf(req[r].at)]))
                 q == [gate EXCEPT !.charged = TRUE]
      <4>1. gate \in BudgetRequests
        BY GateType
      <4>2. q.charged
        BY <4>1 DEF BudgetRequests
      <4>3. Step(r, q)
        BY <2>1, <3>1
      <4> QED BY <4>2, <4>3
    <3>2. CASE reply # "ok"
      BY <2>1, <3>2
    <3> QED BY <3>1, <3>2
  <2>3. budget' = budget
    BY <1>6 DEF ChargeMonthly
  <2> QED BY <2>1, <2>2, <2>3, ChargedMove
<1>7. ASSUME NEW r \in Request,
             Fails(r) \/ Answers(r) \/ SettleDaily(r) \/ SettleMonthly(r) \/ Dropped(r) \/ Probe(r)
      PROVE  AllCharged'
  <2>1. PICK q : /\ Step(r, q) /\ q.charged = req[r].charged
                 /\ \/ q.pc \in {"failed", "dropped"}
                    \/ req[r].pc \in {"resolve", "settle_day", "settle_month"}
    <3>1. CASE Fails(r) \/ Probe(r)
      BY <3>1 DEF Fails, Probe, BudgetTypeOK, BudgetRequests
    <3>2. CASE Answers(r)
      BY <3>2 DEF Answers, BudgetTypeOK, BudgetRequests
    <3>3. CASE SettleDaily(r)
      BY <3>3 DEF SettleDaily, BudgetTypeOK, BudgetRequests
    <3>4. CASE SettleMonthly(r)
      BY <3>4 DEF SettleMonthly, BudgetTypeOK, BudgetRequests
    <3>5. CASE Dropped(r)
      BY <3>5 DEF Dropped, BudgetTypeOK, BudgetRequests
    <3> QED BY <1>7, <3>1, <3>2, <3>3, <3>4, <3>5
  <2>2. budget' = budget /\ (calm' => calm)
    <3>1. CASE Fails(r)
      BY <3>1, Zenon DEF Fails
    <3>2. CASE Probe(r)
      BY <3>2, Zenon DEF Probe
    <3>3. CASE Answers(r)
      BY <3>3, Zenon DEF Answers
    <3>4. CASE SettleDaily(r) \/ SettleMonthly(r)
      BY <3>4, Zenon DEF SettleDaily, SettleMonthly
    <3>5. CASE Dropped(r)
      BY <3>5, Zenon DEF Dropped
    <3> QED BY <1>7, <3>1, <3>2, <3>3, <3>4, <3>5
  <2> QED BY <2>1, <2>2, ChargedMove DEF AllCharged
<1>8. CASE UNCHANGED budgetVars
  BY <1>8 DEF budgetVars, AllCharged
<1> QED BY <1>1, <1>2, <1>3, <1>4, <1>5, <1>6, <1>7, <1>8 DEF BudgetNext, ChatCompletions, Completions, Embeddings

(* When all requests have ended, what they booked is what they should leave. *)
LEMMA BooksEnd == BooksInv /\ AllCharged => BooksClose
<1> SUFFICES ASSUME BooksInv, AllCharged, calm, budget # NoBudget,
                    \A r \in Request : req[r].pc \in Ended \cup {"new"}
             PROVE  LET left == SumOver([r \in Request |-> LeftBy(r)], Request)
                    IN SumOver(daily, Day) = left /\ SumOver(monthly, Month) = left
  BY DEF BooksClose
<1> DEFINE lefts == [r \in Request |-> LeftBy(r)]
<1>1. ASSUME NEW r \in Request PROVE BookedDays[r] = lefts[r] /\ BookedMonths[r] = lefts[r]
  <2>1. req[r].est \in Nat /\ req[r].used \in Nat
    BY DEF BooksInv, BudgetTypeOK, BudgetRequests
  <2>2. BookedDays[r] = BookedDay(req[r]) /\ BookedMonths[r] = BookedMonth(req[r]) /\ lefts[r] = LeftBy(r)
    BY DEF BookedDays, BookedMonths
  <2>3. /\ BookedDay(req[r]) = IF req[r].pc = "answered" THEN Reserved(req[r]) + (req[r].used - req[r].est)
                               ELSE Reserved(req[r])
        /\ BookedMonth(req[r]) = BookedDay(req[r])
    BY DEF BookedDay, BookedMonth, Ended
  <2>4. CASE req[r].charged
    <3>1. Reserved(req[r]) = req[r].est
      BY <2>4 DEF Reserved
    <3>2. LeftBy(r) = IF req[r].pc = "answered" THEN req[r].used ELSE req[r].est
      BY <2>4 DEF LeftBy
    <3> QED BY <2>1, <2>2, <2>3, <3>1, <3>2
  <2>5. CASE ~req[r].charged
    <3>1. Reserved(req[r]) = 0 /\ req[r].pc # "answered"
      BY <2>5 DEF Reserved, AllCharged
    <3>2. LeftBy(r) = 0
      BY <2>5, <3>1 DEF LeftBy
    <3> QED BY <2>1, <2>2, <2>3, <3>1, <3>2
  <2> QED BY <2>4, <2>5
<1> HIDE DEF lefts
<1>2. /\ SumOver(BookedDays, Request) = SumOver(lefts, Request)
      /\ SumOver(BookedMonths, Request) = SumOver(lefts, Request)
  BY <1>1, SumCongruence, BudgetSets
<1> QED BY <1>2 DEF lefts, BooksInv, BooksBalance

(* The books close, however requests, Redis' answers and midnights interleave: under a budget that
   stands, when all requests have ended, both counters hold what the answered ones used and what the
   others left reserved, each exactly once. *)
THEOREM BudgetBooksClose == BudgetSpec => []BooksClose
<1>1. BudgetInit => BooksInv /\ AllCharged
  <2>1. BudgetInit => AllCharged
    BY DEF BudgetInit, AllCharged
  <2> QED BY <2>1, BooksStart
<1>2. BooksInv /\ [BudgetNext]_budgetVars => BooksInv'
  BY BudgetTypes, BooksStep DEF BooksInv
<1>3. BooksInv /\ AllCharged /\ [BudgetNext]_budgetVars => AllCharged'
  BY ChargedStep DEF BooksInv
<1> QED BY <1>1, <1>2, <1>3, BooksEnd, PTL DEF BudgetSpec

(***************************************************************************)
(* Budget: what requests running at once have reserved.                     *)
(***************************************************************************)

(* What a request holds of a day is a natural number. *)
LEMMA HeldType ==
  ASSUME NEW q \in BudgetRequests, NEW d PROVE Held(q, d) \in Nat
<1>1. q.est \in Nat /\ q.used \in Nat
  BY DEF BudgetRequests
<1>2. q.used < q.est => q.est - q.used \in Nat
  BY <1>1
<1> QED BY <1>1, <1>2 DEF Held

(* What is held of a day changes with the request that moves. *)
LEMMA HeldChange ==
  ASSUME NEW R \in [Request -> BudgetRequests], NEW S \in [Request -> BudgetRequests], NEW r \in Request, NEW d,
         \A x \in Request \ {r} : S[x] = R[x]
  PROVE  HeldOn(R, d) \in Int /\ HeldOn(S, d) = HeldOn(R, d) + (Held(S[r], d) - Held(R[r], d))
<1> DEFINE e == [x \in Request |-> Held(R[x], d)]
           f == [x \in Request |-> Held(S[x], d)]
<1>1. /\ \A x \in Request : e[x] \in Int /\ f[x] \in Int
      /\ \A x \in Request \ {r} : e[x] = f[x]
      /\ e[r] = Held(R[r], d) /\ f[r] = Held(S[r], d)
  <2>1. \A x \in Request : R[x] \in BudgetRequests /\ S[x] \in BudgetRequests
    OBVIOUS
  <2>2. \A x \in Request : Held(R[x], d) \in Nat /\ Held(S[x], d) \in Nat
    BY <2>1, HeldType
  <2> QED BY <2>2
<1>2. HeldOn(R, d) = SumOver(e, Request) /\ HeldOn(S, d) = SumOver(f, Request)
  BY DEF HeldOn
<1> HIDE DEF e, f
<1>3. SumOver(f, Request) = SumOver(e, Request) + (f[r] - e[r])
  BY <1>1, SumChange, BudgetSets
<1>4. SumOver(e, Request) \in Int
  BY <1>1, SumType, BudgetSets
<1> QED BY <1>1, <1>2, <1>3, <1>4

(* Requests that fly no higher still fit. *)
NoHigher(R, S, limit, d) ==
  \A x \in Flying(S, d) : /\ x \in Flying(R, d) /\ S[x].est = R[x].est
                          /\ Ceiling(R[x], limit) <= Ceiling(S[x], limit)

(* The estimates of some requests add up to a natural number. *)
LEMMA EstSum ==
  ASSUME NEW R \in [Request -> BudgetRequests], NEW T \in SUBSET Request
  PROVE  IsFiniteSet(T) /\ SumOver(Ests(R), T) \in Nat
<1>1. IsFiniteSet(T)
  BY FS_Subset, BudgetSets
<1>2. \A x \in T : Ests(R)[x] \in Nat
  BY DEF Ests, BudgetRequests
<1> QED BY <1>1, <1>2, SumNat

(* What a request may reach is a number. *)
LEMMA CeilingType ==
  ASSUME NEW q \in BudgetRequests, NEW limit \in Int PROVE Ceiling(q, limit) \in Int
BY DEF Ceiling, BudgetRequests

(* Requests that fly no higher still fit, with as much returned or more. *)
LEMMA FitKept ==
  ASSUME NEW R \in [Request -> BudgetRequests], NEW S \in [Request -> BudgetRequests], NEW d,
         NEW limit \in Int, NEW extra \in Nat, NEW more \in Nat, extra <= more,
         FitOn(R, limit, extra, d), NoHigher(R, S, limit, d)
  PROVE  FitOn(S, limit, more, d)
<1> SUFFICES ASSUME NEW T \in SUBSET Flying(S, d), T # {}
             PROVE  \E x \in T : SumOver(Ests(S), T) <= Ceiling(S[x], limit) + more
  BY DEF FitOn
<1>1. T \in SUBSET Flying(R, d) /\ T \in SUBSET Request
  BY DEF NoHigher, Flying
<1>2. PICK x \in T : SumOver(Ests(R), T) <= Ceiling(R[x], limit) + extra
  BY <1>1 DEF FitOn
<1>3. SumOver(Ests(S), T) = SumOver(Ests(R), T)
  <2>1. \A y \in T : Ests(S)[y] = Ests(R)[y]
    BY <1>1 DEF Ests, NoHigher
  <2>2. IsFiniteSet(T)
    BY <1>1, EstSum
  <2> QED BY <2>1, <2>2, SumCongruence
<1>4. PICK low \in Int, high \in Int, sum \in Nat :
        low = Ceiling(R[x], limit) /\ high = Ceiling(S[x], limit) /\ sum = SumOver(Ests(R), T)
  BY <1>1, CeilingType, EstSum
<1>5. low <= high /\ sum <= low + extra
  BY <1>2, <1>4 DEF NoHigher
<1>6. sum <= high + more
  BY <1>5
<1> QED BY <1>3, <1>4, <1>6

(* Through a third number. *)
LEMMA AtMost ==
  ASSUME NEW a \in Int, NEW b \in Int, NEW c \in Int, NEW more \in Int, a <= b, b <= c + more
  PROVE  a <= c + more
OBVIOUS

(* A request that has seen the counter with its charge on it covers all that fly with it. *)
LEMMA FitAdds ==
  ASSUME NEW R \in [Request -> BudgetRequests], NEW q \in BudgetRequests, NEW r \in Request, NEW d,
         NEW limit \in Int, NEW extra \in Nat, FitOn(R, limit, extra, d),
         NEW S, S = [R EXCEPT ![r] = q],
         q.pc = "charge_month", InFlight(q, d) => HeldOn(S, d) <= q.seen + extra
  PROVE  FitOn(S, limit, extra, d)
<1> SUFFICES ASSUME NEW T \in SUBSET Flying(S, d), T # {}
             PROVE  \E x \in T : SumOver(Ests(S), T) <= Ceiling(S[x], limit) + extra
  BY DEF FitOn
<1>s. S \in [Request -> BudgetRequests] /\ T \in SUBSET Request /\ S[r] = q
  BY DEF Flying
<1>1. CASE r \in T
  <2>1. InFlight(q, d)
    BY <1>1, <1>s DEF Flying
  <2> DEFINE held == [x \in Request |-> Held(S[x], d)]
  <2>2. /\ \A x \in Request : held[x] \in Nat
        /\ \A x \in T : held[x] = Ests(S)[x]
    <3>1. \A x \in Request : S[x] \in BudgetRequests
      BY <1>s
    <3>2. \A x \in T : InFlight(S[x], d)
      BY DEF Flying
    <3> QED BY <1>s, <3>1, <3>2, HeldType DEF Held, Ests
  <2>3. HeldOn(S, d) = SumOver(held, Request)
    BY DEF HeldOn
  <2> HIDE DEF held
  <2>4. SumOver(held, T) \in Nat /\ SumOver(held, Request) \in Nat /\ SumOver(held, T) <= SumOver(held, Request)
    BY <1>s, <2>2, SumSubset, BudgetSets
  <2>5. SumOver(held, T) = SumOver(Ests(S), T)
    BY <1>s, <2>2, SumCongruence, EstSum
  <2>6. Ceiling(S[r], limit) = q.seen /\ q.seen \in Int
    BY <1>s DEF Ceiling, BudgetRequests
  <2>7. SumOver(Ests(S), T) <= Ceiling(S[r], limit) + extra
    <3>1. PICK part \in Nat, whole \in Nat, top \in Int :
            part = SumOver(held, T) /\ whole = SumOver(held, Request) /\ top = q.seen
      BY <2>4, <2>6
    <3>2. part <= whole /\ whole <= top + extra
      BY <2>1, <2>3, <2>4, <3>1
    <3>3. part <= top + extra
      BY <3>2, AtMost
    <3> QED BY <2>5, <2>6, <3>1, <3>3
  <2> QED BY <1>1, <2>7
<1>2. CASE r \notin T
  <2>1. T \in SUBSET Flying(R, d) /\ \A x \in T : S[x] = R[x]
    BY <1>2, <1>s DEF Flying
  <2>2. PICK x \in T : SumOver(Ests(R), T) <= Ceiling(R[x], limit) + extra
    BY <2>1 DEF FitOn
  <2>3. SumOver(Ests(S), T) = SumOver(Ests(R), T)
    <3>1. \A y \in T : Ests(S)[y] = Ests(R)[y]
      BY <1>s, <2>1 DEF Ests
    <3> QED BY <1>s, <3>1, SumCongruence, EstSum
  <2> QED BY <2>1, <2>2, <2>3
<1> QED BY <1>1, <1>2

(* The request that moves is judged by the budget in force, and takes from no day more than it held. *)
JudgedBy(q, b) ==
  /\ q.pc \in {"charge_day", "charge_month", "resolve", "settle_day"} => q.row = b
  /\ q.pc \in {"resolve", "settle_day"} => q.charged

Balanced(p, q) ==
  \A d \in Day : Held(q, d) - Held(p, d) <= (daily'[d] + returned'[d]) - (daily[d] + returned[d])

ReservationMoves(r, q) ==
  /\ req' = [req EXCEPT ![r] = q] /\ q.pc # "new"
  /\ budget' = budget
  /\ UnderOneBudget' => UnderOneBudget /\ JudgedBy(q, budget) /\ Balanced(req[r], q)

(* A step that books what it comes to hold keeps the rows current and the counter above what is held. *)
LEMMA ReservationKeeps ==
  ASSUME ReservedInv, BudgetTypeOK', NEW r \in Request, NEW q \in BudgetRequests, ReservationMoves(r, q)
  PROVE  RowsCurrent' /\ NothingYet' /\ CounterHolds'
<1>1. req \in [Request -> BudgetRequests] /\ req' \in [Request -> BudgetRequests]
      /\ req' = [req EXCEPT ![r] = q] /\ req'[r] = q
  BY DEF ReservedInv, BudgetTypeOK, ReservationMoves
<1>2. RowsCurrent'
  <2> SUFFICES ASSUME UnderOneBudget', NEW x \in Request
               PROVE  JudgedBy(req'[x], budget')
    BY DEF RowsCurrent, JudgedBy
  <2>1. UnderOneBudget /\ budget' = budget /\ JudgedBy(q, budget)
    BY DEF ReservationMoves
  <2>2. JudgedBy(req[x], budget)
    BY <2>1 DEF ReservedInv, RowsCurrent, JudgedBy
  <2> QED BY <1>1, <2>1, <2>2
<1>3. NothingYet'
  BY <1>1 DEF NothingYet, ReservationMoves
<1>4. CounterHolds'
  <2> SUFFICES ASSUME UnderOneBudget', NEW d \in Day
               PROVE  HeldOn(req', d) <= daily'[d] + returned'[d]
    BY DEF CounterHolds
  <2>1. UnderOneBudget /\ Balanced(req[r], q)
    BY DEF ReservationMoves
  <2>2. HeldOn(req, d) <= daily[d] + returned[d]
    BY <2>1 DEF ReservedInv, CounterHolds
  <2>3. HeldOn(req, d) \in Int /\ HeldOn(req', d) = HeldOn(req, d) + (Held(q, d) - Held(req[r], d))
    <3>1. \A x \in Request \ {r} : req'[x] = req[x]
      BY <1>1
    <3>2. PICK S \in [Request -> BudgetRequests] : S = req'
      BY <1>1
    <3>3. \A x \in Request \ {r} : S[x] = req[x]
      BY <3>1, <3>2
    <3>4. HeldOn(req, d) \in Int /\ HeldOn(S, d) = HeldOn(req, d) + (Held(S[r], d) - Held(req[r], d))
      BY <1>1, <3>3, HeldChange
    <3>5. S[r] = q
      BY <1>1, <3>2
    <3> QED BY <3>2, <3>4, <3>5
  <2>4. Held(q, d) - Held(req[r], d) <= (daily'[d] + returned'[d]) - (daily[d] + returned[d])
    BY <2>1 DEF Balanced
  <2>5. PICK sum \in Int, hq \in Nat, hp \in Nat, d0 \in Int, d1 \in Int, r0 \in Nat, r1 \in Nat :
          /\ sum = HeldOn(req, d) /\ hq = Held(q, d) /\ hp = Held(req[r], d)
          /\ d0 = daily[d] /\ d1 = daily'[d] /\ r0 = returned[d] /\ r1 = returned'[d]
    <3>1. req[r] \in BudgetRequests
      BY <1>1
    <3>2. Held(q, d) \in Nat /\ Held(req[r], d) \in Nat
      BY <3>1, HeldType
    <3>3. daily[d] \in Int /\ daily'[d] \in Int /\ returned[d] \in Nat /\ returned'[d] \in Nat
      BY DEF ReservedInv, BudgetTypeOK
    <3> QED BY <2>3, <3>2, <3>3
  <2>6. sum + (hq - hp) <= d1 + r1
    <3>1. sum <= d0 + r0 /\ hq - hp <= (d1 + r1) - (d0 + r0)
      BY <2>2, <2>4, <2>5
    <3> QED BY <3>1
  <2> QED BY <2>3, <2>5, <2>6
<1> QED BY <1>2, <1>3, <1>4

(* The requests that fly still fit when the one that moves flies no higher and nothing is taken back. *)
FliesNoHigher(p, q, limit) ==
  \A d \in Day : /\ returned[d] <= returned'[d]
                 /\ InFlight(q, d) => InFlight(p, d) /\ q.est = p.est /\ Ceiling(p, limit) <= Ceiling(q, limit)

(* A step after which nobody flies higher leaves the requests in flight within the limit. *)
LEMMA LowKeeps ==
  ASSUME ReservedInv, BudgetTypeOK', NEW r \in Request, NEW q \in BudgetRequests, ReservationMoves(r, q),
         UnderOneBudget' /\ budget.daily # NoLimit /\ budget.behavior = "block"
           => FliesNoHigher(req[r], q, budget.daily)
  PROVE  LastCovers'
<1> SUFFICES ASSUME UnderOneBudget', budget'.daily # NoLimit, budget'.behavior = "block", NEW d \in Day
             PROVE  FitOn(req', budget'.daily, returned'[d], d)
  BY DEF LastCovers
<1>1. budget' = budget /\ UnderOneBudget /\ budget \in Rows
  BY DEF ReservationMoves, UnderOneBudget, ReservedInv, BudgetTypeOK
<1>2. budget.daily \in Int /\ FitOn(req, budget.daily, returned[d], d) /\ FliesNoHigher(req[r], q, budget.daily)
  BY <1>1, BudgetAssumption DEF ReservedInv, LastCovers, NoLimit
<1>3. req \in [Request -> BudgetRequests] /\ req' \in [Request -> BudgetRequests] /\ req' = [req EXCEPT ![r] = q]
      /\ returned[d] \in Nat /\ returned'[d] \in Nat /\ returned[d] <= returned'[d]
  BY <1>2 DEF ReservedInv, BudgetTypeOK, ReservationMoves, FliesNoHigher
<1>4. NoHigher(req, req', budget.daily, d)
  <2> SUFFICES ASSUME NEW x \in Flying(req', d)
               PROVE  /\ x \in Flying(req, d) /\ req'[x].est = req[x].est
                      /\ Ceiling(req[x], budget.daily) <= Ceiling(req'[x], budget.daily)
    BY DEF NoHigher
  <2>1. x \in Request /\ InFlight(req'[x], d)
    BY DEF Flying
  <2>2. CASE x = r
    BY <1>2, <1>3, <2>1, <2>2 DEF FliesNoHigher, Flying
  <2>3. CASE x # r
    <3>1. req'[x] = req[x]
      BY <1>3, <2>1, <2>3
    <3>2. Ceiling(req[x], budget.daily) \in Int
      BY <1>2, <1>3, <2>1, CeilingType
    <3> QED BY <2>1, <3>1, <3>2 DEF Flying
  <2> QED BY <2>2, <2>3
<1>5. FitOn(req', budget.daily, returned'[d], d)
  BY <1>2, <1>3, <1>4, FitKept
<1> QED BY <1>1, <1>5

(* A request that neither flies nor settles after the step takes nothing. *)
Grounded(q) == q.pc \in {"budget", "charge_day", "settle_month"} \cup Ended

(* A request that holds nothing after its step disturbs no reservation. *)
LEMMA GroundedKeeps ==
  ASSUME ReservedInv, BudgetTypeOK', NEW r \in Request, NEW q \in BudgetRequests,
         req' = [req EXCEPT ![r] = q], Grounded(q), q.pc = "charge_day" => q.row = budget,
         budget' = budget, daily' = daily, returned' = returned, calm' => calm
  PROVE  RowsCurrent' /\ NothingYet' /\ CounterHolds' /\ LastCovers'
<1>1. \A d : ~InFlight(q, d) /\ Held(q, d) = 0
  BY DEF Grounded, Ended, InFlight, Held
<1>2. JudgedBy(q, budget) /\ q.pc # "new"
  BY DEF Grounded, Ended, JudgedBy
<1>3. \A d \in Day : Held(req[r], d) \in Nat /\ daily[d] \in Int /\ returned[d] \in Nat
  BY HeldType DEF ReservedInv, BudgetTypeOK
<1>4. Balanced(req[r], q) /\ FliesNoHigher(req[r], q, budget.daily)
  <2>1. ASSUME NEW d \in Day
        PROVE  Held(q, d) - Held(req[r], d) <= (daily'[d] + returned'[d]) - (daily[d] + returned[d])
    <3>1. PICK hp \in Nat, d0 \in Int, r0 \in Nat : hp = Held(req[r], d) /\ d0 = daily[d] /\ r0 = returned[d]
      BY <1>3
    <3>2. 0 - hp <= (d0 + r0) - (d0 + r0)
      OBVIOUS
    <3> QED BY <1>1, <3>1, <3>2
  <2>2. FliesNoHigher(req[r], q, budget.daily)
    BY <1>1, <1>3 DEF FliesNoHigher
  <2> QED BY <2>1, <2>2 DEF Balanced
<1>5. UnderOneBudget' => UnderOneBudget
  BY DEF UnderOneBudget
<1>6. ReservationMoves(r, q)
  BY <1>2, <1>4, <1>5 DEF ReservationMoves
<1> QED BY <1>4, <1>6, ReservationKeeps, LowKeeps

(* What the budget check decides, as far as the request's reservation goes. *)
LEMMA GatePasses ==
  ASSUME BudgetTypeOK, NEW r \in Request, NEW exceeded \in BOOLEAN
  PROVE  LET gate == [BudgetGate(r, exceeded) EXCEPT !.charged = TRUE]
         IN gate.pc = "resolve" => /\ gate.row = req[r].row /\ gate.at = req[r].at
                                   /\ exceeded => req[r].row.behavior # "block"
<1>1. req[r] \in BudgetRequests
  BY DEF BudgetTypeOK
<1> DEFINE g == BudgetGate(r, exceeded)
<1>2. g \in BudgetRequests
      /\ (g.pc = "resolve" => /\ g.row = req[r].row /\ g.at = req[r].at
                              /\ exceeded => req[r].row.behavior # "block")
  <2> DEFINE warns == req[r].row.behavior = "warn"
  <2>0. g \in BudgetRequests
    BY GateType
  <2> HIDE DEF warns
  <2> QED BY <1>1, <2>0 DEF BudgetGate, BudgetRequests, warns
<1> HIDE DEF g
<1>3. LET gate == [g EXCEPT !.charged = TRUE]
      IN gate.pc = "resolve" => /\ gate.row = req[r].row /\ gate.at = req[r].at
                                /\ exceeded => req[r].row.behavior # "block"
  BY <1>2 DEF BudgetRequests
<1> QED BY <1>3 DEF g

(* The reservations are kept within bounds by every step. *)
LEMMA ReservedStep ==
  ReservedInv /\ [BudgetNext]_budgetVars => RowsCurrent' /\ NothingYet' /\ CounterHolds' /\ LastCovers'
<1> SUFFICES ASSUME ReservedInv, [BudgetNext]_budgetVars
             PROVE  RowsCurrent' /\ NothingYet' /\ CounterHolds' /\ LastCovers'
  OBVIOUS
<1> DEFINE Goal == RowsCurrent' /\ NothingYet' /\ CounterHolds' /\ LastCovers'
<1> HIDE DEF Goal
<1>t. BudgetTypeOK /\ BudgetTypeOK'
  BY BudgetTypes DEF ReservedInv
<1>s. \A r \in Request : /\ req[r] \in BudgetRequests /\ req[r].at \in Day /\ MonthOf(req[r].at) \in Month
                         /\ req[r].est \in Nat /\ req[r].used \in Nat /\ Shaped(req[r])
  BY <1>t, BudgetSets DEF BudgetTypeOK, BudgetRequests, ReservedInv, ChargeShape, Shaped
<1>g. ASSUME NEW r \in Request, NEW new \in BudgetRequests, Step(r, new), Grounded(new),
             new.pc = "charge_day" => new.row = budget,
             budget' = budget, daily' = daily, returned' = returned, calm' => calm
      PROVE  Goal
  <2>1. PICK q \in BudgetRequests : req' = [req EXCEPT ![r] = q] /\ Becomes(q, new)
    BY <1>g, StepIs
  <2>2. Grounded(q) /\ (q.pc = "charge_day" => q.row = budget)
    BY <1>g, <2>1 DEF Grounded, Becomes, Ended
  <2> QED BY <1>g, <1>t, <2>1, <2>2, GroundedKeeps DEF Goal
<1>1. CASE PutBudget
  <2>1. req' = req /\ daily' = daily /\ returned' = returned
    BY <1>1 DEF PutBudget
  <2>2. NothingYet'
    BY <2>1 DEF ReservedInv, NothingYet
  <2>3. CASE ~calm'
    <3>1. ~UnderOneBudget'
      BY <2>3 DEF UnderOneBudget
    <3> QED BY <2>2, <3>1 DEF RowsCurrent, CounterHolds, LastCovers
  <2>4. CASE calm'
    <3>1. \A r \in Request : req[r].pc = "new"
      BY <1>1, <2>4 DEF PutBudget
    <3>2. \A d \in Day : daily[d] = 0 /\ returned[d] = 0
      BY <3>1 DEF ReservedInv, NothingYet
    <3>3. RowsCurrent'
      BY <2>1, <3>1 DEF RowsCurrent
    <3>4. ASSUME NEW d \in Day PROVE Flying(req', d) = {} /\ HeldOn(req', d) = 0
      <4>1. \A r \in Request : ~InFlight(req[r], d) /\ Held(req[r], d) = 0
        BY <3>1 DEF InFlight, Held
      <4> DEFINE f == [r \in Request |-> Held(req[r], d)]
      <4>2. \A r \in Request : f[r] = 0
        BY <4>1
      <4>3. HeldOn(req, d) = SumOver(f, Request)
        BY DEF HeldOn
      <4> HIDE DEF f
      <4>4. SumOver(f, Request) = 0
        BY <4>2, SumZero, BudgetSets
      <4>5. Flying(req, d) = {}
        BY <4>1 DEF Flying
      <4> QED BY <2>1, <4>3, <4>4, <4>5
    <3>5. CounterHolds'
      BY <2>1, <3>2, <3>4 DEF CounterHolds
    <3>6. LastCovers'
      BY <3>4 DEF LastCovers, FitOn
    <3> QED BY <2>2, <3>3, <3>5, <3>6
  <2> QED BY <2>3, <2>4
<1>2. CASE Midnight \/ UNCHANGED budgetVars
  <2>1. req' = req /\ daily' = daily /\ returned' = returned /\ budget' = budget /\ calm' = calm
    BY <1>2 DEF Midnight, budgetVars
  <2> QED BY <2>1 DEF ReservedInv, RowsCurrent, NothingYet, CounterHolds, LastCovers, UnderOneBudget
<1>3. ASSUME NEW r \in Request, Begin(r) PROVE Goal
  <2>1. PICK est \in Sizes : Step(r, [req[r] EXCEPT !.pc = "budget", !.est = est])
    BY <1>3 DEF Begin
  <2> DEFINE new == [req[r] EXCEPT !.pc = "budget", !.est = est]
  <2>2. new \in BudgetRequests /\ new.pc = "budget"
    BY <1>s, BudgetAssumption DEF BudgetRequests, BudgetStages
  <2> HIDE DEF new
  <2>3. Step(r, new) /\ Grounded(new)
    BY <2>1, <2>2 DEF new, Grounded
  <2>4. budget' = budget /\ daily' = daily /\ returned' = returned /\ calm' = calm
    BY <1>3 DEF Begin
  <2> QED BY <1>g, <2>2, <2>3, <2>4
<1>4. ASSUME NEW r \in Request, ReadBudget(r) PROVE Goal
  <2>0. budget' = budget /\ daily' = daily /\ returned' = returned /\ calm' = calm
    BY <1>4 DEF ReadBudget
  <2> DEFINE n1 == [req[r] EXCEPT !.pc = "resolve"]
             n2 == [req[r] EXCEPT !.pc = "charge_day", !.row = Get, !.at = today]
             n3 == [req[r] EXCEPT !.pc = "failed"]
  <2>1. /\ n1 \in BudgetRequests /\ n1.pc = "resolve"
        /\ n2 \in BudgetRequests /\ n2.pc = "charge_day" /\ n2.row = budget
        /\ n3 \in BudgetRequests /\ n3.pc = "failed"
    BY <1>s, <1>t DEF BudgetRequests, BudgetStages, Ended, BudgetTypeOK, Get
  <2>2. (budget = NoBudget /\ Step(r, n1)) \/ Step(r, n2) \/ Step(r, n3)
    BY <1>4 DEF ReadBudget, Get
  <2> HIDE DEF n1, n2, n3
  <2>3. CASE Step(r, n2)
    BY <1>g, <2>0, <2>1, <2>3 DEF Grounded
  <2>4. CASE Step(r, n3)
    BY <1>g, <2>0, <2>1, <2>4 DEF Grounded, Ended
  <2>5. CASE budget = NoBudget /\ Step(r, n1)
    <3>1. PICK q \in BudgetRequests : req' = [req EXCEPT ![r] = q] /\ Becomes(q, n1)
      BY <2>1, <2>5, StepIs
    <3>2. ~UnderOneBudget'
      BY <2>0, <2>5 DEF UnderOneBudget
    <3>3. req'[r].pc = "resolve"
      BY <1>t, <2>1, <3>1 DEF Becomes, BudgetTypeOK
    <3> QED BY <3>2, <3>3 DEF Goal, RowsCurrent, NothingYet, CounterHolds, LastCovers
  <2> QED BY <2>2, <2>3, <2>4, <2>5
<1>5. ASSUME NEW r \in Request, Fails(r) \/ Probe(r) PROVE Goal
  <2> DEFINE new == [req[r] EXCEPT !.pc = "failed"]
  <2>1. new \in BudgetRequests /\ new.pc = "failed"
    BY <1>s DEF BudgetRequests, BudgetStages, Ended
  <2>2. Step(r, new) /\ budget' = budget /\ daily' = daily /\ returned' = returned /\ calm' = calm
    BY <1>5 DEF Fails, Probe
  <2> HIDE DEF new
  <2> QED BY <1>g, <2>1, <2>2 DEF Grounded, Ended
<1>6. ASSUME NEW r \in Request, Dropped(r) PROVE Goal
  <2> DEFINE new == [req[r] EXCEPT !.pc = "dropped"]
  <2>1. new \in BudgetRequests /\ new.pc = "dropped"
    BY <1>s DEF BudgetRequests, BudgetStages, Ended
  <2>2. Step(r, new) /\ budget' = budget /\ daily' = daily /\ returned' = returned /\ (calm' => calm)
    BY <1>6 DEF Dropped
  <2> HIDE DEF new
  <2> QED BY <1>g, <2>1, <2>2 DEF Grounded, Ended
<1>7. ASSUME NEW r \in Request, SettleMonthly(r) PROVE Goal
  <2> DEFINE new == [req[r] EXCEPT !.pc = "answered"]
  <2>1. new \in BudgetRequests /\ new.pc = "answered"
    BY <1>s DEF BudgetRequests, BudgetStages, Ended
  <2>2. Step(r, new) /\ budget' = budget /\ daily' = daily /\ returned' = returned /\ (calm' => calm)
    BY <1>7 DEF SettleMonthly
  <2> HIDE DEF new
  <2> QED BY <1>g, <2>1, <2>2 DEF Grounded, Ended
<1>8. ASSUME NEW r \in Request, ChargeDaily(r) PROVE Goal
  <2>1. PICK reply \in Replies :
          /\ daily' = IncrBy(daily, req[r].at, req[r].est, reply)
          /\ calm' = (calm /\ reply = "ok")
          /\ Step(r, IF reply = "ok"
                     THEN [req[r] EXCEPT !.pc = "charge_month", !.seen = daily'[req[r].at]]
                     ELSE [req[r] EXCEPT !.pc = "resolve"])
    BY <1>8 DEF ChargeDaily
  <2> DEFINE new == IF reply = "ok" THEN [req[r] EXCEPT !.pc = "charge_month", !.seen = daily'[req[r].at]]
                    ELSE [req[r] EXCEPT !.pc = "resolve"]
  <2>2. /\ new \in BudgetRequests /\ new.pc = IF reply = "ok" THEN "charge_month" ELSE "resolve"
        /\ new.row = req[r].row /\ new.est = req[r].est /\ new.at = req[r].at
        /\ reply = "ok" => new.seen = daily'[req[r].at]
    <3>1. daily'[req[r].at] \in Int
      BY <1>t, <1>s DEF BudgetTypeOK
    <3> QED BY <1>s, <3>1 DEF BudgetRequests, BudgetStages
  <2> HIDE DEF new
  <2>3. PICK q \in BudgetRequests : req' = [req EXCEPT ![r] = q] /\ Becomes(q, new)
    BY <2>1, <2>2, StepIs DEF new
  <2>4. q = new /\ req[r].pc = "charge_day" /\ budget' = budget /\ returned' = returned
    BY <1>8, <2>2, <2>3 DEF Becomes, Ended, ChargeDaily
  <2>5. UnderOneBudget' => UnderOneBudget /\ reply = "ok"
    BY <2>1, <2>4 DEF UnderOneBudget
  <2>6. ASSUME UnderOneBudget' PROVE JudgedBy(q, budget) /\ Balanced(req[r], q)
    <3>1. JudgedBy(q, budget)
      BY <2>2, <2>4, <2>5, <2>6 DEF JudgedBy, ReservedInv, RowsCurrent
    <3>2. ASSUME NEW d \in Day
          PROVE  Held(q, d) - Held(req[r], d) <= (daily'[d] + returned'[d]) - (daily[d] + returned[d])
      <4>1. Held(req[r], d) = 0 /\ Held(q, d) = IF d = req[r].at THEN req[r].est ELSE 0
        BY <2>2, <2>4, <2>5, <2>6 DEF Held, InFlight
      <4>2. daily'[d] = daily[d] + (IF d = req[r].at THEN req[r].est ELSE 0)
        BY <1>s, <1>t, <2>1, <2>5, <2>6 DEF IncrBy, BudgetTypeOK
      <4>3. daily[d] \in Int /\ returned[d] \in Nat
        BY <1>t DEF BudgetTypeOK
      <4> QED BY <1>s, <2>4, <4>1, <4>2, <4>3
    <3> QED BY <3>1, <3>2 DEF Balanced
  <2>7. ReservationMoves(r, q)
    BY <2>2, <2>3, <2>4, <2>5, <2>6 DEF ReservationMoves
  <2>8. RowsCurrent' /\ NothingYet' /\ CounterHolds'
    BY <1>t, <2>7, ReservationKeeps
  <2>9. LastCovers'
    <3> SUFFICES ASSUME UnderOneBudget', budget'.daily # NoLimit, budget'.behavior = "block", NEW d \in Day
                 PROVE  FitOn(req', budget'.daily, returned'[d], d)
      BY DEF LastCovers
    <3>1. UnderOneBudget /\ budget \in Rows /\ reply = "ok"
      BY <1>t, <2>5 DEF UnderOneBudget, BudgetTypeOK
    <3>2. budget.daily \in Int /\ FitOn(req, budget.daily, returned[d], d) /\ returned[d] \in Nat
      BY <1>t, <2>4, <3>1, BudgetAssumption DEF ReservedInv, LastCovers, NoLimit, BudgetTypeOK
    <3>3. InFlight(q, d) => HeldOn(req', d) <= q.seen + returned[d]
      <4>1. HeldOn(req', d) <= daily'[d] + returned'[d]
        BY <2>8 DEF CounterHolds
      <4>2. InFlight(q, d) => q.seen = daily'[d]
        BY <2>2, <2>4, <3>1 DEF InFlight
      <4> QED BY <2>4, <4>1, <4>2
    <3>4. PICK S : S = req'
      OBVIOUS
    <3>5. S = [req EXCEPT ![r] = q] /\ (InFlight(q, d) => HeldOn(S, d) <= q.seen + returned[d])
      BY <2>3, <3>3, <3>4
    <3>6. req \in [Request -> BudgetRequests] /\ q.pc = "charge_month"
      BY <1>t, <2>2, <2>4, <3>1 DEF BudgetTypeOK
    <3>7. FitOn(S, budget.daily, returned[d], d)
      BY <3>2, <3>5, <3>6, FitAdds
    <3> QED BY <2>4, <3>4, <3>7
  <2> QED BY <2>8, <2>9 DEF Goal
<1>9. ASSUME NEW r \in Request, ChargeMonthly(r) PROVE Goal
  <2> DEFINE month == MonthOf(req[r].at)
             over == Exceeded(req[r].row, req[r].seen, monthly'[month])
             gate == [BudgetGate(r, over) EXCEPT !.charged = TRUE]
  <2>1. PICK reply \in Replies :
          /\ calm' = (calm /\ reply = "ok")
          /\ Step(r, IF reply = "ok" THEN gate ELSE [req[r] EXCEPT !.pc = "resolve"])
    BY <1>9 DEF ChargeMonthly
  <2>2. /\ gate \in BudgetRequests /\ gate.charged = TRUE /\ gate.est = req[r].est
        /\ gate.pc \in {"resolve", "blocked"}
        /\ gate.pc = "resolve" => /\ gate.row = req[r].row /\ gate.at = req[r].at
                                  /\ over => req[r].row.behavior # "block"
    <3>1. over \in BOOLEAN
      BY DEF Exceeded, Over
    <3> HIDE DEF over
    <3> QED BY <1>t, <3>1, GateType, GateKeeps, GatePasses
  <2>3. over \/ req[r].row.daily = NoLimit \/ ~(req[r].seen > req[r].row.daily)
    BY DEF Exceeded, Over
  <2> HIDE DEF gate, over
  <2> DEFINE new == IF reply = "ok" THEN gate ELSE [req[r] EXCEPT !.pc = "resolve"]
  <2>4. new \in BudgetRequests /\ new.pc \in {"resolve", "blocked"} /\ (reply = "ok" => new = gate)
    BY <1>s, <2>2 DEF BudgetRequests, BudgetStages
  <2> HIDE DEF new
  <2>5. PICK q \in BudgetRequests : req' = [req EXCEPT ![r] = q] /\ Becomes(q, new)
    BY <2>1, <2>4, StepIs DEF new
  <2>6. req[r].pc = "charge_month" /\ budget' = budget /\ returned' = returned /\ daily' = daily
    BY <1>9 DEF ChargeMonthly
  <2>7. UnderOneBudget' => UnderOneBudget /\ reply = "ok"
    BY <2>1, <2>6 DEF UnderOneBudget
  <2>8. ASSUME UnderOneBudget'
        PROVE  /\ q.pc \in {"resolve", "blocked"} /\ req[r].row = budget /\ budget \in Rows
               /\ q.pc = "resolve" => /\ q.est = req[r].est /\ q.at = req[r].at /\ q.row = budget /\ q.charged
                                      /\ over => budget.behavior # "block"
    <3>1. req[r].row = budget /\ budget \in Rows
      BY <1>t, <2>6, <2>7, <2>8 DEF ReservedInv, RowsCurrent, UnderOneBudget, BudgetTypeOK
    <3>2. q.pc = gate.pc /\ (q.pc = "resolve" => q = gate)
      BY <2>4, <2>5, <2>7, <2>8 DEF Becomes, Ended
    <3> QED BY <2>2, <3>1, <3>2
  <2>9. ASSUME UnderOneBudget' PROVE JudgedBy(q, budget) /\ Balanced(req[r], q)
    <3>1. JudgedBy(q, budget)
      BY <2>8, <2>9 DEF JudgedBy
    <3>2. ASSUME NEW d \in Day
          PROVE  Held(q, d) - Held(req[r], d) <= (daily'[d] + returned'[d]) - (daily[d] + returned[d])
      <4>1. Held(req[r], d) = (IF d = req[r].at THEN req[r].est ELSE 0) /\ Held(q, d) \in {0, Held(req[r], d)}
        BY <2>6, <2>8, <2>9 DEF Held, InFlight
      <4>2. daily[d] \in Int /\ returned[d] \in Nat
        BY <1>t DEF BudgetTypeOK
      <4> QED BY <1>s, <2>6, <4>1, <4>2
    <3> QED BY <3>1, <3>2 DEF Balanced
  <2>10. ReservationMoves(r, q)
    <3>1. q.pc # "new"
      BY <2>4, <2>5 DEF Becomes
    <3> QED BY <2>5, <2>6, <2>7, <2>9, <3>1 DEF ReservationMoves
  <2>11. ASSUME UnderOneBudget', budget.daily # NoLimit, budget.behavior = "block"
         PROVE  FliesNoHigher(req[r], q, budget.daily)
    <3>1. budget.daily \in Int /\ req[r].seen \in Int
      BY <1>s, <2>8, <2>11, BudgetAssumption DEF NoLimit, BudgetRequests
    <3>2. q.pc = "resolve" => req[r].seen <= budget.daily
      BY <2>3, <2>8, <2>11, <3>1
    <3>3. \A d \in Day : returned[d] <= returned'[d]
      BY <1>t, <2>6 DEF BudgetTypeOK
    <3>4. \A d : InFlight(q, d) => /\ q.pc = "resolve" /\ InFlight(req[r], d) /\ q.est = req[r].est
                                   /\ Ceiling(req[r], budget.daily) <= Ceiling(q, budget.daily)
      BY <2>6, <2>8, <2>11, <3>2 DEF InFlight, Ceiling
    <3> QED BY <3>3, <3>4 DEF FliesNoHigher
  <2>12. LastCovers'
    BY <1>t, <2>10, <2>11, LowKeeps
  <2> QED BY <1>t, <2>10, <2>12, ReservationKeeps DEF Goal
<1>10. ASSUME NEW r \in Request, Answers(r) PROVE Goal
  <2>1. PICK used \in Sizes \cup {0} :
          /\ Step(r, [req[r] EXCEPT !.pc = IF used = req[r].est THEN "answered" ELSE "settle_day",
                                    !.used = used, !.at = today])
          /\ returned' = IF used < req[r].est /\ req[r].at # today
                         THEN [returned EXCEPT ![today] = @ + (req[r].est - used)] ELSE returned
    BY <1>10 DEF Answers
  <2> DEFINE new == [req[r] EXCEPT !.pc = IF used = req[r].est THEN "answered" ELSE "settle_day",
                                   !.used = used, !.at = today]
  <2>u. used \in Nat /\ today \in Day
    BY <1>t, BudgetAssumption DEF BudgetTypeOK
  <2>2. /\ new \in BudgetRequests /\ new.est = req[r].est /\ new.charged = req[r].charged /\ new.used = used
        /\ new.row = req[r].row /\ new.at = today
        /\ new.pc = IF used = req[r].est THEN "answered" ELSE "settle_day"
    BY <1>s, <2>u DEF BudgetRequests, BudgetStages, Ended
  <2> HIDE DEF new
  <2>3. PICK q \in BudgetRequests : req' = [req EXCEPT ![r] = q] /\ Becomes(q, new)
    BY <2>1, <2>2, StepIs DEF new
  <2>4. /\ req[r].pc = "resolve" /\ q.est = req[r].est /\ q.charged = req[r].charged /\ q.used = used
        /\ q.pc = IF used = req[r].est THEN "answered" ELSE "settle_day"
        /\ q.pc = "settle_day" => q.row = req[r].row /\ q.at = today
    BY <1>10, <2>2, <2>3 DEF Answers, Becomes, Ended
  <2>5. budget' = budget /\ daily' = daily /\ calm' = calm
    BY <1>10 DEF Answers
  <2>6. UnderOneBudget' => UnderOneBudget /\ req[r].row = budget /\ req[r].charged
    BY <2>4, <2>5 DEF UnderOneBudget, ReservedInv, RowsCurrent
  <2>7. \A d \in Day : returned[d] \in Nat /\ returned'[d] = returned[d] +
                         (IF used < req[r].est /\ req[r].at # today /\ d = today THEN req[r].est - used ELSE 0)
    <3>1. returned \in [Day -> Nat]
      BY <1>t DEF BudgetTypeOK
    <3>2. CASE used < req[r].est /\ req[r].at # today
      BY <2>1, <3>1, <3>2
    <3>3. CASE ~(used < req[r].est /\ req[r].at # today)
      BY <2>1, <3>1, <3>3
    <3> QED BY <3>2, <3>3
  <2>8. ASSUME UnderOneBudget' PROVE JudgedBy(q, budget) /\ Balanced(req[r], q)
    <3>1. JudgedBy(q, budget)
      BY <2>4, <2>6, <2>8 DEF JudgedBy
    <3>2. ASSUME NEW d \in Day
          PROVE  Held(q, d) - Held(req[r], d) <= (daily'[d] + returned'[d]) - (daily[d] + returned[d])
      <4>1. Held(req[r], d) = IF req[r].at = d THEN req[r].est ELSE 0
        BY <2>4, <2>6, <2>8 DEF Held, InFlight
      <4>2. Held(q, d) = IF used < req[r].est /\ d = today THEN req[r].est - used ELSE 0
        <5>1. ~InFlight(q, d)
          BY <2>4 DEF InFlight
        <5>2. used < req[r].est => q.pc = "settle_day"
          BY <1>s, <2>u, <2>4
        <5> QED BY <2>4, <5>1, <5>2 DEF Held
      <4>3. daily[d] \in Int
        BY <1>t DEF BudgetTypeOK
      <4>4. PICK hq \in Nat, hp \in Nat, d0 \in Int, r0 \in Nat, gain \in Nat :
              /\ hq = Held(q, d) /\ hp = Held(req[r], d) /\ d0 = daily[d] /\ r0 = returned[d]
              /\ returned'[d] = r0 + gain /\ hq <= hp + gain
        <5> DEFINE gain0 == IF used < req[r].est /\ req[r].at # today /\ d = today THEN req[r].est - used ELSE 0
        <5>1. gain0 \in Nat /\ Held(q, d) \in Nat /\ Held(req[r], d) \in Nat
          BY <1>s, <2>u, <4>1, <4>2
        <5>2. Held(q, d) <= Held(req[r], d) + gain0
          BY <1>s, <2>u, <4>1, <4>2
        <5>3. returned'[d] = returned[d] + gain0 /\ returned[d] \in Nat
          BY <2>7
        <5> HIDE DEF gain0
        <5> QED BY <4>3, <5>1, <5>2, <5>3
      <4>5. hq - hp <= (d0 + (r0 + gain)) - (d0 + r0)
        BY <4>4
      <4> QED BY <2>5, <4>4, <4>5
    <3> QED BY <3>1, <3>2 DEF Balanced
  <2>9. ReservationMoves(r, q)
    BY <2>3, <2>4, <2>5, <2>6, <2>8 DEF ReservationMoves
  <2>10. FliesNoHigher(req[r], q, budget.daily)
    <3>1. \A d \in Day : returned[d] <= returned'[d]
      BY <1>s, <2>u, <2>7
    <3>2. \A d : ~InFlight(q, d)
      BY <2>4 DEF InFlight
    <3> QED BY <3>1, <3>2 DEF FliesNoHigher
  <2> QED BY <1>t, <2>9, <2>10, ReservationKeeps, LowKeeps DEF Goal
<1>11. ASSUME NEW r \in Request, SettleDaily(r) PROVE Goal
  <2> DEFINE new == [req[r] EXCEPT !.pc = "settle_month"]
             delta == req[r].used - req[r].est
  <2>1. PICK reply \in Replies :
          daily' = IncrBy(daily, req[r].at, delta, reply) /\ calm' = (calm /\ reply # "error") /\ Step(r, new)
    BY <1>11 DEF SettleDaily
  <2>2. new \in BudgetRequests /\ new.pc = "settle_month"
    BY <1>s DEF BudgetRequests, BudgetStages
  <2> HIDE DEF new
  <2>3. PICK q \in BudgetRequests : req' = [req EXCEPT ![r] = q] /\ Becomes(q, new)
    BY <2>1, <2>2, StepIs
  <2>4. req[r].pc = "settle_day" /\ q.pc = "settle_month" /\ budget' = budget /\ returned' = returned
    BY <1>11, <2>2, <2>3 DEF SettleDaily, Becomes
  <2>5. UnderOneBudget' => UnderOneBudget /\ reply # "error"
    BY <2>1, <2>4 DEF UnderOneBudget
  <2>6. \A d : ~InFlight(q, d) /\ Held(q, d) = 0
    BY <2>4 DEF InFlight, Held
  <2>7. ASSUME UnderOneBudget' PROVE Balanced(req[r], q)
    <3> SUFFICES ASSUME NEW d \in Day
                 PROVE  Held(q, d) - Held(req[r], d) <= (daily'[d] + returned'[d]) - (daily[d] + returned[d])
      BY DEF Balanced
    <3>1. Held(req[r], d) = IF req[r].at = d /\ req[r].used < req[r].est THEN req[r].est - req[r].used ELSE 0
      BY <2>4 DEF Held, InFlight
    <3>2. daily'[d] = daily[d] + (IF req[r].at = d THEN req[r].used - req[r].est ELSE 0)
      BY <1>s, <1>t, <2>1, <2>5, <2>7 DEF IncrBy, BudgetTypeOK
    <3>3. daily[d] \in Int /\ returned[d] \in Nat
      BY <1>t DEF BudgetTypeOK
    <3>4. PICK est \in Nat, use \in Nat : est = req[r].est /\ use = req[r].used
      BY <1>s
    <3>5. CASE req[r].at = d
      BY <2>4, <2>6, <3>1, <3>2, <3>3, <3>4, <3>5
    <3>6. CASE req[r].at # d
      BY <2>4, <2>6, <3>1, <3>2, <3>3, <3>6
    <3> QED BY <3>5, <3>6
  <2>8. ReservationMoves(r, q)
    BY <2>3, <2>4, <2>5, <2>7 DEF ReservationMoves, JudgedBy
  <2>9. FliesNoHigher(req[r], q, budget.daily)
    BY <1>t, <2>4, <2>6 DEF FliesNoHigher, BudgetTypeOK
  <2> QED BY <1>t, <2>8, <2>9, ReservationKeeps, LowKeeps DEF Goal
<1> QED
  BY <1>1, <1>2, <1>3, <1>4, <1>5, <1>6, <1>7, <1>8, <1>9, <1>10, <1>11
     DEF Goal, BudgetNext, ChatCompletions, Completions, Embeddings

(* The reservations are in bounds at the start. *)
LEMMA ReservedStart == BudgetInit => ReservedInv
<1> SUFFICES ASSUME BudgetInit PROVE ReservedInv
  OBVIOUS
<1>1. BudgetTypeOK /\ ChargeShape
  BY BooksStart DEF BooksInv
<1>2. ~UnderOneBudget
  BY DEF BudgetInit, UnderOneBudget
<1>3. NothingYet
  BY DEF BudgetInit, NothingYet
<1> QED BY <1>1, <1>2, <1>3 DEF ReservedInv, RowsCurrent, CounterHolds, LastCovers

(* The invariant bounds what runs at once. *)
LEMMA ReservedEnd == ReservedInv => ReservationsFit
<1> SUFFICES ASSUME ReservedInv, NEW d \in Day, calm, budget # NoBudget, budget.daily # NoLimit
             PROVE  LET running == {r \in Request : /\ req[r].pc = "resolve" /\ req[r].charged /\ req[r].at = d
                                                    /\ req[r].row.behavior = "block"}
                    IN SumOver([r \in running |-> req[r].est], running) <= budget.daily + returned[d]
  BY DEF ReservationsFit
<1> DEFINE running == {r \in Request : /\ req[r].pc = "resolve" /\ req[r].charged /\ req[r].at = d
                                       /\ req[r].row.behavior = "block"}
           e == [r \in running |-> req[r].est]
<1>1. UnderOneBudget /\ budget.daily \in Nat /\ returned[d] \in Nat /\ req \in [Request -> BudgetRequests]
  BY BudgetAssumption DEF ReservedInv, BudgetTypeOK, UnderOneBudget
<1>2. IsFiniteSet(running) /\ running \in SUBSET Request
  BY FS_Subset, BudgetSets
<1>3. SumOver(e, running) = SumOver(Ests(req), running)
  <2>1. \A r \in running : e[r] = Ests(req)[r]
    BY DEF Ests
  <2> HIDE DEF e, running
  <2> QED BY <1>2, <2>1, SumCongruence
<1>4. CASE running = {}
  <2>1. SumOver(Ests(req), running) = 0
    BY <1>4, SumEmpty
  <2> QED BY <1>1, <1>3, <2>1
<1>5. CASE running # {}
  <2>1. budget.behavior = "block" /\ running \in SUBSET Flying(req, d)
    BY <1>1, <1>5 DEF ReservedInv, RowsCurrent, Flying, InFlight
  <2>2. FitOn(req, budget.daily, returned[d], d)
    BY <1>1, <2>1 DEF ReservedInv, LastCovers
  <2>3. PICK r \in running : SumOver(Ests(req), running) <= Ceiling(req[r], budget.daily) + returned[d]
    <3> HIDE DEF running
    <3> QED BY <1>5, <2>1, <2>2 DEF FitOn
  <2>4. Ceiling(req[r], budget.daily) = budget.daily
    BY DEF Ceiling
  <2> QED BY <1>3, <2>3, <2>4
<1> QED BY <1>4, <1>5

(* Any number of requests that a blocking budget lets in for a day at the same time, while their
   charges, answers and corrections interleave over several days, have reserved no more than the
   limit together, but for what requests charged on another day gave back on this one. *)
THEOREM BudgetReservationsFit == BudgetSpec => []ReservationsFit
<1>1. BudgetInit => ReservedInv
  BY ReservedStart
<1>2. ReservedInv /\ BooksInv /\ [BudgetNext]_budgetVars => ReservedInv'
  BY BudgetTypes, BooksStep, ReservedStep DEF ReservedInv
<1>3. BudgetInit => BooksInv
  BY BooksStart
<1>4. BooksInv /\ [BudgetNext]_budgetVars => BooksInv'
  BY BudgetTypes, BooksStep DEF BooksInv
<1> QED BY <1>1, <1>2, <1>3, <1>4, ReservedEnd, PTL DEF BudgetSpec

=============================================================================
