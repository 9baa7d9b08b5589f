--------------------------- MODULE RefreshTokens ---------------------------
(***************************************************************************)
(* The refresh_tokens table and every handler that writes it: sign-in,    *)
(* POST /v1/auth/refresh with RefreshTokenRepository::rotate, replay      *)
(* detection, logout, the user-wide revocation and the narrow one.        *)
(*                                                                         *)
(* Each handler is an async task holding a Postgres connection, so its     *)
(* statements interleave with those of the others.  Transactions run at   *)
(* READ COMMITTED (scope::begin_scoped sets no isolation level): an UPDATE *)
(* picks its rows from the rows committed when the statement starts, waits *)
(* for the row locks of transactions in flight, and tests its WHERE clause *)
(* again on the row it then finds.                                         *)
(*                                                                         *)
(* The clock is left out: a live row may be found past its expires_at, or  *)
(* not, at any lookup (SessionGate.tla has the clock).                     *)
(*                                                                         *)
(* A row stands for itself, for the raw refresh token whose hash it stores *)
(* and for the access token minted beside it (its access_jti).             *)
(***************************************************************************)
EXTENDS FiniteSets

CONSTANTS Row, Session, User, Req,
          Owner,                  \* the user each session belongs to
          NoRow, NoSession, NoReq

ASSUME OwnerAssumption == Owner \in [Session -> User]
ASSUME NoRowAssumption == NoRow \notin Row
ASSUME NoSessionAssumption == NoSession \notin Session
ASSUME NoReqAssumption == NoReq \notin Req

VARIABLES
  known,      \* rows committed to refresh_tokens
  session,    \* session_id of a committed row, else NoSession
  revoked,    \* rows with revoked_at set
  replacedBy, \* replaced_by, NoRow when NULL
  lock,       \* the transaction holding a row's lock, or NoReq
  blacklist,  \* rows whose access_jti is in Redis' jti_blacklist
  minted,     \* rows whose access token reached a client
  audit,      \* session_revocation_audit
  pc,         \* where each handler is
  kind,       \* which handler it is
  old,        \* rotate: the row presented
  new,        \* rotate: the id of the successor row it inserts
  scope,      \* the sessions its bulk UPDATE admits
  jtis,       \* narrow revocation: find_live_session's revocable_jtis
  seen,       \* the rows its bulk UPDATE picked when it started
  todo,       \* those of them it has not visited yet
  ended       \* whether its bulk UPDATE committed

table == <<known, session, revoked, replacedBy>>
local == <<kind, old, new, scope, jtis, seen, todo, ended>>
vars == <<known, session, revoked, replacedBy, lock, blacklist, minted,
          audit, pc, kind, old, new, scope, jtis, seen, todo, ended>>

Kinds == {"none", "refresh", "logout", "user", "session"}
Stages == {"idle", "rotate", "commit", "mint", "replay", "jtis", "scan",
           "update", "done"}

SessionsOf(u) == {s \in Session : Owner[s] = u}

(* WHERE revoked_at IS NULL *)
Live == known \ revoked

RowsOf(S) == {r \in known : session[r] \in S}

(* Ids come from Uuid::new_v4: never one a row or an open transaction has. *)
FreshRow(r) == r \in Row \ known /\ \A q \in Req : new[q] # r

FreshSession(s) == \A r \in known : session[r] # s

Init ==
  /\ known = {} /\ revoked = {}
  /\ session = [r \in Row |-> NoSession]
  /\ replacedBy = [r \in Row |-> NoRow]
  /\ lock = [r \in Row |-> NoReq]
  /\ blacklist = {} /\ minted = {} /\ audit = {}
  /\ pc = [p \in Req |-> "idle"]
  /\ kind = [p \in Req |-> "none"]
  /\ old = [p \in Req |-> NoRow]
  /\ new = [p \in Req |-> NoRow]
  /\ scope = [p \in Req |-> {}]
  /\ jtis = [p \in Req |-> {}]
  /\ seen = [p \in Req |-> {}]
  /\ todo = [p \in Req |-> {}]
  /\ ended = [p \in Req |-> FALSE]

Goto(p, stage) == pc' = [pc EXCEPT ![p] = stage]

-----------------------------------------------------------------------------
(* Sign-in: build_token_pair_body inserts the first row of a new session  *)
(* in one transaction and returns the pair.  Password login, register,    *)
(* the second factor and OIDC all end here.                                *)
Insert(r, s) ==
  /\ FreshRow(r) /\ s \in Session /\ FreshSession(s)
  /\ known' = known \cup {r}
  /\ session' = [session EXCEPT ![r] = s]
  /\ minted' = minted \cup {r}
  /\ UNCHANGED <<revoked, replacedBy, lock, blacklist, audit, pc, local>>

-----------------------------------------------------------------------------
(* rotate's pre-lookup, in a probe transaction that is rolled back before  *)
(* the scoped one begins: what it read may be stale by the UPDATE.         *)
RotateProbe(p, r) ==
  /\ pc[p] = "idle"
  /\ kind' = [kind EXCEPT ![p] = "refresh"]
  /\ old' = [old EXCEPT ![p] = r]
  /\ \/ /\ r \in Live
        /\ \E n \in Row : FreshRow(n) /\ new' = [new EXCEPT ![p] = n]
        /\ Goto(p, "rotate")
     \/ /\ r \in revoked /\ replacedBy[r] # NoRow                \* ReplayDetected
        /\ Goto(p, "replay") /\ UNCHANGED new
     \/ /\ \/ r \notin known                                     \* NotFound
           \/ r \in revoked /\ replacedBy[r] = NoRow             \* Revoked
           \/ r \in Live                                         \* Expired
        /\ Goto(p, "done") /\ UNCHANGED new
  /\ UNCHANGED <<table, lock, blacklist, minted, audit,
                 scope, jtis, seen, todo, ended>>

(* Mutant: the UPDATE of the old row without AND revoked_at IS NULL. *)
RotateUpdateUnguarded(p) ==
  /\ pc[p] = "rotate" /\ lock[old[p]] = NoReq
  /\ lock' = [lock EXCEPT ![old[p]] = p]
  /\ Goto(p, "commit")
  /\ UNCHANGED <<table, blacklist, minted, audit, local>>

(* The scoped transaction: INSERT the successor, invisible until commit,   *)
(* then UPDATE the old row WHERE revoked_at IS NULL.  The UPDATE waits for *)
(* the row lock; zero rows rolls back and reads as a replay.               *)
RotateUpdate(p) ==
  /\ pc[p] = "rotate" /\ lock[old[p]] = NoReq
  /\ \/ /\ old[p] \in Live
        /\ lock' = [lock EXCEPT ![old[p]] = p]
        /\ Goto(p, "commit")
     \/ /\ old[p] \notin Live
        /\ Goto(p, "replay") /\ UNCHANGED lock
  /\ UNCHANGED <<table, blacklist, minted, audit, local>>

(* tx.commit: the old row is closed and its successor appears at once. *)
RotateCommit(p) ==
  /\ pc[p] = "commit"
  /\ known' = known \cup {new[p]}
  /\ session' = [session EXCEPT ![new[p]] = session[old[p]]]
  /\ revoked' = revoked \cup {old[p]}
  /\ replacedBy' = [replacedBy EXCEPT ![old[p]] = new[p]]
  /\ lock' = [lock EXCEPT ![old[p]] = NoReq]
  /\ Goto(p, "mint")
  /\ UNCHANGED <<blacklist, minted, audit, local>>

(* fetch_user_by_id, then the access token carrying the row's jti goes out. *)
Mint(p) ==
  /\ pc[p] = "mint"
  /\ minted' = minted \cup {new[p]}
  /\ Goto(p, "done")
  /\ UNCHANGED <<table, lock, blacklist, audit, local>>

(* ReplayDetected: revoke_all_for_user on the owner of the presented row. *)
ReplayRevokeAll(p) ==
  /\ pc[p] = "replay"
  /\ scope' = [scope EXCEPT ![p] = SessionsOf(Owner[session[old[p]]])]
  /\ Goto(p, "scan")
  /\ UNCHANGED <<table, lock, blacklist, minted, audit, kind, old, new,
                 jtis, seen, todo, ended>>

-----------------------------------------------------------------------------
(* logout: blacklist the presented jti, then revoke_all_for_user. *)
Logout(p, r) ==
  /\ pc[p] = "idle" /\ r \in minted \ blacklist
  /\ kind' = [kind EXCEPT ![p] = "logout"]
  /\ blacklist' = blacklist \cup {r}
  /\ scope' = [scope EXCEPT ![p] = SessionsOf(Owner[session[r]])]
  /\ Goto(p, "scan")
  /\ UNCHANGED <<table, lock, minted, audit, old, new, jtis, seen, todo,
                 ended>>

(* revoke_sessions, once the actor may revoke the target. *)
RevokeSessions(p, u) ==
  /\ pc[p] = "idle"
  /\ kind' = [kind EXCEPT ![p] = "user"]
  /\ scope' = [scope EXCEPT ![p] = SessionsOf(u)]
  /\ Goto(p, "scan")
  /\ UNCHANGED <<table, lock, blacklist, minted, audit, old, new, jtis,
                 seen, todo, ended>>

(* revoke_one_session: find_live_session answers None (404) unless the     *)
(* session has a live unexpired row, else the jtis of its rows (the filter  *)
(* on created_at drops those whose token has expired by itself).            *)
RevokeOneSession(p, s) ==
  /\ pc[p] = "idle"
  /\ kind' = [kind EXCEPT ![p] = "session"]
  /\ scope' = [scope EXCEPT ![p] = {s}]
  /\ \/ /\ \E r \in Live : session[r] = s
        /\ jtis' = [jtis EXCEPT ![p] = RowsOf({s})] /\ Goto(p, "jtis")
     \/ Goto(p, "done") /\ UNCHANGED jtis
  /\ UNCHANGED <<table, lock, blacklist, minted, audit, old, new, seen,
                 todo, ended>>

(* The loop over revocable_jtis: Redis before Postgres. *)
BlacklistJtis(p) ==
  /\ pc[p] = "jtis"
  /\ blacklist' = blacklist \cup jtis[p]
  /\ Goto(p, "scan")
  /\ UNCHANGED <<table, lock, minted, audit, local>>

-----------------------------------------------------------------------------
(* UPDATE refresh_tokens SET revoked_at = NOW() WHERE <scope> AND           *)
(* revoked_at IS NULL: the statement picks the rows committed as it starts. *)
BulkScan(p) ==
  /\ pc[p] = "scan"
  /\ seen' = [seen EXCEPT ![p] = RowsOf(scope[p]) \ revoked]
  /\ todo' = [todo EXCEPT ![p] = RowsOf(scope[p]) \ revoked]
  /\ Goto(p, "update")
  /\ UNCHANGED <<table, lock, blacklist, minted, audit, kind, old, new,
                 scope, jtis, ended>>

(* Mutant: FOR UPDATE SKIP LOCKED. *)
BulkVisitSkipLocked(p, r) ==
  /\ pc[p] = "update" /\ r \in todo[p]
  /\ todo' = [todo EXCEPT ![p] = @ \ {r}]
  /\ lock' = IF r \in Live /\ lock[r] = NoReq THEN [lock EXCEPT ![r] = p] ELSE lock
  /\ UNCHANGED <<table, blacklist, minted, audit, pc, kind, old, new,
                 scope, jtis, seen, ended>>

(* It visits them in any order, waiting for a lock it does not hold, and    *)
(* passes over a row that was revoked while it waited.                      *)
BulkVisit(p, r) ==
  /\ pc[p] = "update" /\ r \in todo[p] /\ lock[r] = NoReq
  /\ todo' = [todo EXCEPT ![p] = @ \ {r}]
  /\ lock' = IF r \in Live THEN [lock EXCEPT ![r] = p] ELSE lock
  /\ UNCHANGED <<table, blacklist, minted, audit, pc, kind, old, new,
                 scope, jtis, seen, ended>>

Held(p) == {r \in Row : lock[r] = p}

Unlocked(p) == [r \in Row |-> IF lock[r] = p THEN NoReq ELSE lock[r]]

(* The audit row is written in the same transaction for the two            *)
(* administrative revocations and for nothing else.                        *)
BulkCommit(p) ==
  /\ pc[p] = "update" /\ todo[p] = {}
  /\ revoked' = revoked \cup Held(p)
  /\ lock' = Unlocked(p)
  /\ audit' = IF kind[p] \in {"user", "session"}
              THEN audit \cup {[kind |-> kind[p], scope |-> scope[p]]} ELSE audit
  /\ ended' = [ended EXCEPT ![p] = TRUE]
  /\ Goto(p, "done")
  /\ UNCHANGED <<known, session, replacedBy, blacklist, minted, kind, old,
                 new, scope, jtis, seen, todo>>

(* Mutant: the connection goes back to its pool with the transaction open. *)
FailHoldingLocks(p) ==
  /\ pc[p] \in {"rotate", "commit", "mint", "replay", "jtis", "scan", "update"}
  /\ todo' = [todo EXCEPT ![p] = {}]
  /\ Goto(p, "done")
  /\ UNCHANGED <<table, lock, blacklist, minted, audit, kind, old, new, scope, jtis,
                 seen, ended>>

(* A database or Redis error, or the task dropped with its connection:     *)
(* Postgres rolls the open transaction back; the loop over jtis may have   *)
(* blacklisted some of them.                                               *)
Fail(p) ==
  /\ pc[p] \in {"rotate", "commit", "mint", "replay", "jtis", "scan", "update"}
  /\ lock' = Unlocked(p)
  /\ todo' = [todo EXCEPT ![p] = {}]
  /\ \E B \in SUBSET jtis[p] : /\ pc[p] # "jtis" => B = {}
                               /\ blacklist' = blacklist \cup B
  /\ Goto(p, "done")
  /\ UNCHANGED <<table, minted, audit, kind, old, new, scope, jtis, seen,
                 ended>>

(* Bulk UPDATEs that wait for each other: Postgres aborts one of them. *)
Stuck(C) ==
  \A q \in C : /\ pc[q] = "update" /\ todo[q] # {}
               /\ \A r \in todo[q] : lock[r] \in C \ {q}

DeadlockAbort(p) == (\E C \in SUBSET Req : p \in C /\ Stuck(C)) /\ Fail(p)

(* The answer is sent and the task is free for another request. *)
Answer(p) ==
  /\ pc[p] = "done"
  /\ Goto(p, "idle")
  /\ kind' = [kind EXCEPT ![p] = "none"]
  /\ old' = [old EXCEPT ![p] = NoRow]
  /\ new' = [new EXCEPT ![p] = NoRow]
  /\ scope' = [scope EXCEPT ![p] = {}]
  /\ jtis' = [jtis EXCEPT ![p] = {}]
  /\ seen' = [seen EXCEPT ![p] = {}]
  /\ todo' = [todo EXCEPT ![p] = {}]
  /\ ended' = [ended EXCEPT ![p] = FALSE]
  /\ UNCHANGED <<table, lock, blacklist, minted, audit>>

-----------------------------------------------------------------------------
Start(p) ==
  \/ \E r \in Row : RotateProbe(p, r) \/ Logout(p, r)
  \/ \E u \in User : RevokeSessions(p, u)
  \/ \E s \in Session : RevokeOneSession(p, s)

(* What a handler does by itself once started. *)
Step(p) ==
  \/ \E r \in Row : BulkVisit(p, r)
  \/ RotateUpdate(p) \/ RotateCommit(p) \/ Mint(p) \/ ReplayRevokeAll(p)
  \/ BlacklistJtis(p) \/ BulkScan(p) \/ BulkCommit(p)

Next ==
  \/ \E r \in Row, s \in Session : Insert(r, s)
  \/ \E p \in Req : Start(p) \/ Step(p) \/ Fail(p) \/ DeadlockAbort(p) \/ Answer(p)

Spec == Init /\ [][Next]_vars

(* The statements that wait for a row lock. *)
Acquire(p) == RotateUpdate(p) \/ \E r \in Row : BulkVisit(p, r)

(* The runtime polls every task whose statement has returned.  Postgres     *)
(* queues the waiters of a row lock in arrival order, so a statement that    *)
(* waits is not overtaken for ever, and it breaks lock cycles.               *)
FairSpec ==
  Spec /\ \A p \in Req : /\ WF_vars(Step(p)) /\ SF_vars(Acquire(p))
                         /\ WF_vars(DeadlockAbort(p))

-----------------------------------------------------------------------------
(* Every variable keeps its type. *)
TypeOK ==
  /\ known \in SUBSET Row /\ revoked \in SUBSET known
  /\ session \in [Row -> Session \cup {NoSession}]
  /\ replacedBy \in [Row -> Row \cup {NoRow}]
  /\ lock \in [Row -> Req \cup {NoReq}]
  /\ blacklist \in SUBSET known /\ minted \in SUBSET known
  /\ audit \in SUBSET [kind : {"user", "session"}, scope : SUBSET Session]
  /\ pc \in [Req -> Stages] /\ kind \in [Req -> Kinds]
  /\ old \in [Req -> Row \cup {NoRow}] /\ new \in [Req -> Row \cup {NoRow}]
  /\ scope \in [Req -> SUBSET Session]
  /\ jtis \in [Req -> SUBSET known]
  /\ seen \in [Req -> SUBSET known] /\ todo \in [Req -> SUBSET known]
  /\ ended \in [Req -> BOOLEAN]

(* Whatever rotations, revocations and failures overlap, a session never    *)
(* has two refresh tokens that both work (rotate's race-safe UPDATE).       *)
OneLiveRowPerSession ==
  \A r, q \in Live : session[r] = session[q] => r = q

(* A row is the successor of at most one row, in its own session, and only  *)
(* of a revoked one: the chain replay detection walks has no forks.         *)
LinearChain ==
  \A r, q \in Row :
    replacedBy[r] # NoRow =>
      /\ r \in revoked /\ replacedBy[r] \in known
      /\ session[replacedBy[r]] = session[r]
      /\ replacedBy[q] = replacedBy[r] => q = r

(* A bulk revocation that committed closed every row it picked, those whose *)
(* lock a rotation or another revocation held when it came by included.     *)
PickedRowsClosed ==
  \A p \in Req : ended[p] => seen[p] \subseteq revoked

(* A session with no refresh token that works never gets one again: an      *)
(* in-flight rotation cannot resurrect what a revocation has closed.        *)
ClosedStaysClosed ==
  [][\A s \in Session :
       (\E r \in known : session[r] = s) /\ (\A r \in Live : session[r] # s)
         => \A r \in Live' : session'[r] # s]_vars

(* Once replaced_by names a successor it never changes, and revoked_at is   *)
(* never cleared: a refresh token that worked never works again.            *)
UsedOnce ==
  [][/\ revoked \subseteq revoked'
     /\ \A r \in Row : replacedBy[r] # NoRow => replacedBy'[r] = replacedBy[r]]_vars

(* Every request is answered, whatever locks it meets on the way. *)
EveryRequestAnswered ==
  \A p \in Req : pc[p] # "idle" ~> pc[p] = "done"

(* Refinement: the table, seen as one renewing token per session. *)
Opened == {session[r] : r \in known}

Holder == [s \in Session |-> IF \E r \in Live : session[r] = s
                             THEN CHOOSE r \in Live : session[r] = s ELSE NoRow]

Family == INSTANCE SessionFamily WITH issued <- known, opened <- Opened, holder <- Holder

(* The table and its handlers implement SessionFamily. *)
ImplementsFamily == Family!Spec

-----------------------------------------------------------------------------
(* The inductive strengthening of the safety properties. *)

(* A row has a session exactly when it is committed. *)
SessionKnown == \A r \in Row : r \in known <=> session[r] \in Session

(* A row lock protects a live row, for a rotation about to commit or for a  *)
(* bulk UPDATE on its way.                                                  *)
LockProtectsLive ==
  \A r \in Row, p \in Req :
    lock[r] = p => /\ r \in Live
                   /\ pc[p] = "update" \/ (pc[p] = "commit" /\ old[p] = r)

(* What a rotation carries from step to step. *)
RotationInFlight ==
  \A p \in Req :
    /\ pc[p] \in {"rotate", "commit"} => old[p] \in known /\ new[p] \in Row \ known
    /\ pc[p] = "commit" => lock[old[p]] = p
    /\ pc[p] = "replay" => old[p] \in known
    /\ pc[p] = "mint" => new[p] \in known
    /\ pc[p] = "idle" => new[p] = NoRow

(* Two handlers never insert under one id. *)
NewIdsDistinct ==
  \A p, q \in Req : new[p] # NoRow /\ new[p] = new[q] => p = q

(* A bulk UPDATE has closed, or holds, every row it has visited. *)
VisitedHeld ==
  \A p \in Req :
    /\ pc[p] = "update" => seen[p] \ todo[p] \subseteq revoked \cup Held(p)
    /\ ended[p] => pc[p] = "done"

IInv ==
  /\ TypeOK /\ SessionKnown /\ LockProtectsLive /\ RotationInFlight
  /\ NewIdsDistinct /\ VisitedHeld
  /\ OneLiveRowPerSession /\ LinearChain /\ PickedRowsClosed
=============================================================================
