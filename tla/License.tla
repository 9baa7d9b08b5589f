------------------------------ MODULE License ------------------------------
(***************************************************************************)
(* The gateway's licence: the token in force, the vendor's revocation       *)
(* verdicts and the count of how long the gateway has been offline.  The    *)
(* administrator's handlers, the hourly re-verification and the revocation  *)
(* poller share one LicenseState.  A licence is its id and its token.       *)
(***************************************************************************)
EXTENDS Naturals, FiniteSets

CONSTANTS
  Lic,             \* licences the vendor issued
  NoLic,           \* no token, no lic_id
  Expires,         \* expires_at of each; not_before is 0
  EnvToken,        \* SECUREPROMPT_LICENSE_TOKEN
  Soft, Hard,      \* the offline budgets of the tokens
  Admin,           \* requests of administrators at the same time
  MaxTime, MaxRollbacks, MaxRestarts

ASSUME LicenseAssumption ==
  /\ NoLic \notin Lic
  /\ EnvToken \in Lic \cup {NoLic}
  /\ Expires \in [Lic -> Nat]
  /\ Soft \in Nat /\ Hard \in Nat

VARIABLES
  stored,          \* license_activation
  rows,            \* license_freshness
  snap,            \* LicenseState.inner: status and lic_id
  revoked,         \* revoked and revoked_lic_id: the licence, or NoLic
  last, highwater, \* LicenseState's two epochs
  request,         \* PUT and DELETE under way
  check,           \* the periodic re-verification
  poll,            \* run_poller
  dead,            \* licences the vendor has revoked
  clock, real,     \* the gateway's clock, the vendor's
  newest, peak,    \* newest assertion signed; highest clock a re-verification has seen
  rollbacks, restarts

memory == <<snap, revoked, last, highwater>>
tasks == <<request, check, poll>>
world == <<dead, clock, real, newest, rollbacks, restarts>>
licVars == <<stored, rows, memory, tasks, world, peak>>

Quiet == [pc |-> "idle", lic |-> NoLic, at |-> 0]
NoRow == [last |-> 0, highwater |-> 0]
Unlicensed == [status |-> "unlicensed", lic |-> NoLic]

Greater(a, b) == IF a > b THEN a ELSE b

(***************************************************************************)
(* LicenseState and the pure functions.                                     *)
(***************************************************************************)
(* The id is kept of a token in its window only. *)
SnapshotFrom(l, status) == [status |-> status, lic |-> IF status = "valid" THEN l ELSE NoLic]

LoadAndVerify(l, now) ==
  IF l = NoLic THEN Unlicensed ELSE SnapshotFrom(l, IF now <= Expires[l] THEN "valid" ELSE "grace")

(* DB over env; env when the row cannot be read. *)
ResolveActiveToken(dbOk) == IF dbOk /\ stored # NoLic THEN stored ELSE EnvToken

ClassifyOffline(now, seen, assertion) ==
  IF assertion + Hard < Greater(now, seen) THEN "hard"
  ELSE IF assertion + Soft < Greater(now, seen) THEN "soft" ELSE "fresh"

EffectiveStatus ==
  IF revoked # NoLic THEN "revoked"
  ELSE IF snap.status # "valid" THEN snap.status
  ELSE CASE ClassifyOffline(clock, highwater, last) = "fresh" -> "valid"
         [] ClassifyOffline(clock, highwater, last) = "soft" -> "unlicensed"
         [] OTHER -> "revoked"

IsHardStale ==
  /\ revoked = NoLic
  /\ snap.status = "valid"
  /\ ClassifyOffline(clock, highwater, last) = "hard"

(* The middleware: the recovery routes always answer; a revocation blocks; being offline for too
   long only marks the answer. *)
LicenseGate(recovery) ==
  IF recovery THEN "proceed"
  ELSE IF revoked # NoLic THEN "block"
  ELSE IF IsHardStale THEN "degrade" ELSE "proceed"

(* mark_revoked and clear_revocation_if_superseded: the id and the flag change together for all
   who look at the flag first. *)
MarkRevoked(l) == revoked' = l

(* Mutant: any activation lifts the revocation. *)
ClearAlways(l) == revoked' = IF l # NoLic THEN NoLic ELSE revoked

ClearIfSuperseded(l) == revoked' = IF l # NoLic /\ revoked # l THEN NoLic ELSE revoked

ObserveFreshness(row) ==
  /\ last' = Greater(last, row.last)
  /\ highwater' = Greater(highwater, row.highwater)

(* freshness_store::record, a GREATEST merge; no assertion counts as 0. *)
Record(l, assertion, now) ==
  rows' = [rows EXCEPT ![l] = [last |-> Greater(@.last, assertion),
                               highwater |-> Greater(@.highwater, Greater(assertion, now))]]

(* freshness_store::load: nothing is known of no licence, or when the read fails. *)
Load(table, l, loaded) == IF l # NoLic /\ loaded THEN table[l] ELSE NoRow

(* license_repo: the one row, with its audit row in the same transaction. *)
UpsertAudited(l) == stored' = l
ClearAudited == stored' = NoLic

(***************************************************************************)
(* PUT and DELETE /v1/license.                                              *)
(***************************************************************************)
(* The signature is checked and the snapshot computed before the token and its audit row are
   written in one transaction. *)
PutCommit(a) ==
  /\ request[a] = Quiet
  /\ \E l \in Lic :
       /\ UpsertAudited(l)
       /\ request' = [request EXCEPT ![a] = [pc |-> "put", lic |-> l, at |-> clock]]
  /\ UNCHANGED <<rows, memory, check, poll, world, peak>>

PutApply(a) ==
  /\ request[a].pc = "put"
  /\ snap' = LoadAndVerify(request[a].lic, request[a].at)
  /\ ClearIfSuperseded(snap'.lic)
  /\ request' = [request EXCEPT ![a] = Quiet]
  /\ UNCHANGED <<stored, rows, last, highwater, check, poll, world, peak>>

(* The delete and its audit row, then the token is resolved again and put in force.  A revocation
   stays. *)
DeleteCommit(a) ==
  /\ request[a] = Quiet
  /\ ClearAudited
  /\ request' = [request EXCEPT ![a] = [pc |-> "resolve", lic |-> NoLic, at |-> clock]]
  /\ UNCHANGED <<rows, memory, check, poll, world, peak>>

DeleteResolve(a) ==
  /\ request[a].pc = "resolve"
  /\ \E dbOk \in BOOLEAN :
       request' = [request EXCEPT ![a].pc = "delete", ![a].lic = ResolveActiveToken(dbOk)]
  /\ UNCHANGED <<stored, rows, memory, check, poll, world, peak>>

DeleteApply(a) ==
  /\ request[a].pc = "delete"
  /\ snap' = LoadAndVerify(request[a].lic, request[a].at)
  /\ request' = [request EXCEPT ![a] = Quiet]
  /\ UNCHANGED <<stored, rows, revoked, last, highwater, check, poll, world, peak>>

(* The administrator disconnects after the commit: the rest is not done. *)
Abandon(a) ==
  /\ request[a].pc # "idle"
  /\ request' = [request EXCEPT ![a] = Quiet]
  /\ UNCHANGED <<stored, rows, memory, check, poll, world, peak>>

(***************************************************************************)
(* The periodic re-verification.                                            *)
(***************************************************************************)
RecheckRead ==
  /\ check.pc = "idle"
  /\ \E dbOk \in BOOLEAN : check' = [pc |-> "read", lic |-> ResolveActiveToken(dbOk), at |-> 0]
  /\ UNCHANGED <<stored, rows, memory, request, poll, world, peak>>

(* The snapshot is swapped; the revocation is not part of it. *)
RecheckApply ==
  /\ check.pc = "read"
  /\ snap' = LoadAndVerify(check.lic, clock)
  /\ check' = [pc |-> "record", lic |-> snap'.lic, at |-> clock]
  /\ UNCHANGED <<stored, rows, revoked, last, highwater, request, poll, world, peak>>

(* record and load are best effort, observe_clock is not. *)
RecheckRecord ==
  /\ check.pc = "record"
  /\ \E written, loaded \in BOOLEAN :
       LET now == check.at
           seen == Load(rows', check.lic, loaded) IN
       /\ IF check.lic # NoLic /\ written THEN Record(check.lic, 0, now) ELSE rows' = rows
       /\ last' = Greater(last, seen.last)
       /\ highwater' = Greater(Greater(highwater, seen.highwater), now)
       /\ peak' = Greater(peak, now)
  /\ check' = Quiet
  /\ UNCHANGED <<stored, snap, revoked, request, poll, world>>

(***************************************************************************)
(* run_poller.                                                              *)
(***************************************************************************)
(* poll_tick: nothing to ask while a revocation is recorded or no licence is in force. *)
PollTick(l) == revoked = NoLic /\ l # NoLic

PollAsk ==
  /\ poll.pc = "idle"
  /\ PollTick(snap.lic)
  /\ poll' = [pc |-> "asked", lic |-> snap.lic, at |-> 0]
  /\ UNCHANGED <<stored, rows, memory, request, check, world, peak>>

(* Mutant: an answer without a signature counts as contact too. *)
VerdictActionTrusting(answer) ==
  CASE answer = "revoked" -> [revoke |-> TRUE, credit |-> 0]
    [] answer \in {"signed", "unsigned"} -> [revoke |-> FALSE, credit |-> real]
    [] OTHER -> [revoke |-> FALSE, credit |-> 0]

(* check: a signed assertion brings its issued_at, an unsigned answer none; anything else is
   unknown.  A verdict is about the licence asked for, whatever is in force by now. *)
VerdictAction(answer) ==
  CASE answer = "revoked" -> [revoke |-> TRUE, credit |-> 0]
    [] answer = "signed" -> [revoke |-> FALSE, credit |-> real]
    [] OTHER -> [revoke |-> FALSE, credit |-> 0]

Answers(l) == {"unknown"} \cup IF l \in dead THEN {"revoked"} ELSE {"signed", "unsigned"}

PollAnswer ==
  /\ poll.pc = "asked"
  /\ \E answer \in Answers(poll.lic) :
       LET do == VerdictAction(answer) IN
       /\ IF do.revoke THEN MarkRevoked(poll.lic) /\ poll' = Quiet
          ELSE UNCHANGED revoked /\ poll' = [poll EXCEPT !.pc = "record", !.at = do.credit]
       /\ newest' = IF answer = "signed" THEN real ELSE newest
  /\ UNCHANGED <<stored, rows, snap, last, highwater, request, check, dead, clock, real, rollbacks,
                 restarts, peak>>

PollRecord ==
  /\ poll.pc = "record"
  /\ \E written, loaded \in BOOLEAN :
       /\ IF written THEN Record(poll.lic, poll.at, clock) ELSE rows' = rows
       /\ ObserveFreshness(Load(rows', poll.lic, loaded))
  /\ poll' = Quiet
  /\ UNCHANGED <<stored, snap, revoked, request, check, world, peak>>

(***************************************************************************)
(* Boot, the vendor and the clocks.                                         *)
(***************************************************************************)
(* A restart forgets the revocation; the freshness of a valid licence is read back. *)
Restart ==
  /\ restarts < MaxRestarts
  /\ restarts' = restarts + 1
  /\ \E dbOk, loaded \in BOOLEAN :
       LET start == LoadAndVerify(ResolveActiveToken(dbOk), clock)
           seed == Load(rows, start.lic, loaded) IN
       /\ snap' = start
       /\ last' = seed.last
       /\ highwater' = seed.highwater
       /\ peak' = seed.highwater
  /\ revoked' = NoLic
  /\ request' = [a \in Admin |-> Quiet]
  /\ check' = Quiet
  /\ poll' = Quiet
  /\ UNCHANGED <<stored, rows, dead, clock, real, newest, rollbacks>>

VendorRevokes ==
  /\ \E l \in Lic \ dead : dead' = dead \cup {l}
  /\ UNCHANGED <<stored, rows, memory, tasks, clock, real, newest, rollbacks, restarts, peak>>

Tick ==
  /\ real < MaxTime
  /\ real' = real + 1
  /\ clock' = clock + 1
  /\ UNCHANGED <<stored, rows, memory, tasks, dead, newest, rollbacks, restarts, peak>>

RollBack ==
  /\ rollbacks < MaxRollbacks
  /\ clock > 0
  /\ rollbacks' = rollbacks + 1
  /\ clock' = 0
  /\ UNCHANGED <<stored, rows, memory, tasks, dead, real, newest, restarts, peak>>

LicenseInit ==
  /\ stored = NoLic
  /\ rows = [l \in Lic |-> NoRow]
  /\ snap = LoadAndVerify(EnvToken, 0)
  /\ revoked = NoLic
  /\ last = 0 /\ highwater = 0 /\ newest = 0 /\ peak = 0
  /\ request = [a \in Admin |-> Quiet]
  /\ check = Quiet
  /\ poll = Quiet
  /\ dead = {}
  /\ clock = 0 /\ real = 0
  /\ rollbacks = 0 /\ restarts = 0

LicenseNext ==
  \/ RecheckRead \/ RecheckApply \/ RecheckRecord
  \/ PollAsk \/ PollAnswer \/ PollRecord
  \/ Restart \/ VendorRevokes \/ Tick \/ RollBack
  \/ \E a \in Admin : \/ PutCommit(a) \/ PutApply(a) \/ DeleteCommit(a) \/ DeleteResolve(a)
                      \/ DeleteApply(a) \/ Abandon(a)

LicenseSpec == LicenseInit /\ [][LicenseNext]_licVars

(***************************************************************************)
(* Properties.                                                              *)
(***************************************************************************)

(* A gateway blocked for a licence the vendor revoked stays blocked, whatever the hourly
   re-verification, a DELETE or the same token pasted again do, until an administrator puts
   another licence in force or the process restarts. *)
SuccessorLifts ==
  revoked # NoLic /\ revoked' # revoked
    => \/ restarts' # restarts
       \/ revoked' = NoLic /\ snap'.status = "valid" /\ snap'.lic # revoked

LiftedOnlyBySuccessor == [][SuccessorLifts]_licVars

(* A gateway that has not heard from the vendor says so: what it counts as its last contact was
   signed by the vendor, and a time that a re-verification has seen is not bought again by turning
   the clock back, nor by a restart once the time is in the database. *)
NoFreeFreshness ==
  /\ EffectiveStatus = "valid" => peak <= newest + Soft
  /\ snap.status = "valid" /\ LicenseGate(FALSE) = "proceed" => peak <= newest + Hard

=============================================================================
