-------------------------- MODULE BackofficeProofs --------------------------
(***************************************************************************)
(* What is proved of the licence, the workspace settings and the policy     *)
(* rules, for any licences, requests, rules and administrators and for any  *)
(* clocks and budgets.                                                      *)
(***************************************************************************)
EXTENDS License, Settings, PolicyRules, SequenceTheorems, TLAPS

(***************************************************************************)
(* The licence.  A step of a poll, of a re-verification or of a boot takes  *)
(* in what the tables and the vendor said earlier, so the bound that the    *)
(* property states of the memory is carried by the rows and by the answer   *)
(* under way too.                                                           *)
(***************************************************************************)
Task == [pc : {"idle", "read", "asked", "record"}, lic : Lic \cup {NoLic}, at : Nat]
Request == [pc : {"idle", "put", "resolve", "delete"}, lic : Lic \cup {NoLic}, at : Nat]
Epochs == [last : Nat, highwater : Nat]

LicenseTypes ==
  /\ stored \in Lic \cup {NoLic}
  /\ rows \in [Lic -> Epochs]
  /\ last \in Nat /\ highwater \in Nat /\ newest \in Nat /\ peak \in Nat
  /\ clock \in Nat /\ real \in Nat /\ restarts \in Nat
  /\ snap.lic \in Lic \cup {NoLic}
  /\ request \in [Admin -> Request]
  /\ check \in Task
  /\ poll \in Task

(* Nothing the gateway counts as contact is newer than what the vendor signed. *)
SignedOnly ==
  /\ newest <= real
  /\ last <= newest
  /\ \A l \in Lic : rows[l].last <= newest
  /\ poll.at <= newest

(* What a re-verification has seen of the clock is in the high-water mark. *)
ClockKept == peak <= highwater

(* The poller asks only while nothing is revoked, and nobody else revokes. *)
PollerAsks ==
  /\ poll.pc = "asked" => revoked = NoLic /\ poll.lic \in Lic
  /\ poll.pc = "record" => poll.lic \in Lic

LicenseInv == LicenseTypes /\ SignedOnly /\ ClockKept /\ PollerAsks

(* bump_max gives one of its arguments, and no smaller than either. *)
LEMMA GreaterBounds ==
  ASSUME NEW a \in Nat, NEW b \in Nat
  PROVE  /\ Greater(a, b) \in Nat
         /\ a <= Greater(a, b) /\ b <= Greater(a, b)
         /\ Greater(a, b) = a \/ Greater(a, b) = b
BY SMT DEF Greater

(* snapshot_from keeps an id only of a token in its window, and the token is one that was issued. *)
LEMMA SnapshotIs ==
  ASSUME NEW l \in Lic \cup {NoLic}, NEW now \in Nat
  PROVE  /\ LoadAndVerify(l, now).lic \in Lic \cup {NoLic}
         /\ LoadAndVerify(l, now).lic # NoLic => LoadAndVerify(l, now).status = "valid"
BY LicenseAssumption DEF LoadAndVerify, SnapshotFrom, Unlicensed

(* resolve_active_token gives the stored token or the environment's. *)
LEMMA ResolveTypes ==
  ASSUME stored \in Lic \cup {NoLic}, NEW dbOk \in BOOLEAN
  PROVE  ResolveActiveToken(dbOk) \in Lic \cup {NoLic}
BY LicenseAssumption DEF ResolveActiveToken

(* What is loaded of a table is one of its rows, or nothing. *)
LEMMA LoadTypes ==
  ASSUME NEW table \in [Lic -> Epochs], NEW l \in Lic \cup {NoLic}, NEW loaded \in BOOLEAN,
         NEW n \in Nat, \A k \in Lic : table[k].last <= n
  PROVE  /\ Load(table, l, loaded) \in Epochs
         /\ Load(table, l, loaded).last \in Nat /\ Load(table, l, loaded).highwater \in Nat
         /\ Load(table, l, loaded).last <= n
BY DEF Load, NoRow, Epochs

(* freshness_store::record moves no row's assertion past a bound on the old ones and the new. *)
LEMMA RecordTypes ==
  ASSUME rows \in [Lic -> Epochs], NEW l \in Lic, NEW assertion \in Nat, NEW now \in Nat,
         NEW n \in Nat, assertion <= n, \A k \in Lic : rows[k].last <= n,
         Record(l, assertion, now)
  PROVE  rows' \in [Lic -> Epochs] /\ \A k \in Lic : rows'[k].last <= n
<1> DEFINE new == [last |-> Greater(rows[l].last, assertion),
                   highwater |-> Greater(rows[l].highwater, Greater(assertion, now))]
<1>1. rows[l].last \in Nat /\ rows[l].highwater \in Nat
  BY DEF Epochs
<1>2. new \in Epochs /\ new.last <= n
  <2>1. Greater(rows[l].last, assertion) \in Nat /\ Greater(rows[l].last, assertion) <= n
    BY <1>1, GreaterBounds
  <2>2. Greater(rows[l].highwater, Greater(assertion, now)) \in Nat
    BY <1>1, GreaterBounds
  <2>3. QED
    BY <2>1, <2>2 DEF Epochs
<1>3. rows' = [rows EXCEPT ![l] = new]
  BY DEF Record
<1> HIDE DEF new
<1>4. QED
  BY <1>2, <1>3

(* A step of an administrator's request leaves the clocks, the rows and the poller alone. *)
LEMMA RequestStep ==
  ASSUME LicenseInv, LicenseTypes', NEW a \in Admin,
         PutCommit(a) \/ PutApply(a) \/ DeleteCommit(a) \/ DeleteResolve(a) \/ DeleteApply(a) \/ Abandon(a)
  PROVE  SignedOnly' /\ ClockKept' /\ PollerAsks'
<1>1. UNCHANGED <<rows, last, highwater, poll, real, newest, peak>>
  BY DEF PutCommit, PutApply, DeleteCommit, DeleteResolve, DeleteApply, Abandon, memory, world
<1>2. revoked' = revoked \/ revoked' = NoLic
  BY DEF PutCommit, PutApply, DeleteCommit, DeleteResolve, DeleteApply, Abandon, memory, ClearIfSuperseded
<1>3. QED
  BY <1>1, <1>2 DEF LicenseInv, SignedOnly, ClockKept, PollerAsks

(* A request keeps its type, whichever of its statements it has reached. *)
LEMMA RequestTypes ==
  ASSUME LicenseTypes, NEW a \in Admin,
         PutCommit(a) \/ PutApply(a) \/ DeleteCommit(a) \/ DeleteResolve(a) \/ DeleteApply(a) \/ Abandon(a)
  PROVE  LicenseTypes'
<1> USE DEF LicenseTypes
<1>0. Quiet \in Request /\ request[a] \in Request
  BY DEF Quiet, Request
<1>1. UNCHANGED <<rows, last, highwater, newest, peak, clock, real, restarts, check, poll>>
  BY DEF PutCommit, PutApply, DeleteCommit, DeleteResolve, DeleteApply, Abandon, memory, world
<1>2. stored' \in Lic \cup {NoLic}
  BY DEF PutCommit, PutApply, DeleteCommit, DeleteResolve, DeleteApply, Abandon, UpsertAudited, ClearAudited
<1>3. snap'.lic \in Lic \cup {NoLic}
  <2>1. CASE PutApply(a) \/ DeleteApply(a)
    BY <1>0, <2>1, SnapshotIs, ZenonT(60) DEF PutApply, DeleteApply, Request
  <2>2. CASE ~(PutApply(a) \/ DeleteApply(a))
    BY <2>2 DEF PutCommit, DeleteCommit, DeleteResolve, Abandon, memory
  <2>3. QED
    BY <2>1, <2>2
<1>4. request' \in [Admin -> Request]
  <2>1. CASE PutCommit(a)
    BY <2>1 DEF PutCommit, Request
  <2>2. CASE DeleteCommit(a)
    BY <2>2 DEF DeleteCommit, Request
  <2>3. CASE DeleteResolve(a)
    <3>1. PICK dbOk \in BOOLEAN :
            request' = [request EXCEPT ![a].pc = "delete", ![a].lic = ResolveActiveToken(dbOk)]
      BY <2>3 DEF DeleteResolve
    <3>2. [request[a] EXCEPT !.pc = "delete", !.lic = ResolveActiveToken(dbOk)] \in Request
      BY <1>0, ResolveTypes DEF Request
    <3>3. QED
      BY <3>1, <3>2
  <2>4. CASE PutApply(a) \/ DeleteApply(a) \/ Abandon(a)
    BY <1>0, <2>4 DEF PutApply, DeleteApply, Abandon
  <2>5. QED
    BY <2>1, <2>2, <2>3, <2>4
<1>5. QED
  BY <1>1, <1>2, <1>3, <1>4

(* The re-verification: it writes what the clock says, and credits no contact. *)
LEMMA RecheckStep ==
  ASSUME LicenseInv, RecheckRead \/ RecheckApply \/ RecheckRecord
  PROVE  LicenseInv'
<1> USE DEF LicenseInv, LicenseTypes
<1>1. CASE RecheckRead
  <2>1. check' \in Task
    BY <1>1, ResolveTypes DEF RecheckRead, Task
  <2>2. QED
    BY <1>1, <2>1 DEF RecheckRead, memory, world, SignedOnly, ClockKept, PollerAsks
<1>2. CASE RecheckApply
  <2>1. check.lic \in Lic \cup {NoLic}
    BY DEF Task
  <2>2. snap'.lic \in Lic \cup {NoLic}
    BY <1>2, <2>1, SnapshotIs DEF RecheckApply
  <2>3. check' \in Task
    BY <1>2, <2>2 DEF RecheckApply, Task
  <2>4. QED
    BY <1>2, <2>2, <2>3 DEF RecheckApply, memory, world, SignedOnly, ClockKept, PollerAsks
<1>3. CASE RecheckRecord
  <2> DEFINE now == check.at
             seen(loaded) == Load(rows', check.lic, loaded)
  <2>1. check.lic \in Lic \cup {NoLic} /\ now \in Nat
    BY DEF Task
  <2>2. PICK written \in BOOLEAN, loaded \in BOOLEAN :
          /\ IF check.lic # NoLic /\ written THEN Record(check.lic, 0, now) ELSE rows' = rows
          /\ last' = Greater(last, seen(loaded).last)
          /\ highwater' = Greater(Greater(highwater, seen(loaded).highwater), now)
          /\ peak' = Greater(peak, now)
    BY <1>3 DEF RecheckRecord
  <2>3. rows' \in [Lic -> Epochs] /\ \A k \in Lic : rows'[k].last <= newest
    <3>1. CASE check.lic # NoLic /\ written
      <4>1. check.lic \in Lic /\ Record(check.lic, 0, now)
        BY <2>1, <2>2, <3>1
      <4>2. 0 \in Nat /\ 0 <= newest /\ \A k \in Lic : rows[k].last <= newest
        BY DEF SignedOnly
      <4>3. QED
        BY <2>1, <4>1, <4>2, RecordTypes
    <3>2. CASE ~(check.lic # NoLic /\ written)
      BY <2>2, <3>2 DEF SignedOnly
    <3>3. QED
      BY <3>1, <3>2
  <2>4. seen(loaded).last \in Nat /\ seen(loaded).highwater \in Nat /\ seen(loaded).last <= newest
    BY <2>1, <2>3, LoadTypes
  <2> HIDE DEF seen, now
  <2>5. last' \in Nat /\ last' <= newest
    BY <2>2, <2>4, GreaterBounds DEF SignedOnly
  <2>6. Greater(highwater, seen(loaded).highwater) \in Nat /\ highwater <= Greater(highwater, seen(loaded).highwater)
    BY <2>4, GreaterBounds
  <2>7. highwater' \in Nat /\ peak' \in Nat /\ peak' <= highwater'
    <3>1. highwater' \in Nat /\ highwater <= highwater' /\ now <= highwater'
      BY <2>1, <2>2, <2>6, GreaterBounds
    <3>2. peak' \in Nat /\ (peak' = peak \/ peak' = now)
      BY <2>1, <2>2, GreaterBounds
    <3>3. QED
      BY <2>1, <3>1, <3>2 DEF ClockKept
  <2>8. check' \in Task
    BY <1>3 DEF RecheckRecord, Quiet, Task
  <2>9. UNCHANGED <<stored, snap, revoked, request, poll, clock, real, restarts, newest>>
    BY <1>3 DEF RecheckRecord, world
  <2>10. QED
    BY <2>3, <2>5, <2>7, <2>8, <2>9 DEF SignedOnly, ClockKept, PollerAsks
<1>4. QED
  BY <1>1, <1>2, <1>3

(* The poller: only a signed answer is credited, with the vendor's own time. *)
LEMMA PollStep ==
  ASSUME LicenseInv, PollAsk \/ PollAnswer \/ PollRecord
  PROVE  LicenseInv'
<1> USE DEF LicenseInv, LicenseTypes
<1>1. CASE PollAsk
  <2>1. poll' \in Task /\ poll'.pc = "asked" /\ poll'.at = 0 /\ poll'.lic \in Lic /\ revoked = NoLic
    BY <1>1 DEF PollAsk, PollTick, Task
  <2>2. QED
    BY <1>1, <2>1 DEF PollAsk, memory, world, SignedOnly, ClockKept, PollerAsks
<1>2. CASE PollAnswer
  <2>1. PICK answer \in Answers(poll.lic) :
          /\ IF VerdictAction(answer).revoke THEN MarkRevoked(poll.lic) /\ poll' = Quiet
             ELSE /\ UNCHANGED revoked
                  /\ poll' = [poll EXCEPT !.pc = "record", !.at = VerdictAction(answer).credit]
          /\ newest' = IF answer = "signed" THEN real ELSE newest
    BY <1>2 DEF PollAnswer
  <2>2. UNCHANGED <<stored, rows, snap, last, highwater, request, check, clock, real, restarts, peak>>
    BY <1>2 DEF PollAnswer
  <2>3. poll.lic \in Lic /\ revoked = NoLic
    BY <1>2 DEF PollAnswer, PollerAsks
  <2>4. newest' \in Nat /\ newest <= newest' /\ newest' <= real
    BY <2>1 DEF SignedOnly
  <2>5. VerdictAction(answer).credit \in Nat /\ VerdictAction(answer).credit <= newest'
    BY <2>1, <2>4 DEF VerdictAction
  <2>6. poll' \in Task /\ poll'.at <= newest' /\ poll'.pc # "asked" /\ (poll'.pc = "record" => poll'.lic \in Lic)
    <3>1. CASE VerdictAction(answer).revoke
      BY <2>1, <2>4, <3>1 DEF Quiet, Task
    <3>2. CASE ~VerdictAction(answer).revoke
      BY <2>1, <2>3, <2>5, <3>2 DEF Task
    <3>3. QED
      BY <3>1, <3>2
  <2>7. \A l \in Lic : rows'[l].last <= newest'
    BY <2>2, <2>4 DEF SignedOnly, Epochs
  <2>8. QED
    BY <2>2, <2>4, <2>6, <2>7 DEF SignedOnly, ClockKept, PollerAsks
<1>3. CASE PollRecord
  <2> DEFINE seen(loaded) == Load(rows', poll.lic, loaded)
  <2>1. poll.lic \in Lic /\ poll.at \in Nat
    BY <1>3 DEF PollRecord, PollerAsks, Task
  <2>2. PICK written \in BOOLEAN, loaded \in BOOLEAN :
          /\ IF written THEN Record(poll.lic, poll.at, clock) ELSE rows' = rows
          /\ ObserveFreshness(seen(loaded))
    BY <1>3 DEF PollRecord
  <2>3. rows' \in [Lic -> Epochs] /\ \A k \in Lic : rows'[k].last <= newest
    <3>1. CASE written
      <4>1. Record(poll.lic, poll.at, clock)
        BY <2>2, <3>1
      <4>2. poll.at <= newest /\ \A k \in Lic : rows[k].last <= newest
        BY DEF SignedOnly
      <4>3. QED
        BY <2>1, <4>1, <4>2, RecordTypes
    <3>2. CASE ~written
      BY <2>2, <3>2 DEF SignedOnly
    <3>3. QED
      BY <3>1, <3>2
  <2>4. seen(loaded).last \in Nat /\ seen(loaded).highwater \in Nat /\ seen(loaded).last <= newest
    BY <2>1, <2>3, LoadTypes
  <2> HIDE DEF seen
  <2>5. last' \in Nat /\ last' <= newest
    BY <2>2, <2>4, GreaterBounds DEF SignedOnly, ObserveFreshness
  <2>6. highwater' \in Nat /\ highwater <= highwater'
    BY <2>2, <2>4, GreaterBounds DEF ObserveFreshness
  <2>7. poll' \in Task /\ poll'.pc = "idle" /\ poll'.at = 0
    BY <1>3 DEF PollRecord, Quiet, Task
  <2>8. UNCHANGED <<stored, snap, revoked, request, check, clock, real, restarts, newest, peak>>
    BY <1>3 DEF PollRecord, world
  <2>9. peak' <= highwater'
    BY <2>6, <2>8 DEF ClockKept
  <2>10. QED
    BY <2>3, <2>5, <2>6, <2>7, <2>8, <2>9 DEF SignedOnly, ClockKept, PollerAsks
<1>4. QED
  BY <1>1, <1>2, <1>3

(* A boot takes its freshness from the table. *)
LEMMA RestartStep ==
  ASSUME LicenseInv, Restart
  PROVE  LicenseInv'
<1> USE DEF LicenseInv, LicenseTypes
<1>1. PICK dbOk \in BOOLEAN, loaded \in BOOLEAN :
        LET start == LoadAndVerify(ResolveActiveToken(dbOk), clock)
            seed == Load(rows, start.lic, loaded) IN
        /\ snap' = start
        /\ last' = seed.last
        /\ highwater' = seed.highwater
        /\ peak' = seed.highwater
  BY DEF Restart
<1>2. snap'.lic \in Lic \cup {NoLic}
  BY <1>1, ResolveTypes, SnapshotIs
<1> DEFINE seed == Load(rows, snap'.lic, loaded)
<1>3. last' = seed.last /\ highwater' = seed.highwater /\ peak' = seed.highwater
  BY <1>1
<1>4. seed.last \in Nat /\ seed.highwater \in Nat /\ seed.last <= newest
  BY <1>2, LoadTypes DEF SignedOnly
<1> HIDE DEF seed
<1>5. check' = Quiet /\ poll' = Quiet /\ request' = [a \in Admin |-> Quiet]
  BY DEF Restart
<1>6. Quiet \in Task /\ Quiet \in Request /\ Quiet.pc = "idle" /\ Quiet.at = 0
  BY DEF Quiet, Task, Request
<1>7. UNCHANGED <<stored, rows, clock, real, newest>> /\ restarts' \in Nat
  BY DEF Restart
<1>8. LicenseTypes'
  BY <1>2, <1>3, <1>4, <1>5, <1>6, <1>7
<1>9. SignedOnly' /\ ClockKept' /\ PollerAsks'
  BY <1>3, <1>4, <1>5, <1>6, <1>7 DEF SignedOnly, ClockKept, PollerAsks
<1>10. QED
  BY <1>8, <1>9

(* The inductive invariant of the licence holds of every behaviour of LicenseState, its pollers and
   its handlers, whatever the clocks do. *)
THEOREM LicenseInvariance == LicenseSpec => []LicenseInv
<1>1. LicenseInit => LicenseInv
  <2> SUFFICES ASSUME LicenseInit PROVE LicenseInv
    OBVIOUS
  <2>1. Quiet \in Task /\ Quiet \in Request /\ Quiet.pc = "idle" /\ Quiet.at = 0
    BY DEF Quiet, Task, Request
  <2>2. rows \in [Lic -> Epochs] /\ \A l \in Lic : rows[l].last = 0
    BY DEF LicenseInit, NoRow, Epochs
  <2>3. snap.lic \in Lic \cup {NoLic}
    BY LicenseAssumption, SnapshotIs DEF LicenseInit
  <2>4. LicenseTypes
    BY <2>1, <2>2, <2>3 DEF LicenseInit, LicenseTypes
  <2>5. SignedOnly /\ ClockKept /\ PollerAsks
    BY <2>1, <2>2 DEF LicenseInit, SignedOnly, ClockKept, PollerAsks
  <2>6. QED
    BY <2>4, <2>5 DEF LicenseInv
<1>2. LicenseInv /\ [LicenseNext]_licVars => LicenseInv'
  <2> SUFFICES ASSUME LicenseInv, [LicenseNext]_licVars PROVE LicenseInv'
    OBVIOUS
  <2>1. ASSUME NEW a \in Admin,
               PutCommit(a) \/ PutApply(a) \/ DeleteCommit(a) \/ DeleteResolve(a) \/ DeleteApply(a) \/ Abandon(a)
        PROVE  LicenseInv'
    BY <2>1, RequestTypes, RequestStep DEF LicenseInv
  <2>2. CASE RecheckRead \/ RecheckApply \/ RecheckRecord
    BY <2>2, RecheckStep
  <2>3. CASE PollAsk \/ PollAnswer \/ PollRecord
    BY <2>3, PollStep
  <2>4. CASE Restart
    BY <2>4, RestartStep
  <2>5. CASE VendorRevokes
    BY <2>5 DEF VendorRevokes, memory, tasks, LicenseInv, LicenseTypes, SignedOnly, ClockKept, PollerAsks
  <2>6. CASE Tick \/ RollBack
    <3>1. UNCHANGED <<stored, rows, memory, tasks, newest, restarts, peak>>
      BY <2>6 DEF Tick, RollBack
    <3>2. clock' \in Nat /\ real' \in Nat /\ real <= real'
      BY <2>6 DEF Tick, RollBack, LicenseInv, LicenseTypes
    <3>3. newest' <= real'
      BY <3>1, <3>2 DEF LicenseInv, LicenseTypes, SignedOnly
    <3>4. QED
      BY <3>1, <3>2, <3>3 DEF memory, tasks, LicenseInv, LicenseTypes, SignedOnly, ClockKept, PollerAsks
  <2>7. CASE UNCHANGED licVars
    BY <2>7 DEF licVars, memory, tasks, world, LicenseInv, LicenseTypes, SignedOnly, ClockKept, PollerAsks
  <2>8. QED
    BY <2>1, <2>2, <2>3, <2>4, <2>5, <2>6, <2>7 DEF LicenseNext
<1>3. QED
  BY <1>1, <1>2, PTL DEF LicenseSpec

(* A gateway that says it is fresh has been signed for: neither the clock turned back, nor an
   unsigned answer, nor a restart after the time is in the database buys time offline, whatever the
   budgets of effective_status and license_gate are. *)
THEOREM FreshnessIsEarned == LicenseSpec => []NoFreeFreshness
<1>1. LicenseInv => NoFreeFreshness
  <2> SUFFICES ASSUME LicenseInv PROVE NoFreeFreshness
    OBVIOUS
  <2>0. /\ clock \in Nat /\ highwater \in Nat /\ peak \in Nat /\ last \in Nat /\ newest \in Nat
        /\ peak <= highwater /\ last <= newest
    BY DEF LicenseInv, LicenseTypes, ClockKept, SignedOnly
  <2>1. Greater(clock, highwater) \in Nat /\ peak <= Greater(clock, highwater)
    BY <2>0, GreaterBounds
  <2>2. EffectiveStatus = "valid" => ~(last + Soft < Greater(clock, highwater))
    BY DEF EffectiveStatus, ClassifyOffline
  <2>3. snap.status = "valid" /\ LicenseGate(FALSE) = "proceed" => ~(last + Hard < Greater(clock, highwater))
    BY DEF LicenseGate, IsHardStale, ClassifyOffline
  <2>4. ASSUME NEW budget \in Nat, ~(last + budget < Greater(clock, highwater))
        PROVE  peak <= newest + budget
    BY <2>0, <2>1, <2>4
  <2>5. Soft \in Nat /\ Hard \in Nat
    BY LicenseAssumption
  <2>6. QED
    BY <2>2, <2>3, <2>4, <2>5 DEF NoFreeFreshness
<1>2. QED
  BY <1>1, LicenseInvariance, PTL

(* A revocation is lifted by a valid licence other than the revoked one, or by a restart, and by
   nothing else: not by clear_revocation_if_superseded with the same token, the re-verification, a
   DELETE, nor a late answer of the vendor. *)
THEOREM RevocationStands == LicenseSpec => LiftedOnlyBySuccessor
<1>1. LicenseInv /\ [LicenseNext]_licVars => [SuccessorLifts]_licVars
  <2> SUFFICES ASSUME LicenseInv, LicenseNext, revoked # NoLic, revoked' # revoked
               PROVE  \/ restarts' # restarts
                      \/ revoked' = NoLic /\ snap'.status = "valid" /\ snap'.lic # revoked
    BY DEF SuccessorLifts
  <2>1. CASE \E a \in Admin : PutApply(a)
    <3>1. PICK a \in Admin : PutApply(a)
      BY <2>1
    <3>2. request[a].lic \in Lic \cup {NoLic} /\ request[a].at \in Nat
      BY DEF LicenseInv, LicenseTypes, Request
    <3>3. snap'.lic # NoLic => snap'.status = "valid"
      BY <3>1, <3>2, SnapshotIs DEF PutApply
    <3>4. QED
      BY <3>1, <3>3 DEF PutApply, ClearIfSuperseded
  <2>2. CASE Restart
    <3>1. restarts' = restarts + 1 /\ restarts \in Nat
      BY <2>2 DEF Restart, LicenseInv, LicenseTypes
    <3>2. QED
      BY <3>1
  <2>3. CASE PollAnswer
    BY <2>3 DEF PollAnswer, LicenseInv, PollerAsks
  <2>4. CASE ~(\E a \in Admin : PutApply(a)) /\ ~Restart /\ ~PollAnswer
    BY <2>4 DEF LicenseNext, PutCommit, DeleteCommit, DeleteResolve, DeleteApply, Abandon, RecheckRead,
                RecheckApply, RecheckRecord, PollAsk, PollRecord, VendorRevokes, Tick, RollBack, memory
  <2>5. QED
    BY <2>1, <2>2, <2>3, <2>4
<1>2. QED
  BY <1>1, LicenseInvariance, PTL DEF LicenseSpec, LiftedOnlyBySuccessor

(***************************************************************************)
(* The settings.                                                            *)
(***************************************************************************)
Capture == [enabled : BOOLEAN, days : Int]

Place == {"waiting", "mode", "mode read", "policy", "policy read", "capture", "capture desired",
          "capture read", "done", "failed"}
PutOf(S) == [pc : Place, body : Bodies \cup {NoBody}, seen : S]

SettingsTypes ==
  /\ capture \in Capture \cup {Unset}
  /\ captureTrail \in Seq([by : Put, before : Capture, after : Capture])
  /\ \E S : put \in [Put -> PutOf(S)]
  /\ \A p \in Put :
       /\ put[p].pc # "waiting" => put[p].body \in Bodies
       /\ put[p].pc = "capture desired" => put[p].seen.desired \in Capture
       /\ put[p].pc = "capture read" => put[p].seen.desired \in Capture /\ put[p].seen.before \in Capture

(* A request with a capture audit row is over. *)
AuthorsOver ==
  \A i \in DOMAIN captureTrail : put[captureTrail[i].by].pc \in {"done", "failed"}

(* Capture is asked for in a body only if that body asks for it, or a row on record does. *)
DesiredIsAsked ==
  \A p \in Put :
    (put[p].pc \in {"capture desired", "capture read"} /\ put[p].seen.desired.enabled) =>
      put[p].body.enabled = TRUE \/ \E j \in DOMAIN captureTrail : AskedBy(j)

SettingsInv == SettingsTypes /\ AuthorsOver /\ DesiredIsAsked /\ CaptureIsOnRecord

(* A request that moves to pc, with what it has read, is the only one to change. *)
LEMMA StepIs ==
  ASSUME SettingsTypes, NEW p \in Put, NEW pc \in Place, NEW seen, Step(p, pc, seen)
  PROVE  /\ \E S : put' \in [Put -> PutOf(S)]
         /\ put'[p].pc = pc /\ put'[p].body = put[p].body /\ put'[p].seen = seen
         /\ \A q \in Put : q # p => put'[q] = put[q]
<1>1. PICK S : put \in [Put -> PutOf(S)]
  BY DEF SettingsTypes
<1> DEFINE T == S \cup {seen}
           new == [put[p] EXCEPT !.pc = pc, !.seen = seen]
<1>2. put \in [Put -> PutOf(T)]
  BY <1>1 DEF PutOf
<1>3. new \in PutOf(T) /\ new.pc = pc /\ new.body = put[p].body /\ new.seen = seen
  BY <1>2 DEF PutOf
<1>4. put' = [put EXCEPT ![p] = new]
  BY DEF Step
<1> HIDE DEF new, T
<1>5. put' \in [Put -> PutOf(T)] /\ put'[p] = new /\ \A q \in Put : q # p => put'[q] = put[q]
  BY <1>2, <1>3, <1>4
<1>6. QED
  BY <1>3, <1>5

(* clamp_retention gives a number of days. *)
LEMMA ClampTypes ==
  ASSUME NEW days \in Int
  PROVE  ClampRetention(days) \in Int
BY SettingsAssumption DEF ClampRetention

(* What the repository reads, and what put_secure_mode asks for, is a capture setting. *)
LEMMA CaptureTypes ==
  ASSUME SettingsTypes
  PROVE  GetCapture \in Capture /\ \A b \in Bodies : Desired(b) \in Capture
<1>1. GetCapture \in Capture
  <2>1. DefaultCapture \in Capture
    BY DEF DefaultCapture, Capture
  <2>2. QED
    BY <2>1 DEF SettingsTypes, GetCapture
<1>2. GetCapture.enabled \in BOOLEAN /\ GetCapture.days \in Int
  BY <1>1 DEF Capture
<1>3. ASSUME NEW b \in Bodies PROVE Desired(b) \in Capture
  <2>1. b.enabled \in BOOLEAN \cup {Unset} /\ b.days \in Int \cup {Unset}
    BY SettingsAssumption
  <2>2. QED
    BY <1>2, <2>1 DEF Desired, Capture
<1>4. QED
  BY <1>1, <1>3

(* An entry of the capture trail, and its author. *)
LEMMA CaptureEntry ==
  ASSUME SettingsTypes, NEW i \in DOMAIN captureTrail
  PROVE  captureTrail[i] \in [by : Put, before : Capture, after : Capture] /\ captureTrail[i].by \in Put
<1>1. captureTrail \in Seq([by : Put, before : Capture, after : Capture])
  BY DEF SettingsTypes
<1>2. captureTrail[i] \in [by : Put, before : Capture, after : Capture]
  BY <1>1, LenProperties, ElementOfSeq
<1>3. QED
  BY <1>2

(* If capture is on, a row on record is by a request that asked for it. *)
LEMMA OnIsAsked ==
  ASSUME SettingsTypes, CaptureIsOnRecord, GetCapture.enabled
  PROVE  \E j \in DOMAIN captureTrail : AskedBy(j)
<1>1. capture # Unset
  BY DEF GetCapture, DefaultCapture
<1>2. GetCapture = capture /\ captureTrail # <<>>
  BY <1>1 DEF GetCapture, CaptureIsOnRecord
<1> DEFINE n == Len(captureTrail)
<1>3. n \in Nat /\ DOMAIN captureTrail = 1..n /\ n # 0
  BY <1>2, LenProperties, EmptySeq DEF SettingsTypes
<1>4. captureTrail[n].after = capture
  BY <1>1 DEF CaptureIsOnRecord
<1> HIDE DEF n
<1>5. n \in DOMAIN captureTrail /\ captureTrail[n].after.enabled
  BY <1>2, <1>3, <1>4
<1>6. \E j \in 1..n : AskedBy(j)
  BY <1>5 DEF CaptureIsOnRecord
<1>7. QED
  BY <1>3, <1>6

(* An index up to one of a sequence is one too. *)
LEMMA UpTo ==
  ASSUME NEW S, NEW s \in Seq(S), NEW i \in DOMAIN s, NEW j \in 1..i
  PROVE  j \in DOMAIN s
BY LenProperties

(* A step that writes no capture setting keeps the invariant, provided that the request it moves was
   not over, has read what its new place says, and does not end without a row it owes. *)
LEMMA QuietStep ==
  ASSUME SettingsInv, NEW p \in Put, UNCHANGED <<capture, captureTrail>>,
         put[p].pc \notin {"done", "failed"},
         \E S : put' \in [Put -> PutOf(S)],
         \A q \in Put : q # p => put'[q] = put[q],
         put'[p].pc # "waiting" => put'[p].body \in Bodies,
         put'[p].pc = "capture desired" => put'[p].seen.desired \in Capture,
         put'[p].pc = "capture read" => put'[p].seen.desired \in Capture /\ put'[p].seen.before \in Capture,
         put'[p].pc = "done" => ~NamesCapture(put'[p].body),
         put'[p].pc \in {"capture desired", "capture read"} /\ put'[p].seen.desired.enabled =>
           put'[p].body.enabled = TRUE \/ \E j \in DOMAIN captureTrail : AskedBy(j)
  PROVE  SettingsInv'
<1>1. SettingsTypes'
  BY DEF SettingsInv, SettingsTypes
<1>2. ASSUME NEW i \in DOMAIN captureTrail
      PROVE  captureTrail[i].by \in Put /\ captureTrail[i].by # p /\ put'[captureTrail[i].by] = put[captureTrail[i].by]
  <2>1. captureTrail[i].by \in Put
    BY CaptureEntry DEF SettingsInv
  <2>2. captureTrail[i].by # p
    BY DEF SettingsInv, AuthorsOver
  <2>3. QED
    BY <2>1, <2>2
<1>3. \A i \in DOMAIN captureTrail : AskedBy(i)' <=> AskedBy(i)
  BY <1>2 DEF AskedBy
<1>4. AuthorsOver'
  BY <1>2 DEF SettingsInv, AuthorsOver
<1>5. DesiredIsAsked'
  <2> SUFFICES ASSUME NEW q \in Put,
                      put'[q].pc \in {"capture desired", "capture read"}, put'[q].seen.desired.enabled
               PROVE  put'[q].body.enabled = TRUE \/ \E j \in DOMAIN captureTrail : AskedBy(j)'
    BY DEF DesiredIsAsked
  <2>1. put'[q].body.enabled = TRUE \/ \E j \in DOMAIN captureTrail : AskedBy(j)
    BY DEF SettingsInv, DesiredIsAsked
  <2>2. QED
    BY <1>3, <2>1
<1>6. CaptureIsOnRecord'
  <2>1. \A q \in Put : put'[q].pc = "done" /\ NamesCapture(put'[q].body) =>
          \E i \in DOMAIN captureTrail : captureTrail[i].by = q
    BY DEF SettingsInv, CaptureIsOnRecord
  <2>2. ASSUME NEW i \in DOMAIN captureTrail, captureTrail[i].after.enabled PROVE \E j \in 1..i : AskedBy(j)'
    <3>1. PICK j \in 1..i : AskedBy(j)
      BY <2>2 DEF SettingsInv, CaptureIsOnRecord
    <3>2. j \in DOMAIN captureTrail
      BY <3>1, UpTo DEF SettingsInv, SettingsTypes
    <3>3. QED
      BY <1>3, <3>1, <3>2
  <2>3. QED
    BY <2>1, <2>2 DEF SettingsInv, CaptureIsOnRecord
<1>7. QED
  BY <1>1, <1>4, <1>5, <1>6 DEF SettingsInv

(* The capture setting and its audit row are written together, by a request that is then over. *)
LEMMA CaptureStep ==
  ASSUME SettingsInv, NEW p \in Put, CaptureWrite(p)
  PROVE  SettingsInv'
<1> DEFINE desired == put[p].seen.desired
           before == put[p].seen.before
           new == [desired EXCEPT !.days = ClampRetention(@)]
           entry == [by |-> p, before |-> before, after |-> new]
<1>1. put[p].pc = "capture read" /\ SettingsTypes /\ AuthorsOver /\ DesiredIsAsked /\ CaptureIsOnRecord
  BY DEF CaptureWrite, SettingsInv
<1>2. desired \in Capture /\ before \in Capture
  BY <1>1 DEF SettingsTypes
<1>3. new \in Capture /\ new.enabled = desired.enabled
  BY <1>2, ClampTypes DEF Capture
<1>4. capture' = new /\ captureTrail' = Append(captureTrail, entry)
  BY DEF CaptureWrite, UpsertCapture
<1>5. entry \in [by : Put, before : Capture, after : Capture] /\ entry.by = p /\ entry.after = new
  BY <1>2, <1>3
<1>6. captureTrail \in Seq([by : Put, before : Capture, after : Capture])
  BY <1>1 DEF SettingsTypes
<1>o. desired.enabled => put[p].body.enabled = TRUE \/ \E j \in DOMAIN captureTrail : AskedBy(j)
  BY <1>1 DEF DesiredIsAsked
<1> HIDE DEF desired, before, new, entry
<1>n. PICK n \in Nat : n = Len(captureTrail)
  BY <1>6, LenProperties
<1>7. /\ captureTrail' \in Seq([by : Put, before : Capture, after : Capture])
      /\ Len(captureTrail') = n + 1
      /\ \A i \in 1..n : captureTrail'[i] = captureTrail[i]
      /\ captureTrail'[n + 1] = entry
  BY <1>4, <1>5, <1>6, <1>n, AppendProperties
<1>8. /\ \E S : put' \in [Put -> PutOf(S)]
      /\ put'[p].pc \in {"done", "failed"} /\ put'[p].body = put[p].body
      /\ \A q \in Put : q # p => put'[q] = put[q]
  <2>1. PICK end \in {"done", "failed"} : Step(p, end, Unset)
    BY DEF CaptureWrite, Committed
  <2>2. QED
    BY <1>1, <2>1, StepIs DEF Place
<1>9. put'[p].body \in Bodies
  BY <1>1, <1>8 DEF SettingsTypes
<1>10. SettingsTypes'
  BY <1>1, <1>3, <1>4, <1>7, <1>8, <1>9 DEF SettingsTypes
<1>11. new # Unset
  BY <1>3, SettingsAssumption DEF Capture
<1>12. n \in Nat /\ DOMAIN captureTrail = 1..n /\ DOMAIN captureTrail' = 1..(n + 1)
  BY <1>6, <1>7, <1>n, LenProperties
<1>13. captureTrail' # <<>>
  BY <1>7, <1>12, EmptySeq
<1>14. \A i \in 1..n : /\ captureTrail[i].by \in Put /\ captureTrail[i].by # p
                       /\ put'[captureTrail[i].by] = put[captureTrail[i].by]
  <2>1. ASSUME NEW i \in 1..n PROVE captureTrail[i].by \in Put /\ captureTrail[i].by # p
    <3>1. captureTrail[i].by \in Put
      BY <1>1, <1>12, CaptureEntry
    <3>2. captureTrail[i].by # p
      BY <1>1, <1>12 DEF AuthorsOver
    <3>3. QED
      BY <3>1, <3>2
  <2>2. QED
    BY <1>8, <2>1
<1>15. /\ \A i \in 1..n : AskedBy(i)' <=> AskedBy(i)
       /\ AskedBy(n + 1)' <=> put[p].body.enabled = TRUE
  BY <1>5, <1>7, <1>8, <1>14 DEF AskedBy
<1>m. \A j \in 1..n : j \in 1..(n + 1)
  BY <1>n
<1>16. AuthorsOver'
  <2> SUFFICES ASSUME NEW i \in 1..(n + 1) PROVE put'[captureTrail'[i].by].pc \in {"done", "failed"}
    BY <1>12 DEF AuthorsOver
  <2>1. CASE i = n + 1
    BY <1>5, <1>7, <1>8, <2>1
  <2>2. CASE i \in 1..n
    BY <1>1, <1>7, <1>12, <1>14, <2>2 DEF AuthorsOver
  <2>3. QED
    BY <1>12, <2>1, <2>2
<1>17. DesiredIsAsked'
  <2> SUFFICES ASSUME NEW q \in Put,
                      put'[q].pc \in {"capture desired", "capture read"}, put'[q].seen.desired.enabled
               PROVE  put'[q].body.enabled = TRUE \/ \E j \in DOMAIN captureTrail' : AskedBy(j)'
    BY DEF DesiredIsAsked
  <2>1. q # p /\ put'[q] = put[q]
    BY <1>8
  <2>2. put[q].body.enabled = TRUE \/ \E j \in 1..n : AskedBy(j)
    BY <1>1, <1>12, <2>1 DEF DesiredIsAsked
  <2>4. put'[q].body.enabled = TRUE \/ \E j \in 1..(n + 1) : AskedBy(j)'
    BY <1>15, <1>m, <2>1, <2>2
  <2>5. QED
    BY <1>12, <2>4
<1>18. CaptureIsOnRecord'
  <2>1. captureTrail'[Len(captureTrail')].after = capture'
    BY <1>4, <1>5, <1>7
  <2>2. ASSUME NEW q \in Put, put'[q].pc = "done", NamesCapture(put'[q].body)
        PROVE  \E i \in DOMAIN captureTrail' : captureTrail'[i].by = q
    <3>1. CASE q = p
      BY <1>5, <1>7, <1>12, <3>1
    <3>2. CASE q # p
      <4>1. PICK i \in 1..n : captureTrail[i].by = q
        BY <1>1, <1>8, <1>12, <2>2, <3>2 DEF CaptureIsOnRecord
      <4>2. i \in DOMAIN captureTrail'
        BY <1>12
      <4>3. QED
        BY <1>7, <4>1, <4>2
    <3>3. QED
      BY <3>1, <3>2
  <2>3. ASSUME NEW i \in DOMAIN captureTrail', captureTrail'[i].after.enabled PROVE \E j \in 1..i : AskedBy(j)'
    <3>1. CASE i = n + 1
      <4>1. desired.enabled
        BY <1>3, <1>5, <1>7, <2>3, <3>1
      <4>2. put[p].body.enabled = TRUE \/ \E j \in 1..n : AskedBy(j)
        BY <1>12, <1>o, <4>1
      <4>3. QED
        BY <1>12, <1>15, <3>1, <4>2
    <3>2. CASE i \in 1..n
      <4>1. PICK j \in 1..i : AskedBy(j)
        BY <1>1, <1>7, <1>12, <2>3, <3>2 DEF CaptureIsOnRecord
      <4>2. j \in 1..n
        BY <1>12, <3>2
      <4>3. QED
        BY <1>15, <4>1, <4>2
    <3>3. QED
      BY <1>12, <3>1, <3>2
  <2>4. QED
    BY <1>4, <1>11, <1>13, <2>1, <2>2, <2>3 DEF CaptureIsOnRecord
<1>19. QED
  BY <1>10, <1>16, <1>17, <1>18 DEF SettingsInv

(* Whatever requests overlap and wherever they fail, a lost reply to a COMMIT included, the stored
   capture setting is the one the last audit row describes, a request that succeeded has its row, and
   capture is on only where a request that asked for it is on record. *)
THEOREM CaptureOnRecord == SettingsSpec => []CaptureIsOnRecord
<1>1. SettingsInit => SettingsInv
  <2> SUFFICES ASSUME SettingsInit PROVE SettingsInv
    OBVIOUS
  <2>1. put = [p \in Put |-> Waiting] /\ capture = Unset /\ captureTrail = <<>>
    BY DEF SettingsInit
  <2>2. Waiting \in PutOf({Unset}) /\ Waiting.pc = "waiting"
    BY DEF Waiting, PutOf, Place
  <2>3. put \in [Put -> PutOf({Unset})] /\ \A p \in Put : put[p].pc = "waiting"
    BY <2>1, <2>2
  <2>4. SettingsTypes
    BY <2>1, <2>3, EmptySeq DEF SettingsTypes
  <2>5. captureTrail = <<>> /\ DOMAIN captureTrail = {}
    BY <2>1
  <2>6. CaptureIsOnRecord /\ AuthorsOver /\ DesiredIsAsked
    BY <2>1, <2>3, <2>5 DEF CaptureIsOnRecord, AuthorsOver, DesiredIsAsked
  <2>7. QED
    BY <2>4, <2>6 DEF SettingsInv
<1>2. SettingsInv /\ [SettingsNext]_settingVars => SettingsInv'
  <2> SUFFICES ASSUME SettingsInv, [SettingsNext]_settingVars PROVE SettingsInv'
    OBVIOUS
  <2>0. SettingsTypes
    BY DEF SettingsInv
  <2>1. ASSUME NEW p \in Put, PutStart(p) PROVE SettingsInv'
    <3>1. PICK b \in Bodies : put' = [put EXCEPT ![p].pc = "mode", ![p].body = b]
      BY <2>1 DEF PutStart
    <3>2. PICK S : put \in [Put -> PutOf(S)]
      BY <2>0 DEF SettingsTypes
    <3> DEFINE new == [put[p] EXCEPT !.pc = "mode", !.body = b]
    <3>3. new \in PutOf(S) /\ new.pc = "mode" /\ new.body = b
      BY <3>2 DEF PutOf, Place
    <3>4. put' = [put EXCEPT ![p] = new]
      BY <3>1
    <3> HIDE DEF new
    <3>5. put' \in [Put -> PutOf(S)] /\ put'[p] = new /\ \A q \in Put : q # p => put'[q] = put[q]
      BY <3>2, <3>3, <3>4
    <3>6. UNCHANGED <<capture, captureTrail>> /\ put[p].pc = "waiting"
      BY <2>1 DEF PutStart
    <3>7. QED
      BY <3>3, <3>5, <3>6, QuietStep
  <2>2. ASSUME NEW p \in Put, NEW pc \in Place, NEW seen, Step(p, pc, seen), UNCHANGED <<capture, captureTrail>>,
               put[p].pc \notin {"waiting", "done", "failed"},
               pc = "capture desired" => seen.desired \in Capture,
               pc = "capture read" => seen.desired \in Capture /\ seen.before \in Capture,
               pc = "done" => ~NamesCapture(put[p].body),
               pc \in {"capture desired", "capture read"} /\ seen.desired.enabled =>
                 put[p].body.enabled = TRUE \/ \E j \in DOMAIN captureTrail : AskedBy(j)
        PROVE  SettingsInv'
    <3>1. /\ \E S : put' \in [Put -> PutOf(S)]
          /\ put'[p].pc = pc /\ put'[p].body = put[p].body /\ put'[p].seen = seen
          /\ \A q \in Put : q # p => put'[q] = put[q]
      BY <2>0, <2>2, StepIs
    <3>2. put[p].body \in Bodies
      BY <2>0, <2>2 DEF SettingsTypes
    <3>3. QED
      BY <2>2, <3>1, <3>2, QuietStep
  <2>3. ASSUME NEW p \in Put, ModeRead(p) \/ ModeWrite(p) \/ PolicyRead(p) \/ PolicyWrite(p) \/ PutFails(p)
        PROVE  SettingsInv'
    <3>1. \E pc \in {"mode read", "policy", "policy read", "capture", "failed"} : \E seen : Step(p, pc, seen)
      BY <2>3 DEF ModeRead, ModeWrite, PolicyRead, PolicyWrite, PutFails, Committed
    <3>2. UNCHANGED <<capture, captureTrail>> /\ put[p].pc \notin {"waiting", "done", "failed"}
      BY <2>3 DEF ModeRead, ModeWrite, PolicyRead, PolicyWrite, PutFails
    <3>3. QED
      BY <2>2, <3>1, <3>2 DEF Place
  <2>4. ASSUME NEW p \in Put, CaptureRead(p) PROVE SettingsInv'
    <3>1. UNCHANGED <<capture, captureTrail>> /\ put[p].pc = "capture"
      BY <2>4 DEF CaptureRead
    <3>2. put[p].body \in Bodies
      BY <2>0, <3>1 DEF SettingsTypes
    <3>3. Desired(put[p].body) \in Capture
      BY <2>0, <3>2, CaptureTypes
    <3>4. \/ Step(p, "done", Unset) /\ ~NamesCapture(put[p].body)
          \/ Step(p, "capture desired", [desired |-> Desired(put[p].body)])
      BY <2>4 DEF CaptureRead, NamesCapture
    <3>5. ASSUME Desired(put[p].body).enabled
          PROVE  put[p].body.enabled = TRUE \/ \E j \in DOMAIN captureTrail : AskedBy(j)
      <4>1. put[p].body.enabled \in BOOLEAN \cup {Unset}
        BY <3>2, SettingsAssumption
      <4>2. CASE put[p].body.enabled = Unset
        <5>1. GetCapture.enabled
          BY <3>5, <4>2 DEF Desired
        <5>2. QED
          BY <2>0, <5>1, OnIsAsked DEF SettingsInv
      <4>3. CASE put[p].body.enabled # Unset
        BY <3>5, <4>1, <4>3 DEF Desired
      <4>4. QED
        BY <4>2, <4>3
    <3>6. QED
      BY <2>2, <3>1, <3>3, <3>4, <3>5 DEF Place
  <2>5. ASSUME NEW p \in Put, CaptureBefore(p) PROVE SettingsInv'
    <3>1. UNCHANGED <<capture, captureTrail>> /\ put[p].pc = "capture desired"
      BY <2>5 DEF CaptureBefore
    <3>2. put[p].seen.desired \in Capture /\ GetCapture \in Capture
      BY <2>0, <3>1, CaptureTypes DEF SettingsTypes
    <3>3. Step(p, "capture read", [desired |-> put[p].seen.desired, before |-> GetCapture])
      BY <2>5 DEF CaptureBefore
    <3>4. put[p].seen.desired.enabled =>
            put[p].body.enabled = TRUE \/ \E j \in DOMAIN captureTrail : AskedBy(j)
      BY <3>1 DEF SettingsInv, DesiredIsAsked
    <3>5. QED
      BY <2>2, <3>1, <3>2, <3>3, <3>4 DEF Place
  <2>6. ASSUME NEW p \in Put, CaptureWrite(p) PROVE SettingsInv'
    BY <2>6, CaptureStep
  <2>7. CASE UNCHANGED settingVars
    BY <2>7 DEF settingVars, SettingsInv, SettingsTypes, AuthorsOver, DesiredIsAsked, CaptureIsOnRecord, AskedBy
  <2>8. QED
    BY <2>1, <2>3, <2>4, <2>5, <2>6, <2>7 DEF SettingsNext
<1>3. SettingsInv => CaptureIsOnRecord
  BY DEF SettingsInv
<1>4. QED
  BY <1>1, <1>2, <1>3, PTL DEF SettingsSpec

(***************************************************************************)
(* The policy rules.                                                        *)
(***************************************************************************)
Job == [pc : {"idle", "create", "update", "update locked", "enabled", "dry run", "enqueue"},
        rule : Rule \cup {NoRule}, new : Columns \cup {NoRule}]

RulesTypes ==
  /\ row \in [Rule -> Columns \cup {NoRule}]
  /\ lock \in [Rule -> Editor \cup {Nobody}]
  /\ trail = [r \in Rule |-> trail[r]]
  /\ \A r \in Rule : \E S : trail[r] \in Seq(S)
  /\ job \in [Editor -> Job]
  /\ \A a \in Editor : job[a].pc # "idle" => job[a].rule \in Rule /\ job[a].new \in Columns

(* A locked rule is there. *)
RowsInv == \A r \in Rule : lock[r] # Nobody => Exists(r)

(* Whoever is between the read of the old values and the commit holds the row, and a toggle still
   knows what the row says. *)
HoldersInv ==
  \A a \in Editor :
    /\ job[a].pc \in {"update locked", "enabled", "dry run"} => lock[job[a].rule] = a
    /\ job[a].pc \in {"enabled", "dry run"} => job[a].new = row[job[a].rule]

(* A creation is alone with its rule. *)
CreatorsInv ==
  \A a \in Editor :
    job[a].pc = "create" =>
      /\ Fresh(job[a].rule)
      /\ \A b \in Editor : b # a => job[b].rule # job[a].rule

RulesInv == RulesTypes /\ RowsInv /\ HoldersInv /\ CreatorsInv /\ TrailReplays

(* The replay of one column over a trail t: entry i is the last before j to speak of it; none does
   before j; what an entry says the column was is what the one before left, or the seed; the trail
   leaves the column at v. *)
Prior(t, c, i, j) ==
  /\ c \in DOMAIN t[i].says
  /\ \A k \in (i + 1)..(j - 1) : c \notin DOMAIN t[k].says
Silent(t, c, j) == \A k \in 1..(j - 1) : c \notin DOMAIN t[k].says
Agrees(t, c) ==
  \A j \in 1..Len(t), i \in 1..Len(t) :
    (i < j /\ Prior(t, c, i, j) /\ c \in DOMAIN t[j].says) => t[j].says[c].before = t[i].says[c].after
Begins(t, c) ==
  \A j \in 1..Len(t) :
    (Silent(t, c, j) /\ c \in DOMAIN t[j].says) => t[j].act = "created" \/ t[j].says[c].before = DefaultRule[c]
Leaves(t, c, v) ==
  \/ \E i \in 1..Len(t) : Prior(t, c, i, Len(t) + 1) /\ t[i].says[c].after = v
  \/ Silent(t, c, Len(t) + 1) /\ v = DefaultRule[c]

(* TrailReplays in those words. *)
LEMMA ReplayIs ==
  TrailReplays <=> \A r \in Rule, c \in Column :
                     /\ Agrees(trail[r], c) /\ Begins(trail[r], c)
                     /\ Exists(r) => Leaves(trail[r], c, row[r][c])
BY DEF TrailReplays, Precedes, Unspoken, Prior, Silent, Agrees, Begins, Leaves

(* Up to its old end a trail is the same after an entry is appended. *)
LEMMA AppendKeeps ==
  ASSUME NEW S, NEW t \in Seq(S), NEW e, NEW c,
         NEW i \in 1..Len(t), NEW j \in 1..(Len(t) + 1)
  PROVE  Prior(Append(t, e), c, i, j) <=> Prior(t, c, i, j)
<1>1. t \in Seq(S \cup {e}) /\ e \in S \cup {e}
  BY SeqMonotonic
<1>2. Len(t) \in Nat /\ \A k \in 1..Len(t) : Append(t, e)[k] = t[k]
  BY <1>1, AppendProperties, LenProperties
<1>3. \A k \in (i + 1)..(j - 1) : k \in 1..Len(t)
  BY <1>2
<1>4. QED
  BY <1>2, <1>3 DEF Prior

(* And as silent. *)
LEMMA AppendSilent ==
  ASSUME NEW S, NEW t \in Seq(S), NEW e, NEW c, NEW j \in 1..(Len(t) + 1)
  PROVE  Silent(Append(t, e), c, j) <=> Silent(t, c, j)
<1>1. t \in Seq(S \cup {e}) /\ e \in S \cup {e}
  BY SeqMonotonic
<1>2. Len(t) \in Nat /\ \A k \in 1..Len(t) : Append(t, e)[k] = t[k]
  BY <1>1, AppendProperties, LenProperties
<1>3. \A k \in 1..(j - 1) : k \in 1..Len(t)
  BY <1>2
<1>4. QED
  BY <1>2, <1>3 DEF Silent

(* An entry that speaks of the column with the value the trail left goes on with the replay. *)
LEMMA SpeakingEntry ==
  ASSUME NEW S, NEW t \in Seq(S), NEW e, NEW c, Agrees(t, c), Begins(t, c), c \in DOMAIN e.says,
         (t = <<>> /\ e.act = "created") \/ Leaves(t, c, e.says[c].before)
  PROVE  Agrees(Append(t, e), c) /\ Begins(Append(t, e), c) /\ Leaves(Append(t, e), c, e.says[c].after)
<1> DEFINE u == Append(t, e)
           n == Len(t)
<1>1. t \in Seq(S \cup {e}) /\ e \in S \cup {e}
  BY SeqMonotonic
<1>2. n \in Nat /\ Len(u) = n + 1 /\ u[n + 1] = e /\ \A k \in 1..n : u[k] = t[k]
  BY <1>1, AppendProperties, LenProperties
<1>3. \A i \in 1..n, j \in 1..(n + 1) : Prior(u, c, i, j) <=> Prior(t, c, i, j)
  BY AppendKeeps
<1>s. \A j \in 1..(n + 1) : Silent(u, c, j) <=> Silent(t, c, j)
  BY AppendSilent
<1> HIDE DEF u, n
<1>4. Leaves(u, c, e.says[c].after)
  BY <1>2 DEF Leaves, Prior
<1>5. ASSUME NEW j \in 1..Len(u), NEW i \in 1..Len(u), i < j, Prior(u, c, i, j), c \in DOMAIN u[j].says
      PROVE  u[j].says[c].before = u[i].says[c].after
  <2>1. i \in 1..n /\ u[i] = t[i] /\ Prior(t, c, i, j)
    BY <1>2, <1>3, <1>5
  <2>2. CASE j = n + 1
    <3>1. t # <<>>
      BY <2>1, <1>2, EmptySeq DEF n
    <3>0. ~Silent(t, c, n + 1)
      BY <1>2, <2>1 DEF Prior, Silent
    <3>2. PICK k \in 1..n : Prior(t, c, k, n + 1) /\ t[k].says[c].after = e.says[c].before
      BY <3>0, <3>1 DEF Leaves, n
    <3>3. k = i
      <4>1. ~(k < i)
        BY <1>2, <2>1, <2>2, <3>2 DEF Prior
      <4>2. ~(i < k)
        BY <1>2, <2>1, <2>2, <3>2 DEF Prior
      <4>3. QED
        BY <1>2, <2>1, <4>1, <4>2
    <3>4. QED
      BY <1>2, <2>1, <2>2, <3>2, <3>3
  <2>3. CASE j # n + 1
    <3>1. j \in 1..n /\ u[j] = t[j]
      BY <1>2, <2>3
    <3>2. QED
      BY <1>5, <2>1, <3>1 DEF Agrees, n
  <2>4. QED
    BY <2>2, <2>3
<1>6. Agrees(u, c)
  BY <1>5 DEF Agrees
<1>7. ASSUME NEW j \in 1..Len(u), Silent(u, c, j), c \in DOMAIN u[j].says
      PROVE  u[j].act = "created" \/ u[j].says[c].before = DefaultRule[c]
  <2>1. CASE j = n + 1
    <3>1. CASE t = <<>> /\ e.act = "created"
      BY <1>2, <2>1, <3>1
    <3>2. CASE Leaves(t, c, e.says[c].before)
      <4>1. \A k \in 1..n : c \notin DOMAIN t[k].says
        BY <1>2, <1>7, <2>1 DEF Silent
      <4>2. e.says[c].before = DefaultRule[c]
        BY <3>2, <4>1 DEF Leaves, Prior, n
      <4>3. QED
        BY <1>2, <2>1, <4>2
    <3>3. QED
      BY <3>1, <3>2
  <2>2. CASE j # n + 1
    <3>1. j \in 1..n /\ u[j] = t[j]
      BY <1>2, <2>2
    <3>2. Silent(t, c, j)
      BY <1>2, <1>s, <1>7, <3>1
    <3>3. QED
      BY <1>7, <3>1, <3>2 DEF Begins, n
  <2>3. QED
    BY <2>1, <2>2
<1>8. Begins(u, c)
  BY <1>7 DEF Begins
<1>9. QED
  BY <1>4, <1>6, <1>8 DEF u

(* An entry that says nothing of the column leaves it where it was. *)
LEMMA SilentEntry ==
  ASSUME NEW S, NEW t \in Seq(S), NEW e, NEW c, NEW v, Agrees(t, c), Begins(t, c),
         c \notin DOMAIN e.says, Leaves(t, c, v)
  PROVE  Agrees(Append(t, e), c) /\ Begins(Append(t, e), c) /\ Leaves(Append(t, e), c, v)
<1> DEFINE u == Append(t, e)
           n == Len(t)
<1>1. t \in Seq(S \cup {e}) /\ e \in S \cup {e}
  BY SeqMonotonic
<1>2. n \in Nat /\ Len(u) = n + 1 /\ u[n + 1] = e /\ \A k \in 1..n : u[k] = t[k]
  BY <1>1, AppendProperties, LenProperties
<1>3. \A i \in 1..n, j \in 1..(n + 1) : Prior(u, c, i, j) <=> Prior(t, c, i, j)
  BY AppendKeeps
<1>s. \A j \in 1..(n + 1) : Silent(u, c, j) <=> Silent(t, c, j)
  BY AppendSilent
<1> HIDE DEF u, n
<1>4. Leaves(u, c, v)
  <2>1. ASSUME NEW i \in 1..n, Prior(t, c, i, n + 1), t[i].says[c].after = v PROVE Leaves(u, c, v)
    <3>1. Prior(u, c, i, n + 1)
      BY <1>2, <1>3, <2>1
    <3>2. \A k \in (i + 1)..(n + 1) : k \in (i + 1)..n \/ k = n + 1
      BY <1>2
    <3>3. Prior(u, c, i, n + 2)
      BY <1>2, <3>1, <3>2 DEF Prior
    <3>4. QED
      BY <1>2, <2>1, <3>3 DEF Leaves
  <2>2. ASSUME Silent(t, c, n + 1), v = DefaultRule[c] PROVE Leaves(u, c, v)
    <3>1. \A k \in 1..(n + 1) : k \in 1..n \/ k = n + 1
      BY <1>2
    <3>2. Silent(u, c, n + 2)
      BY <1>2, <2>2, <3>1 DEF Silent
    <3>3. QED
      BY <1>2, <2>2, <3>2 DEF Leaves
  <2>3. QED
    BY <2>1, <2>2 DEF Leaves, n
<1>5. ASSUME NEW j \in 1..Len(u), NEW i \in 1..Len(u), i < j, Prior(u, c, i, j), c \in DOMAIN u[j].says
      PROVE  u[j].says[c].before = u[i].says[c].after
  <2>1. j # n + 1
    BY <1>2, <1>5
  <2>2. j \in 1..n /\ i \in 1..n
    BY <1>2, <1>5, <2>1
  <2>3. u[j] = t[j] /\ u[i] = t[i] /\ Prior(t, c, i, j)
    BY <1>2, <1>3, <1>5, <2>2
  <2>4. QED
    BY <1>5, <2>2, <2>3 DEF Agrees, n
<1>6. Agrees(u, c)
  BY <1>5 DEF Agrees
<1>7. ASSUME NEW j \in 1..Len(u), Silent(u, c, j), c \in DOMAIN u[j].says
      PROVE  u[j].act = "created" \/ u[j].says[c].before = DefaultRule[c]
  <2>1. j # n + 1
    BY <1>2, <1>7
  <2>2. j \in 1..n /\ u[j] = t[j]
    BY <1>2, <2>1
  <2>3. Silent(t, c, j)
    BY <1>2, <1>s, <1>7, <2>2
  <2>4. QED
    BY <1>7, <2>2, <2>3 DEF Begins, n
<1>8. Begins(u, c)
  BY <1>7 DEF Begins
<1>9. QED
  BY <1>4, <1>6, <1>8 DEF u

(* What an audit row has to say of rule r when the row becomes new: of each column it mentions the
   value the rule had, unless it begins the trail, and the value the rule now has; and it mentions
   every column that moves. *)
Reports(r, act, says, new) ==
  \A c \in Column :
    /\ c \in DOMAIN says =>
         /\ (trail[r] = <<>> /\ act = "created") \/ (Exists(r) /\ says[c].before = row[r][c])
         /\ new # NoRule => says[c].after = new[c]
    /\ c \notin DOMAIN says =>
         /\ Exists(r)
         /\ new # NoRule => new[c] = row[r][c]

(* An audit row that reports what happens to its rule keeps the replay of every rule. *)
LEMMA WriteStep ==
  ASSUME RulesTypes, TrailReplays, NEW r \in Rule, NEW act, NEW says, Write(r, act, says),
         \A q \in Rule : q # r => row'[q] = row[q],
         Reports(r, act, says, row'[r])
  PROVE  /\ TrailReplays'
         /\ trail' = [q \in Rule |-> trail'[q]]
         /\ \A q \in Rule : \E S : trail'[q] \in Seq(S)
         /\ trail'[r] # <<>>
         /\ \A q \in Rule : q # r => trail'[q] = trail[q]
<1> DEFINE e == [act |-> act, says |-> says]
<1>0. e.says = says /\ e.act = act
  OBVIOUS
<1>1. trail' = [trail EXCEPT ![r] = Append(trail[r], e)]
  BY DEF Write
<1> HIDE DEF e
<1>2. trail = [q \in Rule |-> trail[q]] /\ \A q \in Rule : \E S : trail[q] \in Seq(S)
  BY DEF RulesTypes
<1>3. /\ trail' = [q \in Rule |-> trail'[q]]
      /\ trail'[r] = Append(trail[r], e)
      /\ \A q \in Rule : q # r => trail'[q] = trail[q]
  BY <1>1, <1>2
<1>4. PICK S : trail[r] \in Seq(S)
  BY <1>2
<1>5. trail'[r] \in Seq(S \cup {e}) /\ trail'[r] # <<>>
  <2>1. trail[r] \in Seq(S \cup {e}) /\ e \in S \cup {e}
    BY <1>4, SeqMonotonic
  <2>2. trail'[r] \in Seq(S \cup {e}) /\ Len(trail'[r]) = Len(trail[r]) + 1 /\ Len(trail[r]) \in Nat
    BY <1>3, <2>1, AppendProperties, LenProperties
  <2>3. QED
    BY <2>2, EmptySeq
<1>6. \A q \in Rule : \E T : trail'[q] \in Seq(T)
  BY <1>2, <1>3, <1>5
<1>7. ASSUME NEW q \in Rule, NEW c \in Column
      PROVE  /\ Agrees(trail'[q], c) /\ Begins(trail'[q], c)
             /\ row'[q] # NoRule => Leaves(trail'[q], c, row'[q][c])
  <2>0. /\ Agrees(trail[q], c) /\ Begins(trail[q], c)
        /\ row[q] # NoRule => Leaves(trail[q], c, row[q][c])
    BY ReplayIs DEF Exists
  <2>1. CASE q # r
    BY <1>3, <2>0, <2>1
  <2>2. CASE q = r /\ c \in DOMAIN says
    <3>1. (trail[r] = <<>> /\ e.act = "created") \/ Leaves(trail[r], c, e.says[c].before)
      BY <1>0, <2>0, <2>2 DEF Exists, Reports
    <3>2. /\ Agrees(Append(trail[r], e), c) /\ Begins(Append(trail[r], e), c)
          /\ Leaves(Append(trail[r], e), c, e.says[c].after)
      BY <1>0, <1>4, <2>0, <2>2, <3>1, SpeakingEntry
    <3>3. QED
      BY <1>0, <1>3, <2>2, <3>2 DEF Reports
  <2>3. CASE q = r /\ c \notin DOMAIN says
    <3>1. Leaves(trail[r], c, row[r][c])
      BY <2>0, <2>3 DEF Exists, Reports
    <3>2. /\ Agrees(Append(trail[r], e), c) /\ Begins(Append(trail[r], e), c)
          /\ Leaves(Append(trail[r], e), c, row[r][c])
      BY <1>0, <1>4, <2>0, <2>3, <3>1, SilentEntry
    <3>3. QED
      BY <1>3, <2>3, <3>2 DEF Reports
  <2>4. QED
    BY <2>1, <2>2, <2>3
<1>8. TrailReplays'
  <2>1. \A q \in Rule, c \in Column :
          /\ Agrees(trail'[q], c) /\ Begins(trail'[q], c)
          /\ row'[q] # NoRule => Leaves(trail'[q], c, row'[q][c])
    BY <1>7
  <2>2. QED
    BY <2>1 DEF TrailReplays, Precedes, Unspoken, Prior, Silent, Agrees, Begins, Leaves, Exists
<1>9. QED
  BY <1>3, <1>5, <1>6, <1>8

(* The columns of a rule are those the audit rows report. *)
LEMMA ColumnsAre ==
  ASSUME NEW new \in Columns, NEW c \in Column, NEW value \in BOOLEAN
  PROVE  /\ [new EXCEPT !.enabled = value] \in Columns
         /\ [new EXCEPT !.dry_run = value] \in Columns
         /\ [new EXCEPT !.enabled = value][c] = IF c = "enabled" THEN value ELSE new[c]
         /\ [new EXCEPT !.dry_run = value][c] = IF c = "dry_run" THEN value ELSE new[c]
         /\ new # NoRule
<1>1. CASE c = "priority"
  BY <1>1, RulesAssumption DEF Columns
<1>2. CASE c = "enabled"
  BY <1>2, RulesAssumption DEF Columns
<1>3. CASE c = "dry_run"
  BY <1>3, RulesAssumption DEF Columns
<1>4. QED
  BY <1>1, <1>2, <1>3 DEF Column

(* One request moves and the rules stay. *)
LEMMA JobMoves ==
  ASSUME RulesTypes, NEW a \in Editor, NEW x \in Job, job' = [job EXCEPT ![a] = x]
  PROVE  job' \in [Editor -> Job] /\ job'[a] = x /\ \A b \in Editor : b # a => job'[b] = job[b]
BY DEF RulesTypes

(* A commit by a, who is the only one with a lock on the rule or a creation of it, leaves the other
   requests what they rely on. *)
LEMMA CommitStep ==
  ASSUME RulesInv, NEW a \in Editor, NEW r \in Rule, NEW x \in Job, job' = [job EXCEPT ![a] = x],
         x.pc = "idle" \/ (x.pc = "enqueue" /\ x.rule = r /\ x.new \in Columns),
         x.rule \in {r, NoRule},
         row' \in [Rule -> Columns \cup {NoRule}], row'[r] \in Columns,
         \A q \in Rule : q # r => row'[q] = row[q],
         trail' = [q \in Rule |-> trail'[q]], \A q \in Rule : \E S : trail'[q] \in Seq(S),
         trail'[r] # <<>>, \A q \in Rule : q # r => trail'[q] = trail[q],
         lock' \in [Rule -> Editor \cup {Nobody}],
         \A q \in Rule : q # r => lock'[q] = lock[q],
         \A b \in Editor : b # a /\ job[b].pc \in {"create", "update locked", "enabled", "dry run"}
                             => job[b].rule # r
  PROVE  RulesTypes' /\ RowsInv' /\ HoldersInv' /\ CreatorsInv'
<1>1. job' \in [Editor -> Job] /\ job'[a] = x /\ \A b \in Editor : b # a => job'[b] = job[b]
  BY JobMoves DEF RulesInv
<1>2. row'[r] # NoRule
  BY RulesAssumption DEF Columns
<1>3. \A b \in Editor : job[b].pc # "idle" => job[b].rule \in Rule /\ job[b].new \in Columns
  BY DEF RulesInv, RulesTypes
<1>4. \A b \in Editor : job'[b].pc # "idle" => job'[b].rule \in Rule /\ job'[b].new \in Columns
  BY <1>1, <1>3
<1>5. RulesTypes'
  BY <1>1, <1>4 DEF RulesTypes
<1>6. RowsInv'
  <2>1. ASSUME NEW q \in Rule PROVE lock'[q] # Nobody => row'[q] # NoRule
    BY <1>2 DEF RulesInv, RowsInv, Exists
  <2>2. QED
    BY <2>1 DEF RowsInv, Exists
<1>7. HoldersInv'
  <2>1. ASSUME NEW b \in Editor
        PROVE  /\ job'[b].pc \in {"update locked", "enabled", "dry run"} => lock'[job'[b].rule] = b
               /\ job'[b].pc \in {"enabled", "dry run"} => job'[b].new = row'[job'[b].rule]
    <3>1. CASE b = a
      BY <1>1, <3>1
    <3>2. CASE b # a
      BY <1>1, <1>3, <3>2, ZenonT(60) DEF RulesInv, HoldersInv
    <3>3. QED
      BY <3>1, <3>2
  <2>2. QED
    BY <2>1 DEF HoldersInv
<1>8. CreatorsInv'
  <2>1. ASSUME NEW b \in Editor, job'[b].pc = "create"
        PROVE  /\ row'[job'[b].rule] = NoRule /\ trail'[job'[b].rule] = <<>>
               /\ \A d \in Editor : d # b => job'[d].rule # job'[b].rule
    <3>1. b # a /\ job[b].pc = "create" /\ job'[b] = job[b] /\ job[b].rule \in Rule /\ job[b].rule # r
      BY <1>1, <1>3, <2>1
    <3>2. row'[job'[b].rule] = NoRule /\ trail'[job'[b].rule] = <<>>
      <4>1. row[job[b].rule] = NoRule /\ trail[job[b].rule] = <<>>
        BY <3>1 DEF RulesInv, CreatorsInv, Fresh, Exists
      <4>2. trail'[job[b].rule] = trail[job[b].rule] /\ row'[job[b].rule] = row[job[b].rule]
        BY <3>1, Zenon
      <4>3. QED
        BY <3>1, <4>1, <4>2, Zenon
    <3>3. ASSUME NEW d \in Editor, d # b PROVE job'[d].rule # job[b].rule
      <4>1. CASE d = a
        BY <1>1, <3>1, <4>1, RulesAssumption
      <4>2. CASE d # a
        BY <1>1, <3>1, <3>3, <4>2 DEF RulesInv, CreatorsInv
      <4>3. QED
        BY <4>1, <4>2
    <3>4. QED
      BY <3>1, <3>2, <3>3
  <2>2. QED
    BY <2>1 DEF CreatorsInv, Fresh, Exists
<1>9. QED
  BY <1>5, <1>6, <1>7, <1>8

(* What a request that is past its lock can count on. *)
LEMMA HoldsRow ==
  ASSUME RulesInv, NEW a \in Editor, job[a].pc \in {"update locked", "enabled", "dry run"}
  PROVE  /\ job[a].rule \in Rule /\ job[a].new \in Columns
         /\ lock[job[a].rule] = a /\ Exists(job[a].rule) /\ ~Fresh(job[a].rule)
         /\ row[job[a].rule] \in Columns
         /\ \A b \in Editor : b # a /\ job[b].pc \in {"create", "update locked", "enabled", "dry run"}
                                => job[b].rule # job[a].rule
<1>1. job[a].rule \in Rule /\ job[a].new \in Columns
  BY DEF RulesInv, RulesTypes
<1>2. lock[job[a].rule] = a
  BY DEF RulesInv, HoldersInv
<1>3. Exists(job[a].rule) /\ ~Fresh(job[a].rule)
  BY <1>1, <1>2, RulesAssumption DEF RulesInv, RowsInv, Fresh
<1>4. row[job[a].rule] \in Columns
  BY <1>1, <1>3 DEF RulesInv, RulesTypes, Exists
<1>5. ASSUME NEW b \in Editor, b # a, job[b].pc \in {"create", "update locked", "enabled", "dry run"}
      PROVE  job[b].rule # job[a].rule
  BY <1>2, <1>3, <1>5 DEF RulesInv, HoldersInv, CreatorsInv
<1>6. QED
  BY <1>1, <1>2, <1>3, <1>4, <1>5

(* create_rule begins the trail of its rule. *)
LEMMA CreateStep ==
  ASSUME RulesInv, NEW a \in Editor, CreateCommit(a)
  PROVE  RulesInv'
<1> DEFINE r == job[a].rule
           new == job[a].new
           x == [job[a] EXCEPT !.pc = "enqueue"]
           says == [c \in Column |-> [after |-> new[c]]]
<1>1. job[a].pc = "create" /\ RulesTypes /\ TrailReplays
  BY DEF CreateCommit, RulesInv
<1>2. r \in Rule /\ new \in Columns /\ job[a] \in Job
  BY <1>1 DEF RulesTypes
<1>3. x \in Job /\ x.pc = "enqueue" /\ x.rule = r /\ x.new = new
  BY <1>2 DEF Job
<1>4. trail[r] = <<>> /\ \A b \in Editor : b # a => job[b].rule # r
  BY <1>1 DEF RulesInv, CreatorsInv, Fresh
<1>5. /\ row' = [row EXCEPT ![r] = new] /\ Write(r, "created", says)
      /\ job' = [job EXCEPT ![a] = x] /\ lock' = lock
  BY DEF CreateCommit, CreateRow
<1>6. DOMAIN says = Column /\ \A c \in Column : says[c].after = new[c]
  OBVIOUS
<1> HIDE DEF r, new, x, says
<1>7. row' \in [Rule -> Columns \cup {NoRule}] /\ row'[r] = new /\ \A q \in Rule : q # r => row'[q] = row[q]
  BY <1>1, <1>2, <1>5 DEF RulesTypes
<1>8. /\ TrailReplays'
      /\ trail' = [q \in Rule |-> trail'[q]]
      /\ \A q \in Rule : \E S : trail'[q] \in Seq(S)
      /\ trail'[r] # <<>>
      /\ \A q \in Rule : q # r => trail'[q] = trail[q]
  <2>1. Reports(r, "created", says, row'[r])
    BY <1>4, <1>6, <1>7 DEF Reports
  <2>2. QED
    BY <1>1, <1>2, <1>5, <1>7, <2>1, WriteStep
<1>9. lock' \in [Rule -> Editor \cup {Nobody}]
  BY <1>1, <1>5 DEF RulesTypes
<1>10. RulesTypes' /\ RowsInv' /\ HoldersInv' /\ CreatorsInv'
  <2>1. x.pc = "idle" \/ (x.pc = "enqueue" /\ x.rule = r /\ x.new \in Columns)
    BY <1>2, <1>3
  <2>2. x.rule \in {r, NoRule} /\ row'[r] \in Columns /\ job' = [job EXCEPT ![a] = x]
    BY <1>2, <1>3, <1>5, <1>7
  <2>3. \A q \in Rule : q # r => lock'[q] = lock[q]
    BY <1>5
  <2>4. \A b \in Editor : b # a /\ job[b].pc \in {"create", "update locked", "enabled", "dry run"}
                             => job[b].rule # r
    BY <1>4
  <2>5. QED
    BY <1>2, <1>3, <1>7, <1>8, <1>9, <2>1, <2>2, <2>3, <2>4, CommitStep, ZenonT(60)
<1>11. QED
  BY <1>8, <1>10 DEF RulesInv

(* update_rule commits under the lock: the values before are those of the row. *)
LEMMA UpdateStep ==
  ASSUME RulesInv, NEW a \in Editor, UpdateCommit(a)
  PROVE  RulesInv'
<1> DEFINE r == job[a].rule
           new == job[a].new
           x == [job[a] EXCEPT !.pc = "enqueue"]
           moved == {c \in Column : row[r][c] # new[c]}
           says == [c \in moved |-> [before |-> row[r][c], after |-> new[c]]]
<1>1. job[a].pc = "update locked" /\ RulesTypes /\ TrailReplays
  BY DEF UpdateCommit, RulesInv
<1>2. /\ r \in Rule /\ new \in Columns /\ Exists(r)
      /\ \A b \in Editor : b # a /\ job[b].pc \in {"create", "update locked", "enabled", "dry run"}
                             => job[b].rule # r
  BY <1>1, HoldsRow
<1>3. x \in Job /\ x.pc = "enqueue" /\ x.rule = r /\ x.new = new
  BY <1>1, <1>2 DEF RulesTypes, Job
<1>4. /\ row' = [row EXCEPT ![r] = new] /\ Write(r, "updated", says)
      /\ job' = [job EXCEPT ![a] = x] /\ lock' = [lock EXCEPT ![r] = Nobody]
  BY DEF UpdateCommit, UpdateRow
<1>5. \A c \in Column :
        /\ c \in DOMAIN says => says[c].before = row[r][c] /\ says[c].after = new[c]
        /\ c \notin DOMAIN says => new[c] = row[r][c]
  OBVIOUS
<1> HIDE DEF r, new, x, says, moved
<1>6. row' \in [Rule -> Columns \cup {NoRule}] /\ row'[r] = new /\ \A q \in Rule : q # r => row'[q] = row[q]
  BY <1>1, <1>2, <1>4 DEF RulesTypes
<1>7. /\ TrailReplays'
      /\ trail' = [q \in Rule |-> trail'[q]]
      /\ \A q \in Rule : \E S : trail'[q] \in Seq(S)
      /\ trail'[r] # <<>>
      /\ \A q \in Rule : q # r => trail'[q] = trail[q]
  <2>1. Reports(r, "updated", says, row'[r])
    BY <1>2, <1>5, <1>6 DEF Reports
  <2>2. Write(r, "updated", says) /\ \A q \in Rule : q # r => row'[q] = row[q]
    BY <1>4, <1>6
  <2>3. QED
    BY <1>1, <1>2, <2>1, <2>2, WriteStep
<1>8. lock' \in [Rule -> Editor \cup {Nobody}] /\ \A q \in Rule : q # r => lock'[q] = lock[q]
  BY <1>1, <1>4 DEF RulesTypes
<1>9. RulesTypes' /\ RowsInv' /\ HoldersInv' /\ CreatorsInv'
  <2>1. x.pc = "idle" \/ (x.pc = "enqueue" /\ x.rule = r /\ x.new \in Columns)
    BY <1>2, <1>3
  <2>2. x.rule \in {r, NoRule} /\ row'[r] \in Columns /\ job' = [job EXCEPT ![a] = x]
    BY <1>2, <1>3, <1>4, <1>6
  <2>3. QED
    BY <1>2, <1>3, <1>6, <1>7, <1>8, <2>1, <2>2, CommitStep, ZenonT(60)
<1>10. QED
  BY <1>7, <1>9 DEF RulesInv

(* The toggles commit under the lock what they read under it. *)
LEMMA ToggleStep ==
  ASSUME RulesInv, NEW a \in Editor, ToggleEnabled(a) \/ ToggleDryRun(a)
  PROVE  RulesInv'
<1> DEFINE r == job[a].rule
<1>1. job[a].pc \in {"enabled", "dry run"} /\ RulesTypes /\ TrailReplays
  BY DEF ToggleEnabled, ToggleDryRun, RulesInv
<1>2. /\ r \in Rule /\ Exists(r) /\ row[r] \in Columns
      /\ \A b \in Editor : b # a /\ job[b].pc \in {"create", "update locked", "enabled", "dry run"}
                             => job[b].rule # r
  BY <1>1, HoldsRow
<1>3. job[a].new = row[r]
  BY <1>1 DEF RulesInv, HoldersInv
<1>4. NoJob \in Job /\ NoJob.pc = "idle" /\ NoJob.rule = NoRule
  BY DEF NoJob, Job
<1>5. job' = [job EXCEPT ![a] = NoJob] /\ lock' = [lock EXCEPT ![r] = Nobody]
  BY DEF ToggleEnabled, ToggleDryRun, Finish
<1>6. PICK value \in BOOLEAN, f \in {"enabled", "dry_run"}, act \in {"enabled_changed", "dry_run_changed"} :
        /\ row' = [row EXCEPT ![r] = [row[r] EXCEPT ![f] = value]]
        /\ Write(r, act, [c \in {f} |-> [before |-> row[r][f], after |-> value]])
  <2>1. CASE ToggleEnabled(a)
    <3>1. PICK value \in BOOLEAN : SetEnabled(r, row[r], value)
      BY <1>3, <2>1 DEF ToggleEnabled
    <3>2. row' = [row EXCEPT ![r] = [row[r] EXCEPT !["enabled"] = value]]
      BY <3>1 DEF SetEnabled
    <3>3. [enabled |-> [before |-> row[r].enabled, after |-> value]]
            = [c \in {"enabled"} |-> [before |-> row[r]["enabled"], after |-> value]]
      OBVIOUS
    <3>4. QED
      BY <3>1, <3>2, <3>3 DEF SetEnabled
  <2>2. CASE ToggleDryRun(a)
    <3>1. PICK value \in BOOLEAN : SetDryRun(r, row[r], value)
      BY <1>3, <2>2 DEF ToggleDryRun
    <3>2. row' = [row EXCEPT ![r] = [row[r] EXCEPT !["dry_run"] = value]]
      BY <3>1 DEF SetDryRun
    <3>3. [dry_run |-> [before |-> row[r].dry_run, after |-> value]]
            = [c \in {"dry_run"} |-> [before |-> row[r]["dry_run"], after |-> value]]
      OBVIOUS
    <3>4. QED
      BY <3>1, <3>2, <3>3 DEF SetDryRun
  <2>3. QED
    BY <2>1, <2>2
<1> DEFINE new == [row[r] EXCEPT ![f] = value]
           says == [c \in {f} |-> [before |-> row[r][f], after |-> value]]
<1>7. new \in Columns /\ \A c \in Column : new[c] = IF c = f THEN value ELSE row[r][c]
  <2>1. \A c \in Column : /\ [row[r] EXCEPT !.enabled = value] \in Columns
                          /\ [row[r] EXCEPT !.dry_run = value] \in Columns
                          /\ [row[r] EXCEPT !.enabled = value][c] = IF c = "enabled" THEN value ELSE row[r][c]
                          /\ [row[r] EXCEPT !.dry_run = value][c] = IF c = "dry_run" THEN value ELSE row[r][c]
    BY <1>2, <1>6, ColumnsAre, ZenonT(60)
  <2>2. "enabled" \in Column
    BY DEF Column
  <2>3. CASE f = "enabled"
    <3>1. new = [row[r] EXCEPT !.enabled = value]
      BY <2>3
    <3> HIDE DEF new
    <3>2. QED
      BY <2>1, <2>2, <2>3, <3>1
  <2>4. CASE f = "dry_run"
    <3>1. new = [row[r] EXCEPT !.dry_run = value]
      BY <2>4
    <3> HIDE DEF new
    <3>2. QED
      BY <2>1, <2>2, <2>4, <3>1
  <2>5. QED
    BY <1>6, <2>3, <2>4
<1>8. \A c \in Column :
        /\ c \in DOMAIN says => c = f /\ says[c].before = row[r][c] /\ says[c].after = value
        /\ c \notin DOMAIN says => c # f
  OBVIOUS
<1>9. row' = [row EXCEPT ![r] = new] /\ Write(r, act, says)
  BY <1>6
<1> HIDE DEF r, new, says
<1>10. row' \in [Rule -> Columns \cup {NoRule}] /\ row'[r] = new /\ \A q \in Rule : q # r => row'[q] = row[q]
  BY <1>1, <1>2, <1>7, <1>9 DEF RulesTypes
<1>11. /\ TrailReplays'
       /\ trail' = [q \in Rule |-> trail'[q]]
       /\ \A q \in Rule : \E S : trail'[q] \in Seq(S)
       /\ trail'[r] # <<>>
       /\ \A q \in Rule : q # r => trail'[q] = trail[q]
  <2>1. Reports(r, act, says, row'[r])
    BY <1>2, <1>7, <1>8, <1>10 DEF Reports
  <2>2. Write(r, act, says) /\ \A q \in Rule : q # r => row'[q] = row[q]
    BY <1>9, <1>10
  <2>3. QED
    BY <1>1, <1>2, <2>1, <2>2, WriteStep
<1>12. lock' \in [Rule -> Editor \cup {Nobody}] /\ \A q \in Rule : q # r => lock'[q] = lock[q]
  BY <1>1, <1>5 DEF RulesTypes
<1>13. RulesTypes' /\ RowsInv' /\ HoldersInv' /\ CreatorsInv'
  <2>1. NoJob.rule \in {r, NoRule} /\ row'[r] \in Columns
    BY <1>4, <1>7, <1>10
  <2>2. NoJob.pc = "idle" \/ (NoJob.pc = "enqueue" /\ NoJob.rule = r /\ NoJob.new \in Columns)
    BY <1>4
  <2>3. NoJob \in Job /\ job' = [job EXCEPT ![a] = NoJob]
    BY <1>4, <1>5
  <2> HIDE DEF NoJob
  <2>4. QED
    BY <1>2, <1>10, <1>11, <1>12, <2>1, <2>2, <2>3, CommitStep, ZenonT(60)
<1>14. QED
  BY <1>11, <1>13 DEF RulesInv

(* DELETE waits for the lock, so that nobody is between a read and a commit. *)
LEMMA DeleteStep ==
  ASSUME RulesInv, DeleteRule
  PROVE  RulesInv'
<1>1. PICK r \in Rule : /\ Exists(r) /\ lock[r] = Nobody /\ DeleteRow(r)
                        /\ UNCHANGED <<lock, job, queue, indexed, worker>>
  BY DEF DeleteRule
<1> DEFINE says == [c \in Column |-> [before |-> row[r][c]]]
<1>2. row' = [row EXCEPT ![r] = NoRule] /\ Write(r, "deleted", says)
  BY <1>1 DEF DeleteRow
<1>3. DOMAIN says = Column /\ \A c \in Column : says[c].before = row[r][c]
  OBVIOUS
<1> HIDE DEF says
<1>4. RulesTypes /\ TrailReplays
  BY DEF RulesInv
<1>5. row' \in [Rule -> Columns \cup {NoRule}] /\ row'[r] = NoRule /\ \A q \in Rule : q # r => row'[q] = row[q]
  BY <1>2, <1>4 DEF RulesTypes
<1>6. Reports(r, "deleted", says, row'[r])
  BY <1>1, <1>3, <1>5 DEF Reports
<1>7. /\ TrailReplays'
      /\ trail' = [q \in Rule |-> trail'[q]]
      /\ \A q \in Rule : \E S : trail'[q] \in Seq(S)
      /\ trail'[r] # <<>>
      /\ \A q \in Rule : q # r => trail'[q] = trail[q]
  BY <1>2, <1>4, <1>5, <1>6, WriteStep
<1>8. lock' = lock /\ job' = job
  BY <1>1
<1>9. RulesTypes'
  BY <1>4, <1>5, <1>7, <1>8 DEF RulesTypes
<1>10. RowsInv'
  <2>1. ASSUME NEW q \in Rule PROVE lock'[q] # Nobody => row'[q] # NoRule
    BY <1>1, <1>5, <1>8 DEF RulesInv, RowsInv, Exists
  <2>2. QED
    BY <2>1 DEF RowsInv, Exists
<1>11. HoldersInv'
  <2>1. ASSUME NEW a \in Editor, job[a].pc \in {"update locked", "enabled", "dry run"}
        PROVE  job[a].rule \in Rule /\ job[a].rule # r /\ lock[job[a].rule] = a
    <3>1. job[a].rule \in Rule /\ lock[job[a].rule] = a
      BY <2>1, HoldsRow
    <3>2. QED
      BY <1>1, <3>1, RulesAssumption
  <2>2. QED
    BY <1>5, <1>8, <2>1 DEF RulesInv, HoldersInv
<1>12. CreatorsInv'
  <2>1. ASSUME NEW a \in Editor, job[a].pc = "create"
        PROVE  row'[job[a].rule] = NoRule /\ trail'[job[a].rule] = <<>>
    <3>1. job[a].rule \in Rule /\ row[job[a].rule] = NoRule /\ trail[job[a].rule] = <<>>
      BY <1>4, <2>1 DEF RulesInv, RulesTypes, CreatorsInv, Fresh, Exists
    <3>2. job[a].rule # r
      BY <1>1, <3>1 DEF Exists
    <3>3. QED
      BY <1>5, <1>7, <3>1, <3>2
  <2>2. QED
    BY <1>8, <2>1 DEF RulesInv, CreatorsInv, Fresh, Exists
<1>13. QED
  BY <1>7, <1>9, <1>10, <1>11, <1>12 DEF RulesInv

(* The replay is a matter of the rules and their trails only. *)
LEMMA ReplayStays ==
  ASSUME TrailReplays, row' = row, trail' = trail
  PROVE  TrailReplays'
BY DEF TrailReplays, Precedes, Unspoken, Exists

(* A step that commits nothing: request a moves to x and takes or frees locks of its own. *)
LEMMA LockStep ==
  ASSUME RulesInv, NEW a \in Editor, NEW x \in Job, job' = [job EXCEPT ![a] = x],
         UNCHANGED <<row, trail>>, lock' \in [Rule -> Editor \cup {Nobody}],
         \A q \in Rule : lock'[q] # lock[q] => lock[q] \in {a, Nobody} /\ lock'[q] \in {a, Nobody},
         \A q \in Rule : lock'[q] # Nobody => Exists(q),
         x.pc # "idle" => x.rule \in Rule /\ x.new \in Columns,
         x.pc \in {"update locked", "enabled", "dry run"} => lock'[x.rule] = a,
         x.pc \in {"enabled", "dry run"} => x.new = row[x.rule],
         x.pc = "create" => Fresh(x.rule) /\ \A b \in Editor : b # a => job[b].rule # x.rule,
         \A b \in Editor : b # a /\ job[b].pc = "create" => x.rule # job[b].rule
  PROVE  RulesInv'
<1>1. job' \in [Editor -> Job] /\ job'[a] = x /\ \A b \in Editor : b # a => job'[b] = job[b]
  BY JobMoves DEF RulesInv
<1>2. \A b \in Editor : job[b].pc # "idle" => job[b].rule \in Rule /\ job[b].new \in Columns
  BY DEF RulesInv, RulesTypes
<1>3. RulesTypes'
  BY <1>1, <1>2 DEF RulesInv, RulesTypes
<1>4. RowsInv'
  BY DEF RulesInv, RowsInv, Fresh, Exists
<1>5. HoldersInv'
  <2>1. ASSUME NEW b \in Editor
        PROVE  /\ job'[b].pc \in {"update locked", "enabled", "dry run"} => lock'[job'[b].rule] = b
               /\ job'[b].pc \in {"enabled", "dry run"} => job'[b].new = row[job'[b].rule]
    <3>1. CASE b = a
      BY <1>1, <3>1
    <3>2. CASE b # a
      BY <1>1, <1>2, <3>2, RulesAssumption, ZenonT(60) DEF RulesInv, HoldersInv
    <3>3. QED
      BY <3>1, <3>2
  <2>2. QED
    BY <2>1 DEF HoldersInv
<1>6. CreatorsInv'
  <2>1. ASSUME NEW b \in Editor, job'[b].pc = "create"
        PROVE  Fresh(job'[b].rule) /\ \A d \in Editor : d # b => job'[d].rule # job'[b].rule
    <3>1. CASE b = a
      BY <1>1, <2>1, <3>1
    <3>2. CASE b # a
      <4>1. job'[b] = job[b] /\ Fresh(job[b].rule) /\ \A d \in Editor : d # b => job[d].rule # job[b].rule
        BY <1>1, <2>1, <3>2 DEF RulesInv, CreatorsInv
      <4>2. x.rule # job[b].rule
        BY <2>1, <3>2, <4>1
      <4>3. QED
        BY <1>1, <4>1, <4>2
    <3>3. QED
      BY <3>1, <3>2
  <2>2. QED
    BY <2>1 DEF CreatorsInv, Fresh, Exists
<1>7. TrailReplays'
  <2>1. trail' = trail /\ row' = row /\ TrailReplays
    BY DEF RulesInv
  <2>2. QED
    BY <2>1, ReplayStays
<1>8. QED
  BY <1>3, <1>4, <1>5, <1>6, <1>7 DEF RulesInv

(* The requests up to their commits, those that fail and the push after the commit. *)
LEMMA RequestsStep ==
  ASSUME RulesInv, NEW a \in Editor,
         CheckPriority(a) \/ UpdateLock(a) \/ ToggleLock(a) \/ Abort(a) \/ EnqueueIndexTask(a)
  PROVE  RulesInv'
<1>0. /\ UNCHANGED <<row, trail>> /\ job[a] \in Job
      /\ row \in [Rule -> Columns \cup {NoRule}] /\ lock \in [Rule -> Editor \cup {Nobody}]
      /\ \A q \in Rule : lock[q] # Nobody => Exists(q)
      /\ \A q \in Rule : Fresh(q) => ~Exists(q)
      /\ \A b \in Editor : job[b].pc = "create" => job[b].rule \in Rule /\ Fresh(job[b].rule)
  BY DEF RulesInv, RulesTypes, RowsInv, CreatorsInv, Fresh, CheckPriority, UpdateLock, ToggleLock, Abort, EnqueueIndexTask
<1>1. CASE CheckPriority(a)
  <2>1. PICK r \in Rule, new \in Columns, call \in {"create", "update"} :
          /\ call = "create" => Fresh(r) /\ \A b \in Editor : job[b].rule # r
          /\ call = "update" => Exists(r)
          /\ job' = [job EXCEPT ![a] = [pc |-> call, rule |-> r, new |-> new]]
    BY <1>1 DEF CheckPriority
  <2> DEFINE x == [pc |-> call, rule |-> r, new |-> new]
  <2>2. x \in Job /\ x.pc = call /\ x.rule = r /\ x.new = new /\ job' = [job EXCEPT ![a] = x]
    BY <2>1 DEF Job
  <2>3. lock' = lock
    BY <1>1 DEF CheckPriority
  <2> HIDE DEF x
  <2>4. x.pc \notin {"idle", "update locked", "enabled", "dry run"}
    BY <2>1, <2>2
  <2>5. \A b \in Editor : b # a /\ job[b].pc = "create" => x.rule # job[b].rule
    BY <1>0, <2>1, <2>2
  <2>6. x.pc = "create" => Fresh(x.rule) /\ \A b \in Editor : b # a => job[b].rule # x.rule
    BY <2>1, <2>2
  <2>7. QED
    BY <1>0, <2>2, <2>3, <2>4, <2>5, <2>6, LockStep
<1>2. CASE UpdateLock(a)
  <2> DEFINE r == job[a].rule
             x == [job[a] EXCEPT !.pc = "update locked"]
  <2>1. job[a].pc = "update" /\ lock[r] = Nobody /\ Exists(r) /\ lock' = [lock EXCEPT ![r] = a]
    BY <1>2 DEF UpdateLock, LockRow
  <2>2. job' = [job EXCEPT ![a] = x]
    BY <1>2 DEF UpdateLock
  <2>3. r \in Rule /\ job[a].new \in Columns
    BY <2>1 DEF RulesInv, RulesTypes
  <2>4. x \in Job /\ x.pc = "update locked" /\ x.rule = r /\ x.new \in Columns
    BY <1>0, <2>3 DEF Job
  <2> HIDE DEF x, r
  <2>5. /\ lock' \in [Rule -> Editor \cup {Nobody}] /\ lock'[r] = a
        /\ \A q \in Rule : lock'[q] # lock[q] => lock[q] \in {a, Nobody} /\ lock'[q] \in {a, Nobody}
        /\ \A q \in Rule : lock'[q] # Nobody => Exists(q)
    BY <1>0, <2>1, <2>3
  <2>6. \A b \in Editor : b # a /\ job[b].pc = "create" => x.rule # job[b].rule
    BY <1>0, <2>1, <2>4
  <2>7. x.pc # "idle" /\ x.pc # "create" /\ x.pc \notin {"enabled", "dry run"} /\ x.rule \in Rule /\ lock'[x.rule] = a
    BY <2>3, <2>4, <2>5
  <2>8. QED
    BY <1>0, <2>2, <2>4, <2>5, <2>6, <2>7, LockStep
<1>3. CASE ToggleLock(a)
  <2>1. PICK r \in Rule, call \in {"enabled", "dry run"} :
          /\ Exists(r)
          /\ lock[r] = Nobody
          /\ lock' = [lock EXCEPT ![r] = a]
          /\ job' = [job EXCEPT ![a] = [pc |-> call, rule |-> r, new |-> row[r]]]
    BY <1>3 DEF ToggleLock
  <2> DEFINE x == [pc |-> call, rule |-> r, new |-> row[r]]
  <2>2. row[r] \in Columns
    BY <1>0, <2>1 DEF Exists
  <2>3. x \in Job /\ x.pc = call /\ x.rule = r /\ x.new = row[r] /\ job' = [job EXCEPT ![a] = x]
    BY <2>1, <2>2 DEF Job
  <2> HIDE DEF x
  <2>4. /\ lock' \in [Rule -> Editor \cup {Nobody}] /\ lock'[r] = a
        /\ \A q \in Rule : lock'[q] # lock[q] => lock[q] \in {a, Nobody} /\ lock'[q] \in {a, Nobody}
        /\ \A q \in Rule : lock'[q] # Nobody => Exists(q)
    BY <1>0, <2>1
  <2>5. \A b \in Editor : b # a /\ job[b].pc = "create" => x.rule # job[b].rule
    BY <1>0, <2>1, <2>3
  <2>6. x.pc # "create" /\ x.rule \in Rule /\ x.new \in Columns /\ x.new = row[x.rule] /\ lock'[x.rule] = a
    BY <2>1, <2>2, <2>3, <2>4
  <2>7. QED
    BY <1>0, <2>3, <2>4, <2>5, <2>6, LockStep
<1>4. CASE Abort(a) \/ EnqueueIndexTask(a)
  <2>1. job' = [job EXCEPT ![a] = NoJob]
    BY <1>4 DEF Abort, EnqueueIndexTask, Finish
  <2>2. NoJob \in Job /\ NoJob.pc = "idle" /\ NoJob.rule = NoRule
    BY DEF NoJob, Job
  <2>3. lock' = [q \in Rule |-> IF lock[q] = a THEN Nobody ELSE lock[q]] \/ lock' = lock
    BY <1>4 DEF Abort, EnqueueIndexTask
  <2>4. /\ lock' \in [Rule -> Editor \cup {Nobody}]
        /\ \A q \in Rule : lock'[q] # lock[q] => lock[q] \in {a, Nobody} /\ lock'[q] \in {a, Nobody}
        /\ \A q \in Rule : lock'[q] # Nobody => Exists(q)
    BY <1>0, <2>3
  <2>5. \A b \in Editor : b # a /\ job[b].pc = "create" => NoJob.rule # job[b].rule
    BY <1>0, <2>2, RulesAssumption
  <2>6. NoJob.pc \notin {"create", "update locked", "enabled", "dry run"}
    BY <2>2
  <2>7. QED
    BY <1>0, <2>1, <2>2, <2>4, <2>5, <2>6, LockStep
<1>5. QED
  BY <1>1, <1>2, <1>3, <1>4

(* However creations, edits, toggles and deletions of any number of administrators overlap, the
   audit rows of a rule replay to the rule: each before is the after of the row before it, since
   update_rule, set_enabled and set_dry_run hold the row from the read to the commit and DELETE waits
   for it. *)
THEOREM TrailsReplay == RulesSpec => []TrailReplays
<1>1. RulesInit => RulesInv
  <2> SUFFICES ASSUME RulesInit PROVE RulesInv
    OBVIOUS
  <2>1. NoJob \in Job /\ NoJob.pc = "idle"
    BY DEF NoJob, Job
  <2>2. /\ \A r \in Rule : lock[r] = Nobody /\ trail[r] = <<>> /\ Len(trail[r]) = 0
        /\ \A a \in Editor : job[a].pc = "idle"
    BY <2>1, EmptySeq DEF RulesInit
  <2>r. row \in [Rule -> {DefaultRule, NoRule}] /\ DefaultRule \in Columns
    BY RulesAssumption DEF RulesInit, Columns
  <2>3. RulesTypes
    <3>1. \A r \in Rule : trail[r] \in Seq({})
      BY <2>2, EmptySeq
    <3>2. QED
      BY <2>1, <2>2, <2>r, <3>1 DEF RulesInit, RulesTypes
  <2>4. RowsInv /\ HoldersInv /\ CreatorsInv
    BY <2>2 DEF RowsInv, HoldersInv, CreatorsInv, Fresh, Exists
  <2>5. TrailReplays
    <3>1. \A r \in Rule, c \in Column : Unspoken(r, c, Len(trail[r]) + 1)
      BY <2>2 DEF Unspoken
    <3>2. \A r \in Rule : Exists(r) => row[r] = DefaultRule
      BY <2>r DEF Exists
    <3>3. QED
      BY <2>2, <3>1, <3>2 DEF TrailReplays
  <2>6. QED
    BY <2>3, <2>4, <2>5 DEF RulesInv
<1>2. RulesInv /\ [RulesNext]_ruleVars => RulesInv'
  <2> SUFFICES ASSUME RulesInv, [RulesNext]_ruleVars PROVE RulesInv'
    OBVIOUS
  <2>1. ASSUME NEW a \in Editor, CreateCommit(a) PROVE RulesInv'
    BY <2>1, CreateStep
  <2>2. ASSUME NEW a \in Editor, UpdateCommit(a) PROVE RulesInv'
    BY <2>2, UpdateStep
  <2>3. ASSUME NEW a \in Editor, ToggleEnabled(a) \/ ToggleDryRun(a) PROVE RulesInv'
    BY <2>3, ToggleStep
  <2>4. ASSUME NEW a \in Editor,
               CheckPriority(a) \/ UpdateLock(a) \/ ToggleLock(a) \/ Abort(a) \/ EnqueueIndexTask(a)
        PROVE  RulesInv'
    BY <2>4, RequestsStep
  <2>5. CASE DeleteRule
    BY <2>5, DeleteStep
  <2>6. CASE Pop \/ IndexPolicyRule \/ UNCHANGED ruleVars
    <3>1. row' = row /\ lock' = lock /\ trail' = trail /\ job' = job
      BY <2>6 DEF Pop, IndexPolicyRule, ruleVars
    <3>2. TrailReplays'
      BY <3>1, ReplayStays DEF RulesInv
    <3>3. QED
      BY <3>1, <3>2 DEF RulesInv, RulesTypes, RowsInv, HoldersInv, CreatorsInv, Fresh, Exists
  <2>7. QED
    BY <2>1, <2>2, <2>3, <2>4, <2>5, <2>6 DEF RulesNext
<1>3. RulesInv => TrailReplays
  BY DEF RulesInv
<1>4. QED
  BY <1>1, <1>2, <1>3, PTL DEF RulesSpec
=============================================================================
