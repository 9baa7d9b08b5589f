------------------------ MODULE RefreshTokensProofs ------------------------
(* Proofs about RefreshTokens, for any sets of rows, sessions, users and   *)
(* concurrent handlers.                                                    *)
EXTENDS RefreshTokens, TLAPS

(* Every handler keeps every variable in its type. *)
LEMMA TypeStep == IInv /\ [Next]_vars => TypeOK'
<1> SUFFICES ASSUME TypeOK, RotationInFlight, LockProtectsLive, [Next]_vars
             PROVE  TypeOK'
  BY DEF IInv
<1> USE DEF TypeOK, table, local, Goto, Stages, Kinds
<1>1. CASE UNCHANGED vars
  BY <1>1 DEF vars
<1>2. ASSUME NEW r \in Row, NEW s \in Session, Insert(r, s) PROVE TypeOK'
  BY <1>2 DEF Insert, FreshRow
<1>3. ASSUME NEW p \in Req, Start(p) PROVE TypeOK'
  <2>1. ASSUME NEW r \in Row, RotateProbe(p, r) PROVE TypeOK'
    BY <2>1 DEF RotateProbe
  <2>2. ASSUME NEW r \in Row, Logout(p, r) PROVE TypeOK'
    BY <2>2 DEF Logout, SessionsOf
  <2>3. ASSUME NEW u \in User, RevokeSessions(p, u) PROVE TypeOK'
    BY <2>3 DEF RevokeSessions, SessionsOf
  <2>4. ASSUME NEW s \in Session, RevokeOneSession(p, s) PROVE TypeOK'
    BY <2>4 DEF RevokeOneSession, RowsOf
  <2> QED BY <1>3, <2>1, <2>2, <2>3, <2>4 DEF Start
<1>4. ASSUME NEW p \in Req, Step(p) PROVE TypeOK'
  <2>1. ASSUME NEW r \in Row, BulkVisit(p, r) PROVE TypeOK'
    BY <2>1 DEF BulkVisit
  <2>2. CASE RotateUpdate(p)
    BY <2>2 DEF RotateUpdate, RotationInFlight
  <2>3. CASE RotateCommit(p)
    BY <2>3 DEF RotateCommit, RotationInFlight
  <2>4. CASE Mint(p)
    BY <2>4 DEF Mint, RotationInFlight
  <2>5. CASE ReplayRevokeAll(p)
    BY <2>5 DEF ReplayRevokeAll, SessionsOf
  <2>6. CASE BlacklistJtis(p)
    BY <2>6 DEF BlacklistJtis
  <2>7. CASE BulkScan(p)
    BY <2>7 DEF BulkScan, RowsOf
  <2>8. CASE BulkCommit(p)
    BY <2>8 DEF BulkCommit, Held, Unlocked, LockProtectsLive, Live
  <2> QED BY <1>4, <2>1, <2>2, <2>3, <2>4, <2>5, <2>6, <2>7, <2>8 DEF Step
<1>5. ASSUME NEW p \in Req, Fail(p) PROVE TypeOK'
  BY <1>5 DEF Fail, Unlocked
<1>6. ASSUME NEW p \in Req, Answer(p) PROVE TypeOK'
  BY <1>6 DEF Answer
<1> QED
  BY <1>1, <1>2, <1>3, <1>4, <1>5, <1>6 DEF Next, DeadlockAbort

(* Only a commit that inserts a row gives it a session. *)
LEMMA SessionKnownStep == IInv /\ [Next]_vars => SessionKnown'
<1> SUFFICES ASSUME TypeOK, SessionKnown, RotationInFlight, [Next]_vars
             PROVE  SessionKnown'
  BY DEF IInv
<1> USE DEF table, local, Goto, TypeOK, SessionKnown
<1>1. CASE UNCHANGED vars
  BY <1>1 DEF vars
<1>2. ASSUME NEW r \in Row, NEW s \in Session, Insert(r, s) PROVE SessionKnown'
  BY <1>2 DEF Insert, FreshRow
<1>3. ASSUME NEW p \in Req, Start(p) PROVE SessionKnown'
  <2>1. ASSUME NEW r \in Row, RotateProbe(p, r) PROVE SessionKnown'
    BY <2>1 DEF RotateProbe
  <2>2. ASSUME NEW r \in Row, Logout(p, r) PROVE SessionKnown'
    BY <2>2 DEF Logout
  <2>3. ASSUME NEW u \in User, RevokeSessions(p, u) PROVE SessionKnown'
    BY <2>3 DEF RevokeSessions
  <2>4. ASSUME NEW s \in Session, RevokeOneSession(p, s) PROVE SessionKnown'
    BY <2>4 DEF RevokeOneSession
  <2> QED BY <1>3, <2>1, <2>2, <2>3, <2>4 DEF Start
<1>4. ASSUME NEW p \in Req, Step(p) PROVE SessionKnown'
  <2>1. ASSUME NEW r \in Row, BulkVisit(p, r) PROVE SessionKnown'
    BY <2>1 DEF BulkVisit
  <2>2. CASE RotateUpdate(p)
    BY <2>2 DEF RotateUpdate
  <2>3. CASE RotateCommit(p)
    BY <2>3, NoSessionAssumption DEF RotateCommit, RotationInFlight
  <2>4. CASE Mint(p)
    BY <2>4 DEF Mint
  <2>5. CASE ReplayRevokeAll(p)
    BY <2>5 DEF ReplayRevokeAll
  <2>6. CASE BlacklistJtis(p)
    BY <2>6 DEF BlacklistJtis
  <2>7. CASE BulkScan(p)
    BY <2>7 DEF BulkScan
  <2>8. CASE BulkCommit(p)
    BY <2>8 DEF BulkCommit
  <2> QED BY <1>4, <2>1, <2>2, <2>3, <2>4, <2>5, <2>6, <2>7, <2>8 DEF Step
<1>5. ASSUME NEW p \in Req, Fail(p) PROVE SessionKnown'
  BY <1>5 DEF Fail
<1>6. ASSUME NEW p \in Req, Answer(p) PROVE SessionKnown'
  BY <1>6 DEF Answer
<1> QED
  BY <1>1, <1>2, <1>3, <1>4, <1>5, <1>6 DEF Next, DeadlockAbort

(* Locks are taken on live rows only, and revoking a row releases its lock. *)
LEMMA LockStep == IInv /\ [Next]_vars => LockProtectsLive'
<1> SUFFICES ASSUME TypeOK, LockProtectsLive, RotationInFlight, [Next]_vars
             PROVE  LockProtectsLive'
  BY DEF IInv
<1> USE DEF table, local, Goto, TypeOK, LockProtectsLive, Live
<1>1. CASE UNCHANGED vars
  BY <1>1 DEF vars
<1>2. ASSUME NEW r \in Row, NEW s \in Session, Insert(r, s) PROVE LockProtectsLive'
  BY <1>2 DEF Insert
<1>3. ASSUME NEW p \in Req, Start(p) PROVE LockProtectsLive'
  <2>1. ASSUME NEW r \in Row, RotateProbe(p, r) PROVE LockProtectsLive'
    BY <2>1 DEF RotateProbe
  <2>2. ASSUME NEW r \in Row, Logout(p, r) PROVE LockProtectsLive'
    BY <2>2 DEF Logout
  <2>3. ASSUME NEW u \in User, RevokeSessions(p, u) PROVE LockProtectsLive'
    BY <2>3 DEF RevokeSessions
  <2>4. ASSUME NEW s \in Session, RevokeOneSession(p, s) PROVE LockProtectsLive'
    BY <2>4 DEF RevokeOneSession
  <2> QED BY <1>3, <2>1, <2>2, <2>3, <2>4 DEF Start
<1>4. ASSUME NEW p \in Req, Step(p) PROVE LockProtectsLive'
  <2>1. ASSUME NEW r \in Row, BulkVisit(p, r) PROVE LockProtectsLive'
    BY <2>1, NoReqAssumption DEF BulkVisit
  <2>2. CASE RotateUpdate(p)
    BY <2>2, NoReqAssumption DEF RotateUpdate, RotationInFlight
  <2>3. CASE RotateCommit(p)
    BY <2>3, NoReqAssumption DEF RotateCommit, RotationInFlight
  <2>4. CASE Mint(p)
    BY <2>4 DEF Mint
  <2>5. CASE ReplayRevokeAll(p)
    BY <2>5 DEF ReplayRevokeAll
  <2>6. CASE BlacklistJtis(p)
    BY <2>6 DEF BlacklistJtis
  <2>7. CASE BulkScan(p)
    BY <2>7 DEF BulkScan
  <2>8. CASE BulkCommit(p)
    BY <2>8, NoReqAssumption DEF BulkCommit, Held, Unlocked
  <2> QED BY <1>4, <2>1, <2>2, <2>3, <2>4, <2>5, <2>6, <2>7, <2>8 DEF Step
<1>5. ASSUME NEW p \in Req, Fail(p) PROVE LockProtectsLive'
  BY <1>5, NoReqAssumption DEF Fail, Unlocked
<1>6. ASSUME NEW p \in Req, Answer(p) PROVE LockProtectsLive'
  BY <1>6 DEF Answer
<1> QED
  BY <1>1, <1>2, <1>3, <1>4, <1>5, <1>6 DEF Next, DeadlockAbort

(* A rotation keeps what it read and what it locked until it is over. *)
LEMMA RotationStep == IInv /\ [Next]_vars => RotationInFlight'
<1> SUFFICES ASSUME TypeOK, LockProtectsLive, RotationInFlight, NewIdsDistinct, [Next]_vars
             PROVE  RotationInFlight'
  BY DEF IInv
<1> USE DEF table, local, Goto, TypeOK, RotationInFlight
<1>1. CASE UNCHANGED vars
  BY <1>1 DEF vars
<1>2. ASSUME NEW r \in Row, NEW s \in Session, Insert(r, s) PROVE RotationInFlight'
  BY <1>2 DEF Insert, FreshRow
<1>3. ASSUME NEW p \in Req, Start(p) PROVE RotationInFlight'
  <2>1. ASSUME NEW r \in Row, RotateProbe(p, r) PROVE RotationInFlight'
    BY <2>1 DEF RotateProbe, FreshRow, Live
  <2>2. ASSUME NEW r \in Row, Logout(p, r) PROVE RotationInFlight'
    BY <2>2 DEF Logout
  <2>3. ASSUME NEW u \in User, RevokeSessions(p, u) PROVE RotationInFlight'
    BY <2>3 DEF RevokeSessions
  <2>4. ASSUME NEW s \in Session, RevokeOneSession(p, s) PROVE RotationInFlight'
    BY <2>4 DEF RevokeOneSession
  <2> QED BY <1>3, <2>1, <2>2, <2>3, <2>4 DEF Start
<1>4. ASSUME NEW p \in Req, Step(p) PROVE RotationInFlight'
  <2>1. ASSUME NEW r \in Row, BulkVisit(p, r) PROVE RotationInFlight'
    BY <2>1, NoReqAssumption DEF BulkVisit
  <2>2. CASE RotateUpdate(p)
    BY <2>2, NoReqAssumption DEF RotateUpdate
  <2>3. CASE RotateCommit(p)
    BY <2>3, NoReqAssumption, NoRowAssumption DEF RotateCommit, NewIdsDistinct, LockProtectsLive
  <2>4. CASE Mint(p)
    BY <2>4 DEF Mint
  <2>5. CASE ReplayRevokeAll(p)
    BY <2>5 DEF ReplayRevokeAll
  <2>6. CASE BlacklistJtis(p)
    BY <2>6 DEF BlacklistJtis
  <2>7. CASE BulkScan(p)
    BY <2>7 DEF BulkScan
  <2>8. CASE BulkCommit(p)
    BY <2>8, NoReqAssumption DEF BulkCommit, Unlocked
  <2> QED BY <1>4, <2>1, <2>2, <2>3, <2>4, <2>5, <2>6, <2>7, <2>8 DEF Step
<1>5. ASSUME NEW p \in Req, Fail(p) PROVE RotationInFlight'
  BY <1>5 DEF Fail, Unlocked
<1>6. ASSUME NEW p \in Req, Answer(p) PROVE RotationInFlight'
  BY <1>6 DEF Answer
<1> QED
  BY <1>1, <1>2, <1>3, <1>4, <1>5, <1>6 DEF Next, DeadlockAbort

(* A fresh id is one that no handler holds. *)
LEMMA NewIdsStep == IInv /\ [Next]_vars => NewIdsDistinct'
<1> SUFFICES ASSUME TypeOK, NewIdsDistinct, [Next]_vars
             PROVE  NewIdsDistinct'
  BY DEF IInv
<1> USE DEF table, local, Goto, TypeOK, NewIdsDistinct
<1>1. CASE UNCHANGED vars
  BY <1>1 DEF vars
<1>2. ASSUME NEW r \in Row, NEW s \in Session, Insert(r, s) PROVE NewIdsDistinct'
  BY <1>2 DEF Insert
<1>3. ASSUME NEW p \in Req, Start(p) PROVE NewIdsDistinct'
  <2>1. ASSUME NEW r \in Row, RotateProbe(p, r) PROVE NewIdsDistinct'
    BY <2>1 DEF RotateProbe, FreshRow
  <2>2. ASSUME NEW r \in Row, Logout(p, r) PROVE NewIdsDistinct'
    BY <2>2 DEF Logout
  <2>3. ASSUME NEW u \in User, RevokeSessions(p, u) PROVE NewIdsDistinct'
    BY <2>3 DEF RevokeSessions
  <2>4. ASSUME NEW s \in Session, RevokeOneSession(p, s) PROVE NewIdsDistinct'
    BY <2>4 DEF RevokeOneSession
  <2> QED BY <1>3, <2>1, <2>2, <2>3, <2>4 DEF Start
<1>4. ASSUME NEW p \in Req, Step(p) PROVE NewIdsDistinct'
  <2>1. ASSUME NEW r \in Row, BulkVisit(p, r) PROVE NewIdsDistinct'
    BY <2>1 DEF BulkVisit
  <2>2. CASE RotateUpdate(p)
    BY <2>2 DEF RotateUpdate
  <2>3. CASE RotateCommit(p)
    BY <2>3 DEF RotateCommit
  <2>4. CASE Mint(p)
    BY <2>4 DEF Mint
  <2>5. CASE ReplayRevokeAll(p)
    BY <2>5 DEF ReplayRevokeAll
  <2>6. CASE BlacklistJtis(p)
    BY <2>6 DEF BlacklistJtis
  <2>7. CASE BulkScan(p)
    BY <2>7 DEF BulkScan
  <2>8. CASE BulkCommit(p)
    BY <2>8 DEF BulkCommit
  <2> QED BY <1>4, <2>1, <2>2, <2>3, <2>4, <2>5, <2>6, <2>7, <2>8 DEF Step
<1>5. ASSUME NEW p \in Req, Fail(p) PROVE NewIdsDistinct'
  BY <1>5 DEF Fail
<1>6. ASSUME NEW p \in Req, Answer(p) PROVE NewIdsDistinct'
  BY <1>6 DEF Answer
<1> QED
  BY <1>1, <1>2, <1>3, <1>4, <1>5, <1>6 DEF Next, DeadlockAbort

(* A visited row is revoked already, or locked for the commit. *)
LEMMA VisitedStep == IInv /\ [Next]_vars => VisitedHeld'
<1> SUFFICES ASSUME TypeOK, LockProtectsLive, VisitedHeld, [Next]_vars
             PROVE  VisitedHeld'
  BY DEF IInv
<1> USE DEF table, local, Goto, TypeOK, VisitedHeld, Held
<1>1. CASE UNCHANGED vars
  BY <1>1 DEF vars
<1>2. ASSUME NEW r \in Row, NEW s \in Session, Insert(r, s) PROVE VisitedHeld'
  BY <1>2 DEF Insert
<1>3. ASSUME NEW p \in Req, Start(p) PROVE VisitedHeld'
  <2>1. ASSUME NEW r \in Row, RotateProbe(p, r) PROVE VisitedHeld'
    BY <2>1 DEF RotateProbe
  <2>2. ASSUME NEW r \in Row, Logout(p, r) PROVE VisitedHeld'
    BY <2>2 DEF Logout
  <2>3. ASSUME NEW u \in User, RevokeSessions(p, u) PROVE VisitedHeld'
    BY <2>3 DEF RevokeSessions
  <2>4. ASSUME NEW s \in Session, RevokeOneSession(p, s) PROVE VisitedHeld'
    BY <2>4 DEF RevokeOneSession
  <2> QED BY <1>3, <2>1, <2>2, <2>3, <2>4 DEF Start
<1>4. ASSUME NEW p \in Req, Step(p) PROVE VisitedHeld'
  <2>1. ASSUME NEW r \in Row, BulkVisit(p, r) PROVE VisitedHeld'
    BY <2>1, NoReqAssumption DEF BulkVisit, Live
  <2>2. CASE RotateUpdate(p)
    BY <2>2, NoReqAssumption DEF RotateUpdate, Live
  <2>3. CASE RotateCommit(p)
    BY <2>3 DEF RotateCommit, LockProtectsLive
  <2>4. CASE Mint(p)
    BY <2>4 DEF Mint
  <2>5. CASE ReplayRevokeAll(p)
    BY <2>5 DEF ReplayRevokeAll
  <2>6. CASE BlacklistJtis(p)
    BY <2>6 DEF BlacklistJtis
  <2>7. CASE BulkScan(p)
    BY <2>7 DEF BulkScan, RowsOf
  <2>8. CASE BulkCommit(p)
    BY <2>8 DEF BulkCommit, Unlocked
  <2> QED BY <1>4, <2>1, <2>2, <2>3, <2>4, <2>5, <2>6, <2>7, <2>8 DEF Step
<1>5. ASSUME NEW p \in Req, Fail(p) PROVE VisitedHeld'
  BY <1>5 DEF Fail, Unlocked
<1>6. ASSUME NEW p \in Req, Answer(p) PROVE VisitedHeld'
  BY <1>6 DEF Answer
<1> QED
  BY <1>1, <1>2, <1>3, <1>4, <1>5, <1>6 DEF Next, DeadlockAbort

(* A rotation closes one live row of the session as it adds another. *)
LEMMA OneLiveStep == IInv /\ [Next]_vars => OneLiveRowPerSession'
<1> SUFFICES ASSUME TypeOK, SessionKnown, RotationInFlight, LockProtectsLive, OneLiveRowPerSession, [Next]_vars
             PROVE  OneLiveRowPerSession'
  BY DEF IInv
<1> USE DEF table, local, Goto, TypeOK, OneLiveRowPerSession, Live
<1>1. CASE UNCHANGED vars
  BY <1>1 DEF vars
<1>2. ASSUME NEW r \in Row, NEW s \in Session, Insert(r, s) PROVE OneLiveRowPerSession'
  BY <1>2 DEF Insert, FreshRow, FreshSession, SessionKnown
<1>3. ASSUME NEW p \in Req, Start(p) PROVE OneLiveRowPerSession'
  <2>1. ASSUME NEW r \in Row, RotateProbe(p, r) PROVE OneLiveRowPerSession'
    BY <2>1 DEF RotateProbe
  <2>2. ASSUME NEW r \in Row, Logout(p, r) PROVE OneLiveRowPerSession'
    BY <2>2 DEF Logout
  <2>3. ASSUME NEW u \in User, RevokeSessions(p, u) PROVE OneLiveRowPerSession'
    BY <2>3 DEF RevokeSessions
  <2>4. ASSUME NEW s \in Session, RevokeOneSession(p, s) PROVE OneLiveRowPerSession'
    BY <2>4 DEF RevokeOneSession
  <2> QED BY <1>3, <2>1, <2>2, <2>3, <2>4 DEF Start
<1>4. ASSUME NEW p \in Req, Step(p) PROVE OneLiveRowPerSession'
  <2>1. ASSUME NEW r \in Row, BulkVisit(p, r) PROVE OneLiveRowPerSession'
    BY <2>1 DEF BulkVisit
  <2>2. CASE RotateUpdate(p)
    BY <2>2 DEF RotateUpdate
  <2>3. CASE RotateCommit(p)
    BY <2>3 DEF RotateCommit, RotationInFlight, LockProtectsLive
  <2>4. CASE Mint(p)
    BY <2>4 DEF Mint
  <2>5. CASE ReplayRevokeAll(p)
    BY <2>5 DEF ReplayRevokeAll
  <2>6. CASE BlacklistJtis(p)
    BY <2>6 DEF BlacklistJtis
  <2>7. CASE BulkScan(p)
    BY <2>7 DEF BulkScan
  <2>8. CASE BulkCommit(p)
    BY <2>8 DEF BulkCommit
  <2> QED BY <1>4, <2>1, <2>2, <2>3, <2>4, <2>5, <2>6, <2>7, <2>8 DEF Step
<1>5. ASSUME NEW p \in Req, Fail(p) PROVE OneLiveRowPerSession'
  BY <1>5 DEF Fail
<1>6. ASSUME NEW p \in Req, Answer(p) PROVE OneLiveRowPerSession'
  BY <1>6 DEF Answer
<1> QED
  BY <1>1, <1>2, <1>3, <1>4, <1>5, <1>6 DEF Next, DeadlockAbort

(* A rotation points the row it closes at a row that was never a successor. *)
LEMMA ChainStep == IInv /\ [Next]_vars => LinearChain'
<1> SUFFICES ASSUME TypeOK, LockProtectsLive, RotationInFlight, LinearChain, [Next]_vars
             PROVE  LinearChain'
  BY DEF IInv
<1> USE DEF table, local, Goto, TypeOK, LinearChain
<1>1. CASE UNCHANGED vars
  BY <1>1 DEF vars
<1>2. ASSUME NEW r \in Row, NEW s \in Session, Insert(r, s) PROVE LinearChain'
  BY <1>2 DEF Insert, FreshRow
<1>3. ASSUME NEW p \in Req, Start(p) PROVE LinearChain'
  <2>1. ASSUME NEW r \in Row, RotateProbe(p, r) PROVE LinearChain'
    BY <2>1 DEF RotateProbe
  <2>2. ASSUME NEW r \in Row, Logout(p, r) PROVE LinearChain'
    BY <2>2 DEF Logout
  <2>3. ASSUME NEW u \in User, RevokeSessions(p, u) PROVE LinearChain'
    BY <2>3 DEF RevokeSessions
  <2>4. ASSUME NEW s \in Session, RevokeOneSession(p, s) PROVE LinearChain'
    BY <2>4 DEF RevokeOneSession
  <2> QED BY <1>3, <2>1, <2>2, <2>3, <2>4 DEF Start
<1>4. ASSUME NEW p \in Req, Step(p) PROVE LinearChain'
  <2>1. ASSUME NEW r \in Row, BulkVisit(p, r) PROVE LinearChain'
    BY <2>1 DEF BulkVisit
  <2>2. CASE RotateUpdate(p)
    BY <2>2 DEF RotateUpdate
  <2>3. CASE RotateCommit(p)
    BY <2>3, NoRowAssumption DEF RotateCommit, RotationInFlight, LockProtectsLive, Live
  <2>4. CASE Mint(p)
    BY <2>4 DEF Mint
  <2>5. CASE ReplayRevokeAll(p)
    BY <2>5 DEF ReplayRevokeAll
  <2>6. CASE BlacklistJtis(p)
    BY <2>6 DEF BlacklistJtis
  <2>7. CASE BulkScan(p)
    BY <2>7 DEF BulkScan
  <2>8. CASE BulkCommit(p)
    BY <2>8 DEF BulkCommit
  <2> QED BY <1>4, <2>1, <2>2, <2>3, <2>4, <2>5, <2>6, <2>7, <2>8 DEF Step
<1>5. ASSUME NEW p \in Req, Fail(p) PROVE LinearChain'
  BY <1>5 DEF Fail
<1>6. ASSUME NEW p \in Req, Answer(p) PROVE LinearChain'
  BY <1>6 DEF Answer
<1> QED
  BY <1>1, <1>2, <1>3, <1>4, <1>5, <1>6 DEF Next, DeadlockAbort

(* At its commit a bulk UPDATE has visited every row it picked. *)
LEMMA PickedStep == IInv /\ [Next]_vars => PickedRowsClosed'
<1> SUFFICES ASSUME TypeOK, VisitedHeld, PickedRowsClosed, [Next]_vars
             PROVE  PickedRowsClosed'
  BY DEF IInv
<1> USE DEF table, local, Goto, TypeOK, PickedRowsClosed
<1>1. CASE UNCHANGED vars
  BY <1>1 DEF vars
<1>2. ASSUME NEW r \in Row, NEW s \in Session, Insert(r, s) PROVE PickedRowsClosed'
  BY <1>2 DEF Insert
<1>3. ASSUME NEW p \in Req, Start(p) PROVE PickedRowsClosed'
  <2>1. ASSUME NEW r \in Row, RotateProbe(p, r) PROVE PickedRowsClosed'
    BY <2>1 DEF RotateProbe
  <2>2. ASSUME NEW r \in Row, Logout(p, r) PROVE PickedRowsClosed'
    BY <2>2 DEF Logout
  <2>3. ASSUME NEW u \in User, RevokeSessions(p, u) PROVE PickedRowsClosed'
    BY <2>3 DEF RevokeSessions
  <2>4. ASSUME NEW s \in Session, RevokeOneSession(p, s) PROVE PickedRowsClosed'
    BY <2>4 DEF RevokeOneSession
  <2> QED BY <1>3, <2>1, <2>2, <2>3, <2>4 DEF Start
<1>4. ASSUME NEW p \in Req, Step(p) PROVE PickedRowsClosed'
  <2>1. ASSUME NEW r \in Row, BulkVisit(p, r) PROVE PickedRowsClosed'
    BY <2>1 DEF BulkVisit
  <2>2. CASE RotateUpdate(p)
    BY <2>2 DEF RotateUpdate
  <2>3. CASE RotateCommit(p)
    BY <2>3 DEF RotateCommit
  <2>4. CASE Mint(p)
    BY <2>4 DEF Mint
  <2>5. CASE ReplayRevokeAll(p)
    BY <2>5 DEF ReplayRevokeAll
  <2>6. CASE BlacklistJtis(p)
    BY <2>6 DEF BlacklistJtis
  <2>7. CASE BulkScan(p)
    BY <2>7 DEF BulkScan, VisitedHeld
  <2>8. CASE BulkCommit(p)
    BY <2>8 DEF BulkCommit, VisitedHeld
  <2> QED BY <1>4, <2>1, <2>2, <2>3, <2>4, <2>5, <2>6, <2>7, <2>8 DEF Step
<1>5. ASSUME NEW p \in Req, Fail(p) PROVE PickedRowsClosed'
  BY <1>5 DEF Fail
<1>6. ASSUME NEW p \in Req, Answer(p) PROVE PickedRowsClosed'
  BY <1>6 DEF Answer
<1> QED
  BY <1>1, <1>2, <1>3, <1>4, <1>5, <1>6 DEF Next, DeadlockAbort

(* The invariant holds initially and every step keeps it. *)
THEOREM Invariance == Spec => []IInv
<1>1. Init => IInv
  BY NoReqAssumption, NoSessionAssumption, NoRowAssumption
  DEF Init, IInv, TypeOK, SessionKnown, LockProtectsLive, RotationInFlight,
      NewIdsDistinct, VisitedHeld, OneLiveRowPerSession, LinearChain,
      PickedRowsClosed, Live, Stages, Kinds
<1>2. IInv /\ [Next]_vars => IInv'
  BY TypeStep, SessionKnownStep, LockStep, RotationStep, NewIdsStep, VisitedStep,
     OneLiveStep, ChainStep, PickedStep DEF IInv
<1> QED BY <1>1, <1>2, PTL DEF Spec

(* The state of rotate, logout and the revocations keeps its types. *)
THEOREM TypeCorrect == Spec => []TypeOK
<1>1. IInv => TypeOK BY DEF IInv
<1> QED BY <1>1, Invariance, PTL

(* However many rotations of one token race, at most one of them leaves a   *)
(* refresh token that works.                                                *)
THEOREM AtMostOneLive == Spec => []OneLiveRowPerSession
<1>1. IInv => OneLiveRowPerSession BY DEF IInv
<1> QED BY <1>1, Invariance, PTL

(* replaced_by never forks and never leaves its session. *)
THEOREM ChainIsLinear == Spec => []LinearChain
<1>1. IInv => LinearChain BY DEF IInv
<1> QED BY <1>1, Invariance, PTL

(* A committed bulk revocation missed none of the rows it picked. *)
THEOREM BulkRevocationComplete == Spec => []PickedRowsClosed
<1>1. IInv => PickedRowsClosed BY DEF IInv
<1> QED BY <1>1, Invariance, PTL

-----------------------------------------------------------------------------
(* Only three steps write the table: a sign-in, the commit of a rotation    *)
(* and the commit of a bulk revocation.                                     *)
LEMMA TableWrites ==
  [Next]_vars => \/ UNCHANGED table
                 \/ \E r \in Row, s \in Session : Insert(r, s)
                 \/ \E p \in Req : RotateCommit(p) \/ BulkCommit(p)
<1> SUFFICES ASSUME [Next]_vars, ~ UNCHANGED table
             PROVE  \/ \E r \in Row, s \in Session : Insert(r, s)
                    \/ \E p \in Req : RotateCommit(p) \/ BulkCommit(p)
  OBVIOUS
<1>1. ~ UNCHANGED vars
  BY DEF vars, table
<1>2. ASSUME NEW p \in Req, Start(p) PROVE FALSE
  BY <1>2 DEF Start, RotateProbe, Logout, RevokeSessions, RevokeOneSession
<1>3. ASSUME NEW p \in Req, Fail(p) \/ Answer(p) PROVE FALSE
  BY <1>3 DEF Fail, Answer
<1>4. ASSUME NEW p \in Req, Step(p) PROVE RotateCommit(p) \/ BulkCommit(p)
  BY <1>4 DEF Step, BulkVisit, RotateUpdate, Mint, ReplayRevokeAll, BlacklistJtis,
              BulkScan
<1> QED
  BY <1>1, <1>2, <1>3, <1>4 DEF Next, DeadlockAbort

(* What a rotation holds when it commits. *)
LEMMA CommitFacts ==
  ASSUME IInv, NEW p \in Req, RotateCommit(p)
  PROVE  /\ old[p] \in Live /\ new[p] \in Row \ known
         /\ session[old[p]] \in Session
         /\ Live' = (Live \ {old[p]}) \cup {new[p]}
<1>1. /\ old[p] \in Live /\ new[p] \in Row \ known
  BY DEF IInv, RotateCommit, RotationInFlight, LockProtectsLive, Live, TypeOK
<1>2. session[old[p]] \in Session
  BY <1>1 DEF IInv, SessionKnown, TypeOK, Live
<1> QED BY <1>1, <1>2 DEF IInv, TypeOK, RotateCommit, Live

(* An ended session is never reopened, by no interleaving. *)
THEOREM ClosedForGood == Spec => ClosedStaysClosed
<1> DEFINE A == \A s \in Session :
       (\E r \in known : session[r] = s) /\ (\A r \in Live : session[r] # s)
         => \A r \in Live' : session'[r] # s
<1>1. IInv /\ [Next]_vars => A
  <2> SUFFICES ASSUME IInv, [Next]_vars, NEW s \in Session,
                      \E r \in known : session[r] = s,
                      \A r \in Live : session[r] # s,
                      NEW q \in Live'
               PROVE  session'[q] # s
    OBVIOUS
  <2>1. CASE UNCHANGED table
    BY <2>1 DEF table, Live
  <2>2. ASSUME NEW r \in Row, NEW t \in Session, Insert(r, t) PROVE session'[q] # s
    BY <2>2 DEF Insert, FreshRow, FreshSession, Live, IInv, TypeOK
  <2>3. ASSUME NEW p \in Req, RotateCommit(p) PROVE session'[q] # s
    <3>1. session' = [session EXCEPT ![new[p]] = session[old[p]]]
      BY <2>3 DEF RotateCommit
    <3> QED BY <2>3, <3>1, CommitFacts DEF IInv, TypeOK, Live
  <2>4. ASSUME NEW p \in Req, BulkCommit(p) PROVE session'[q] # s
    BY <2>4 DEF BulkCommit, Live
  <2> QED BY <2>1, <2>2, <2>3, <2>4, TableWrites
<1>2. IInv /\ [Next]_vars => [A]_vars
  BY <1>1
<1> QED BY <1>2, Invariance, PTL DEF Spec, ClosedStaysClosed

(* A refresh token that was used or revoked stays so, and keeps its one     *)
(* successor.                                                               *)
THEOREM TokensAreUsedOnce == Spec => UsedOnce
<1> DEFINE A == /\ revoked \subseteq revoked'
                /\ \A r \in Row : replacedBy[r] # NoRow => replacedBy'[r] = replacedBy[r]
<1>1. IInv /\ [Next]_vars => A
  <2> SUFFICES ASSUME IInv, [Next]_vars PROVE A
    OBVIOUS
  <2>1. CASE UNCHANGED table
    BY <2>1 DEF table
  <2>2. ASSUME NEW r \in Row, NEW t \in Session, Insert(r, t) PROVE A
    BY <2>2 DEF Insert
  <2>3. ASSUME NEW p \in Req, RotateCommit(p) PROVE A
    <3>1. replacedBy[old[p]] = NoRow
      BY <2>3, CommitFacts DEF IInv, LinearChain, Live, TypeOK
    <3> QED BY <2>3, <3>1 DEF RotateCommit, IInv, TypeOK
  <2>4. ASSUME NEW p \in Req, BulkCommit(p) PROVE A
    BY <2>4 DEF BulkCommit
  <2> QED BY <2>1, <2>2, <2>3, <2>4, TableWrites
<1>2. IInv /\ [Next]_vars => [A]_vars
  BY <1>1
<1> QED BY <1>2, Invariance, PTL DEF Spec, UsedOnce

-----------------------------------------------------------------------------
(* The renewing token of a session is its live row. *)
HolderIsLive ==
  \A s \in Session : /\ \A r \in Live : session[r] = s => Holder[s] = r
                     /\ (\A r \in Live : session[r] # s) => Holder[s] = NoRow

(* A session has one live row at most, so Holder has no choice to make. *)
LEMMA HolderFacts == IInv => HolderIsLive
<1> SUFFICES ASSUME IInv, NEW s \in Session
             PROVE  /\ \A r \in Live : session[r] = s => Holder[s] = r
                    /\ (\A r \in Live : session[r] # s) => Holder[s] = NoRow
  BY DEF HolderIsLive
<1>1. ASSUME NEW r \in Live, session[r] = s PROVE Holder[s] = r
  <2>1. \A q \in Live : session[q] = s => q = r
    BY <1>1 DEF IInv, OneLiveRowPerSession
  <2> QED BY <1>1, <2>1 DEF Holder
<1> QED BY <1>1 DEF Holder

(* Every step of the table is a step of the session it belongs to. *)
LEMMA FamilyStep == IInv /\ IInv' /\ [Next]_vars => [Family!Next]_(Family!vars)
<1> SUFFICES ASSUME IInv, IInv', [Next]_vars PROVE [Family!Next]_(Family!vars)
  OBVIOUS
<1>a. HolderIsLive
  BY HolderFacts
<1>b. HolderIsLive'
  BY HolderFacts, PTL
<1>c. /\ Holder = [s \in Session |-> Holder[s]]
      /\ Holder' = [s \in Session |-> Holder'[s]]
  BY DEF Holder
<1>1. CASE UNCHANGED table
  BY <1>1 DEF table, Family!vars, Opened, Holder, Live
<1>2. ASSUME NEW r \in Row, NEW s \in Session, Insert(r, s) PROVE Family!Open(s, r)
  <2>1. /\ known' = known \cup {r} /\ session' = [session EXCEPT ![r] = s]
        /\ Live' = Live \cup {r} /\ r \in Row \ known
    BY <1>2 DEF Insert, FreshRow, Live, IInv, TypeOK
  <2>2. s \notin Opened /\ Opened' = Opened \cup {s}
    BY <1>2, <2>1 DEF Insert, FreshSession, Opened, IInv, TypeOK
  <2>3. Holder' = [Holder EXCEPT ![s] = r]
    <3>1. Holder'[s] = r
      BY <2>1, <1>b DEF HolderIsLive, IInv, TypeOK
    <3>2. ASSUME NEW t \in Session, t # s PROVE Holder'[t] = Holder[t]
      BY <3>2, <2>1, <1>a, <1>b DEF HolderIsLive, Live, IInv, TypeOK
    <3> QED BY <3>1, <3>2, <1>c
  <2> QED BY <2>1, <2>2, <2>3 DEF Family!Open
<1>3. ASSUME NEW p \in Req, RotateCommit(p)
      PROVE  Family!Renew(session[old[p]], new[p])
  <2> DEFINE s == session[old[p]]
  <2>1. /\ old[p] \in Live /\ new[p] \in Row \ known /\ s \in Session
        /\ Live' = (Live \ {old[p]}) \cup {new[p]}
    BY <1>3, CommitFacts
  <2>2. /\ known' = known \cup {new[p]}
        /\ session' = [session EXCEPT ![new[p]] = s]
    BY <1>3 DEF RotateCommit
  <2>3. s \in Opened /\ Opened' = Opened
    BY <2>1, <2>2 DEF Opened, Live, IInv, TypeOK
  <2>4. Holder[s] # NoRow
    BY <2>1, <1>a, NoRowAssumption DEF HolderIsLive, Live, IInv, TypeOK
  <2>5. Holder' = [Holder EXCEPT ![s] = new[p]]
    <3>1. Holder'[s] = new[p]
      BY <2>1, <2>2, <1>b DEF HolderIsLive, IInv, TypeOK
    <3>2. ASSUME NEW t \in Session, t # s PROVE Holder'[t] = Holder[t]
      BY <3>2, <2>1, <2>2, <1>a, <1>b DEF HolderIsLive, Live, IInv, TypeOK
    <3> QED BY <3>1, <3>2, <1>c
  <2> QED BY <2>1, <2>2, <2>3, <2>4, <2>5 DEF Family!Renew
<1>4. ASSUME NEW p \in Req, BulkCommit(p)
      PROVE  Family!End({session[r] : r \in Held(p)})
  <2> DEFINE S == {session[r] : r \in Held(p)}
  <2>1. /\ known' = known /\ session' = session /\ Live' = Live \ Held(p)
        /\ Held(p) \subseteq Live
    BY <1>4 DEF BulkCommit, Live, Held, IInv, LockProtectsLive
  <2>2. Opened' = Opened
    BY <2>1 DEF Opened
  <2>3. ASSUME NEW t \in Session
        PROVE  Holder'[t] = IF t \in S THEN NoRow ELSE Holder[t]
    <3>1. CASE t \in S
      <4>1. PICK r \in Held(p) : session[r] = t
        BY <3>1
      <4>2. \A q \in Live' : session'[q] # t
        BY <2>1, <4>1 DEF IInv, OneLiveRowPerSession
      <4> QED BY <3>1, <4>2, <1>b DEF HolderIsLive
    <3>2. CASE t \notin S
      <4>1. \A q \in Live : session[q] = t => q \in Live'
        BY <2>1, <3>2
      <4> QED BY <3>2, <2>1, <4>1, <1>a, <1>b DEF HolderIsLive
    <3> QED BY <3>1, <3>2
  <2> QED BY <2>1, <2>2, <2>3, <1>c DEF Family!End
<1>6. \A p \in Req : {session[r] : r \in Held(p)} \subseteq Session
  BY DEF Held, IInv, LockProtectsLive, SessionKnown, Live
<1>7. ASSUME NEW p \in Req, RotateCommit(p) PROVE session[old[p]] \in Session /\ new[p] \in Row
  BY <1>7, CommitFacts
<1> QED
  BY <1>1, <1>2, <1>3, <1>4, <1>6, <1>7, TableWrites DEF Family!Next

(* The handlers implement SessionFamily: one renewing token per session,    *)
(* never two, never an old one, never again once ended.                     *)
THEOREM Refinement == Spec => ImplementsFamily
<1>1. Init => Family!Init
  BY DEF Init, Family!Init, Opened, Holder, Live
<1>2. IInv /\ IInv' /\ [Next]_vars => [Family!Next]_(Family!vars)
  BY FamilyStep
<1> QED BY <1>1, <1>2, Invariance, PTL DEF Spec, ImplementsFamily, Family!Spec
=============================================================================
