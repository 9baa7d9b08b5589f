------------------------- MODULE SessionGateProofs -------------------------
(* Proofs about SessionGate, for any tokens, pods, requests, revocations   *)
(* and lifetimes.                                                          *)
EXTENDS SessionGate, TLAPS

(* The forms in which the gate rewrites the record of a request. *)
LEMMA RequestTypes ==
  ASSUME TypeOK
  PROVE  /\ NoRequest \in Request
         /\ \A j \in Jti, o \in Pod, G \in SUBSET Pod :
              [NoRequest EXCEPT !.pc = "exists", !.tok = j, !.pod = o, !.started = now,
                                !.since = acked, !.gone = G] \in Request
         /\ \A r \in Request, s \in GateStages :
              /\ [r EXCEPT !.pc = s] \in Request
              /\ [r EXCEPT !.mode = "healthy", !.pc = s] \in Request
              /\ \A b \in 0..CacheTtl :
                   [r EXCEPT !.mode = "degraded", !.pc = s, !.blind = b] \in Request
              /\ \A t \in Nat, b \in {0, 1} :
                   [r EXCEPT !.pc = s, !.at = t, !.listed = b] \in Request
<1>1. /\ now \in Nat /\ acked \in Instant /\ 0 \in 0..CacheTtl
      /\ None \in {None, "healthy", "degraded"}
  BY TtlAssumption DEF TypeOK
<1>2. NoRequest \in Request
  BY <1>1 DEF NoRequest, Request, GateStages, Instant
<1>3. ASSUME NEW j \in Jti, NEW o \in Pod, NEW G \in SUBSET Pod
      PROVE  [NoRequest EXCEPT !.pc = "exists", !.tok = j, !.pod = o, !.started = now,
                               !.since = acked, !.gone = G] \in Request
  BY <1>1 DEF NoRequest, Request, GateStages
<1>4. ASSUME NEW r \in Request, NEW s \in GateStages
      PROVE  /\ [r EXCEPT !.pc = s] \in Request
             /\ [r EXCEPT !.mode = "healthy", !.pc = s] \in Request
             /\ \A b \in 0..CacheTtl :
                  [r EXCEPT !.mode = "degraded", !.pc = s, !.blind = b] \in Request
             /\ \A t \in Nat, b \in {0, 1} :
                  [r EXCEPT !.pc = s, !.at = t, !.listed = b] \in Request
  BY DEF Request
<1> QED BY <1>2, <1>3, <1>4

(* Every step keeps every variable in its type. *)
LEMMA TypeStep == GateInv /\ [Next]_vars => TypeOK'
<1> SUFFICES ASSUME GateInv, [Next]_vars PROVE TypeOK'
  OBVIOUS
<1> USE TtlAssumption, StallAssumption, BoundAssumption
<1> USE DEF GateInv, TypeOK, Instant, Never, RevokeStages, None, NoMark,
            NoRevocation, ClockOrder, Revoking
<1>1. CASE UNCHANGED vars
  BY <1>1 DEF vars
<1>2. ASSUME Tick PROVE TypeOK'
  BY <1>2 DEF Tick, Older, CachedSessionUsable
<1>3. ASSUME RedisRestart PROVE TypeOK'
  BY <1>3 DEF RedisRestart
<1>4. ASSUME NEW j \in Jti, Issue(j) PROVE TypeOK'
  BY <1>4 DEF Issue
<1>5. ASSUME NEW g \in Gate, NEW j \in Jti, NEW o \in Pod, Present(g, j, o)
      PROVE  TypeOK'
  <2> DEFINE out == {q \in Pod : <<j, q>> \in loggedOut}
  <2>1. [NoRequest EXCEPT !.pc = "exists", !.tok = j, !.pod = o, !.started = now,
                         !.since = acked, !.gone = out] \in Request
    BY RequestTypes
  <2>2. req' \in [Gate -> Request]
    BY <2>1, <1>5 DEF Present
  <2> QED BY <2>2, <1>5 DEF Present
<1>6. ASSUME NEW g \in Gate, GateExists(g) PROVE TypeOK'
  <2> DEFINE hit == IF blackUntil[req[g].tok] # 0 THEN 1 ELSE 0
  <2>1. [req[g] EXCEPT !.pc = "get", !.at = now, !.listed = hit] \in Request
    BY RequestTypes DEF GateStages
  <2>2. req' \in [Gate -> Request]
    BY <2>1, <1>6 DEF GateExists
  <2> QED BY <2>2, <1>6 DEF GateExists
<1>7. ASSUME NEW g \in Gate, GateDecide(g) PROVE TypeOK'
  <2>1. PICK s \in GateStages : req' = [req EXCEPT ![g].mode = "healthy", ![g].pc = s]
    BY <1>7 DEF GateDecide, GateStages
  <2>2. [req[g] EXCEPT !.mode = "healthy", !.pc = s] \in Request
    BY RequestTypes
  <2>3. req' \in [Gate -> Request]
    BY <2>1, <2>2
  <2>4. verified' \in [Pod -> 0..CacheTtl]
    <3>1. 0 \in 0..CacheTtl
      OBVIOUS
    <3> QED BY <3>1, <1>7 DEF GateDecide
  <2> QED BY <2>3, <2>4, <1>7 DEF GateDecide
<1>8. ASSUME NEW g \in Gate, CacheFill(g) PROVE TypeOK'
  <2>1. [req[g] EXCEPT !.pc = "served"] \in Request
    BY RequestTypes DEF GateStages
  <2>2. req' \in [Gate -> Request]
    BY <2>1, <1>8 DEF CacheFill
  <2>3. cache' \in [Pod -> 0..CacheTtl]
    <3>1. 0 \in 0..CacheTtl
      OBVIOUS
    <3> QED BY <3>1, <1>8 DEF CacheFill
  <2> QED BY <2>2, <2>3, <1>8 DEF CacheFill
<1>9. ASSUME NEW g \in Gate, ServeDegraded(g) PROVE TypeOK'
  <2>1. req[g].pod \in Pod
    BY <1>9 DEF ServeDegraded, RequestShape, InFlight
  <2>2. PICK s \in GateStages :
           req' = [req EXCEPT ![g].mode = "degraded", ![g].pc = s,
                              ![g].blind = verified[req[g].pod]]
    BY <1>9 DEF ServeDegraded, DegradedAuthGate, GateStages
  <2>3. [req[g] EXCEPT !.mode = "degraded", !.pc = s, !.blind = verified[req[g].pod]]
          \in Request
    BY <2>1, RequestTypes
  <2>4. req' \in [Gate -> Request]
    BY <2>2, <2>3
  <2> QED BY <2>4, <1>9 DEF ServeDegraded
<1>10. ASSUME NEW g \in Gate, LogoutBlacklist(g) PROVE TypeOK'
  <2>1. req[g].tok \in Jti /\ iat[req[g].tok] \in Nat
    BY <1>10 DEF LogoutBlacklist, RequestShape, InFlight
  <2>2. LogoutTtl(req[g].tok) \in Nat
    BY <2>1 DEF LogoutTtl, Exp
  <2>3. [req[g] EXCEPT !.pc = "evict"] \in Request
    BY RequestTypes DEF GateStages
  <2>4. req' \in [Gate -> Request]
    BY <2>3, <1>10 DEF LogoutBlacklist
  <2> QED BY <2>1, <2>2, <2>4, <1>10 DEF LogoutBlacklist
<1>11. ASSUME NEW g \in Gate, LogoutEvict(g) PROVE TypeOK'
  <2>1. <<req[g].tok, req[g].pod>> \in Jti \X Pod
    BY <1>11 DEF LogoutEvict, RequestShape, InFlight
  <2>2. loggedOut' \in SUBSET (Jti \X Pod)
    BY <2>1, <1>11 DEF LogoutEvict
  <2>3. [req[g] EXCEPT !.pc = "out"] \in Request
    BY RequestTypes DEF GateStages
  <2>4. req' \in [Gate -> Request]
    BY <2>3, <1>11 DEF LogoutEvict
  <2>5. cache' \in [Pod -> 0..CacheTtl]
    <3>1. CacheTtl \in 0..CacheTtl
      OBVIOUS
    <3> QED BY <3>1, <1>11 DEF LogoutEvict
  <2> QED BY <2>2, <2>4, <2>5, <1>11 DEF LogoutEvict
<1>12. ASSUME NEW g \in Gate, Respond(g) PROVE TypeOK'
  <2>1. req' \in [Gate -> Request]
    BY RequestTypes, <1>12 DEF Respond
  <2> QED BY <2>1, <1>12 DEF Respond
<1>13. ASSUME NEW v \in Revoker, NEW o \in Pod, RevokeClock(v, o) PROVE TypeOK'
  BY <1>13 DEF RevokeClock
<1>14. ASSUME NEW v \in Revoker, NEW j \in Jti, NarrowBlacklist(v, j) PROVE TypeOK'
  BY <1>14 DEF NarrowBlacklist, WatermarkTtl
<1>15. ASSUME NEW v \in Revoker, RevokeCommit(v) PROVE TypeOK'
  BY <1>15 DEF RevokeCommit, Later
<1>16. ASSUME NEW v \in Revoker, RevokePublish(v) PROVE TypeOK'
  BY <1>16 DEF RevokePublish, WatermarkTtl
<1>17. ASSUME NEW v \in Revoker, RevokeEvict(v) PROVE TypeOK'
  BY <1>17 DEF RevokeEvict, Later
<1>18. ASSUME NEW v \in Revoker, NarrowCommit(v) PROVE TypeOK'
  BY <1>18 DEF NarrowCommit, Later
<1>19. ASSUME NEW v \in Revoker, RevokeFail(v) PROVE TypeOK'
  BY <1>19 DEF RevokeFail
<1> QED
    BY <1>1, <1>2, <1>3, <1>4, <1>5, <1>6, <1>7, <1>8, <1>9, <1>10, <1>11, <1>12,
     <1>13, <1>14, <1>15, <1>16, <1>17, <1>18, <1>19
     DEF Next, Environment, Require, Revoke

(* A request keeps its token and its pod, and decides in time. *)
LEMMA ShapeStep == GateInv /\ [Next]_vars => RequestShape'
<1> SUFFICES ASSUME GateInv, [Next]_vars PROVE RequestShape'
  OBVIOUS
<1> USE TtlAssumption, StallAssumption, BoundAssumption
<1> USE DEF GateInv, TypeOK, Instant, Never, Request, RequestShape, InFlight,
            Reading, Exp, Later
<1>1. CASE UNCHANGED vars
  BY <1>1 DEF vars
<1>2. ASSUME Tick PROVE RequestShape'
  BY <1>2 DEF Tick, Older, CachedSessionUsable, NoMark
<1>3. ASSUME RedisRestart PROVE RequestShape'
  BY <1>3 DEF RedisRestart, NoMark
<1>4. ASSUME NEW j \in Jti, Issue(j) PROVE RequestShape'
  BY <1>4 DEF Issue
<1>5. ASSUME NEW g \in Gate, NEW j \in Jti, NEW o \in Pod, Present(g, j, o)
      PROVE  RequestShape'
  BY <1>5 DEF Present, NoRequest, Decodes
<1>6. ASSUME NEW g \in Gate, GateExists(g) PROVE RequestShape'
  BY <1>6 DEF GateExists
<1>7. ASSUME NEW g \in Gate, GateDecide(g) PROVE RequestShape'
  BY <1>7 DEF GateDecide, SessionGateProceeds
<1>8. ASSUME NEW g \in Gate, CacheFill(g) PROVE RequestShape'
  BY <1>8 DEF CacheFill
<1>9. ASSUME NEW g \in Gate, ServeDegraded(g) PROVE RequestShape'
    BY <1>9 DEF ServeDegraded, DegradedAuthGate, SessionGateProceeds,
     CachedSessionUsable, LatestWatermark
<1>10. ASSUME NEW g \in Gate, LogoutBlacklist(g) PROVE RequestShape'
  BY <1>10 DEF LogoutBlacklist, LogoutTtl
<1>11. ASSUME NEW g \in Gate, LogoutEvict(g) PROVE RequestShape'
  BY <1>11 DEF LogoutEvict
<1>12. ASSUME NEW g \in Gate, Respond(g) PROVE RequestShape'
  BY <1>12 DEF Respond, NoRequest
<1>13. ASSUME NEW v \in Revoker, NEW o \in Pod, RevokeClock(v, o)
      PROVE  RequestShape'
  BY <1>13 DEF RevokeClock
<1>14. ASSUME NEW v \in Revoker, NEW j \in Jti, NarrowBlacklist(v, j)
      PROVE  RequestShape'
  BY <1>14 DEF NarrowBlacklist, WatermarkTtl
<1>15. ASSUME NEW v \in Revoker, RevokeCommit(v) PROVE RequestShape'
  BY <1>15 DEF RevokeCommit
<1>16. ASSUME NEW v \in Revoker, RevokePublish(v) PROVE RequestShape'
  BY <1>16 DEF RevokePublish, WatermarkTtl
<1>17. ASSUME NEW v \in Revoker, RevokeEvict(v) PROVE RequestShape'
  BY <1>17 DEF RevokeEvict, NoRevocation
<1>18. ASSUME NEW v \in Revoker, NarrowCommit(v) PROVE RequestShape'
  BY <1>18 DEF NarrowCommit, NoRevocation
<1>19. ASSUME NEW v \in Revoker, RevokeFail(v) PROVE RequestShape'
  BY <1>19 DEF RevokeFail, NoRevocation
<1> QED
    BY <1>1, <1>2, <1>3, <1>4, <1>5, <1>6, <1>7, <1>8, <1>9, <1>10, <1>11, <1>12,
     <1>13, <1>14, <1>15, <1>16, <1>17, <1>18, <1>19
     DEF Next, Environment, Require, Revoke

(* The clock never goes back. *)
LEMMA ClockStep == GateInv /\ [Next]_vars => ClockOrder'
<1> SUFFICES ASSUME GateInv, [Next]_vars PROVE ClockOrder'
  OBVIOUS
<1> USE TtlAssumption, StallAssumption, BoundAssumption
<1> USE DEF GateInv, TypeOK, Instant, Never, Request, ClockOrder, Revoking, NoMark,
            Later
<1>1. CASE UNCHANGED vars
  BY <1>1 DEF vars
<1>2. ASSUME Tick PROVE ClockOrder'
  BY <1>2 DEF Tick, Older, CachedSessionUsable
<1>3. ASSUME RedisRestart PROVE ClockOrder'
  BY <1>3 DEF RedisRestart
<1>4. ASSUME NEW j \in Jti, Issue(j) PROVE ClockOrder'
  BY <1>4 DEF Issue
<1>5. ASSUME NEW g \in Gate, NEW j \in Jti, NEW o \in Pod, Present(g, j, o)
      PROVE  ClockOrder'
  BY <1>5 DEF Present, NoRequest, Decodes, Exp
<1>6. ASSUME NEW g \in Gate, GateExists(g) PROVE ClockOrder'
  BY <1>6 DEF GateExists
<1>7. ASSUME NEW g \in Gate, GateDecide(g) PROVE ClockOrder'
  BY <1>7 DEF GateDecide, SessionGateProceeds
<1>8. ASSUME NEW g \in Gate, CacheFill(g) PROVE ClockOrder'
  BY <1>8 DEF CacheFill
<1>9. ASSUME NEW g \in Gate, ServeDegraded(g) PROVE ClockOrder'
    BY <1>9 DEF ServeDegraded, DegradedAuthGate, SessionGateProceeds,
     CachedSessionUsable, LatestWatermark
<1>10. ASSUME NEW g \in Gate, LogoutBlacklist(g) PROVE ClockOrder'
  BY <1>10 DEF LogoutBlacklist, LogoutTtl, Exp
<1>11. ASSUME NEW g \in Gate, LogoutEvict(g) PROVE ClockOrder'
  BY <1>11 DEF LogoutEvict
<1>12. ASSUME NEW g \in Gate, Respond(g) PROVE ClockOrder'
  BY <1>12 DEF Respond, NoRequest
<1>13. ASSUME NEW v \in Revoker, NEW o \in Pod, RevokeClock(v, o) PROVE ClockOrder'
  BY <1>13 DEF RevokeClock
<1>14. ASSUME NEW v \in Revoker, NEW j \in Jti, NarrowBlacklist(v, j)
      PROVE  ClockOrder'
  BY <1>14 DEF NarrowBlacklist, WatermarkTtl
<1>15. ASSUME NEW v \in Revoker, RevokeCommit(v) PROVE ClockOrder'
  BY <1>15 DEF RevokeCommit
<1>16. ASSUME NEW v \in Revoker, RevokePublish(v) PROVE ClockOrder'
  BY <1>16 DEF RevokePublish, WatermarkTtl
<1>17. ASSUME NEW v \in Revoker, RevokeEvict(v) PROVE ClockOrder'
  BY <1>17 DEF RevokeEvict, NoRevocation
<1>18. ASSUME NEW v \in Revoker, NarrowCommit(v) PROVE ClockOrder'
  BY <1>18 DEF NarrowCommit, NoRevocation
<1>19. ASSUME NEW v \in Revoker, RevokeFail(v) PROVE ClockOrder'
  BY <1>19 DEF RevokeFail, NoRevocation
<1> QED
    BY <1>1, <1>2, <1>3, <1>4, <1>5, <1>6, <1>7, <1>8, <1>9, <1>10, <1>11, <1>12,
     <1>13, <1>14, <1>15, <1>16, <1>17, <1>18, <1>19
     DEF Next, Environment, Require, Revoke

(* Postgres comes before Redis, and Redis before the answer. *)
LEMMA TrailStep == GateInv /\ [Next]_vars => TrailFirst'
<1> SUFFICES ASSUME GateInv, [Next]_vars PROVE TrailFirst'
  OBVIOUS
<1> USE TtlAssumption, StallAssumption, BoundAssumption
<1> USE DEF GateInv, TypeOK, Instant, Never, Request, TrailFirst, NoMark, Later
<1>1. CASE UNCHANGED vars
  BY <1>1 DEF vars
<1>2. ASSUME Tick PROVE TrailFirst'
  BY <1>2 DEF Tick, Older, CachedSessionUsable
<1>3. ASSUME RedisRestart PROVE TrailFirst'
  BY <1>3 DEF RedisRestart
<1>4. ASSUME NEW j \in Jti, Issue(j) PROVE TrailFirst'
  BY <1>4 DEF Issue
<1>5. ASSUME NEW g \in Gate, NEW j \in Jti, NEW o \in Pod, Present(g, j, o)
      PROVE  TrailFirst'
  BY <1>5 DEF Present, NoRequest, Decodes, Exp
<1>6. ASSUME NEW g \in Gate, GateExists(g) PROVE TrailFirst'
  BY <1>6 DEF GateExists
<1>7. ASSUME NEW g \in Gate, GateDecide(g) PROVE TrailFirst'
  BY <1>7 DEF GateDecide, SessionGateProceeds
<1>8. ASSUME NEW g \in Gate, CacheFill(g) PROVE TrailFirst'
  BY <1>8 DEF CacheFill
<1>9. ASSUME NEW g \in Gate, ServeDegraded(g) PROVE TrailFirst'
    BY <1>9 DEF ServeDegraded, DegradedAuthGate, SessionGateProceeds,
     CachedSessionUsable, LatestWatermark
<1>10. ASSUME NEW g \in Gate, LogoutBlacklist(g) PROVE TrailFirst'
  BY <1>10 DEF LogoutBlacklist, LogoutTtl, Exp
<1>11. ASSUME NEW g \in Gate, LogoutEvict(g) PROVE TrailFirst'
  BY <1>11 DEF LogoutEvict
<1>12. ASSUME NEW g \in Gate, Respond(g) PROVE TrailFirst'
  BY <1>12 DEF Respond, NoRequest
<1>13. ASSUME NEW v \in Revoker, NEW o \in Pod, RevokeClock(v, o) PROVE TrailFirst'
  BY <1>13 DEF RevokeClock
<1>14. ASSUME NEW v \in Revoker, NEW j \in Jti, NarrowBlacklist(v, j)
      PROVE  TrailFirst'
  BY <1>14 DEF NarrowBlacklist, WatermarkTtl
<1>15. ASSUME NEW v \in Revoker, RevokeCommit(v) PROVE TrailFirst'
  BY <1>15 DEF RevokeCommit
<1>16. ASSUME NEW v \in Revoker, RevokePublish(v) PROVE TrailFirst'
  BY <1>16 DEF RevokePublish, WatermarkTtl
<1>17. ASSUME NEW v \in Revoker, RevokeEvict(v) PROVE TrailFirst'
  BY <1>17 DEF RevokeEvict, NoRevocation
<1>18. ASSUME NEW v \in Revoker, NarrowCommit(v) PROVE TrailFirst'
  BY <1>18 DEF NarrowCommit, NoRevocation
<1>19. ASSUME NEW v \in Revoker, RevokeFail(v) PROVE TrailFirst'
  BY <1>19 DEF RevokeFail, NoRevocation
<1> QED
    BY <1>1, <1>2, <1>3, <1>4, <1>5, <1>6, <1>7, <1>8, <1>9, <1>10, <1>11, <1>12,
     <1>13, <1>14, <1>15, <1>16, <1>17, <1>18, <1>19
     DEF Next, Environment, Require, Revoke

(* Only a request that Redis passed renews an entry, and at once. *)
LEMMA CacheStep == GateInv /\ [Next]_vars => CacheNotYounger'
<1> SUFFICES ASSUME GateInv, [Next]_vars PROVE CacheNotYounger'
  OBVIOUS
<1> USE TtlAssumption, StallAssumption, BoundAssumption
<1> USE DEF GateInv, TypeOK, Instant, Never, Request, CacheNotYounger, RequestShape,
            InFlight, ClockOrder, Revoking
<1>1. CASE UNCHANGED vars
  BY <1>1 DEF vars
<1>2. ASSUME Tick PROVE CacheNotYounger'
  BY <1>2 DEF Tick, Older, CachedSessionUsable, NoMark
<1>3. ASSUME RedisRestart PROVE CacheNotYounger'
  BY <1>3 DEF RedisRestart, NoMark
<1>4. ASSUME NEW j \in Jti, Issue(j) PROVE CacheNotYounger'
  BY <1>4 DEF Issue
<1>5. ASSUME NEW g \in Gate, NEW j \in Jti, NEW o \in Pod, Present(g, j, o)
      PROVE  CacheNotYounger'
  BY <1>5 DEF Present, NoRequest, Decodes, Exp
<1>6. ASSUME NEW g \in Gate, GateExists(g) PROVE CacheNotYounger'
  BY <1>6 DEF GateExists
<1>7. ASSUME NEW g \in Gate, GateDecide(g) PROVE CacheNotYounger'
  BY <1>7 DEF GateDecide, SessionGateProceeds
<1>8. ASSUME NEW g \in Gate, CacheFill(g) PROVE CacheNotYounger'
  BY <1>8 DEF CacheFill
<1>9. ASSUME NEW g \in Gate, ServeDegraded(g) PROVE CacheNotYounger'
    BY <1>9 DEF ServeDegraded, DegradedAuthGate, SessionGateProceeds,
     CachedSessionUsable, LatestWatermark
<1>10. ASSUME NEW g \in Gate, LogoutBlacklist(g) PROVE CacheNotYounger'
  BY <1>10 DEF LogoutBlacklist, LogoutTtl, Exp
<1>11. ASSUME NEW g \in Gate, LogoutEvict(g) PROVE CacheNotYounger'
  BY <1>11 DEF LogoutEvict
<1>12. ASSUME NEW g \in Gate, Respond(g) PROVE CacheNotYounger'
  BY <1>12 DEF Respond, NoRequest
<1>13. ASSUME NEW v \in Revoker, NEW o \in Pod, RevokeClock(v, o)
      PROVE  CacheNotYounger'
  BY <1>13 DEF RevokeClock
<1>14. ASSUME NEW v \in Revoker, NEW j \in Jti, NarrowBlacklist(v, j)
      PROVE  CacheNotYounger'
  BY <1>14 DEF NarrowBlacklist, WatermarkTtl
<1>15. ASSUME NEW v \in Revoker, RevokeCommit(v) PROVE CacheNotYounger'
  BY <1>15 DEF RevokeCommit, Later
<1>16. ASSUME NEW v \in Revoker, RevokePublish(v) PROVE CacheNotYounger'
  BY <1>16 DEF RevokePublish, WatermarkTtl
<1>17. ASSUME NEW v \in Revoker, RevokeEvict(v) PROVE CacheNotYounger'
  BY <1>17 DEF RevokeEvict, NoRevocation, Later
<1>18. ASSUME NEW v \in Revoker, NarrowCommit(v) PROVE CacheNotYounger'
  BY <1>18 DEF NarrowCommit, NoRevocation, Later
<1>19. ASSUME NEW v \in Revoker, RevokeFail(v) PROVE CacheNotYounger'
  BY <1>19 DEF RevokeFail, NoRevocation
<1> QED
    BY <1>1, <1>2, <1>3, <1>4, <1>5, <1>6, <1>7, <1>8, <1>9, <1>10, <1>11, <1>12,
     <1>13, <1>14, <1>15, <1>16, <1>17, <1>18, <1>19
     DEF Next, Environment, Require, Revoke

(* A blacklist entry reaches to the exp of its token. *)
LEMMA BlacklistStep == GateInv /\ [Next]_vars => BlacklistLasts'
<1> SUFFICES ASSUME GateInv, [Next]_vars PROVE BlacklistLasts'
  OBVIOUS
<1> USE TtlAssumption, StallAssumption, BoundAssumption
<1> USE DEF GateInv, TypeOK, Instant, Never, Request, BlacklistLasts, RequestShape,
            InFlight, ClockOrder, Exp
<1>1. CASE UNCHANGED vars
  BY <1>1 DEF vars
<1>2. ASSUME Tick PROVE BlacklistLasts'
  BY <1>2 DEF Tick, Older, CachedSessionUsable, NoMark
<1>3. ASSUME RedisRestart PROVE BlacklistLasts'
  BY <1>3 DEF RedisRestart, NoMark
<1>4. ASSUME NEW j \in Jti, Issue(j) PROVE BlacklistLasts'
  BY <1>4 DEF Issue
<1>5. ASSUME NEW g \in Gate, NEW j \in Jti, NEW o \in Pod, Present(g, j, o)
      PROVE  BlacklistLasts'
  BY <1>5 DEF Present, NoRequest, Decodes
<1>6. ASSUME NEW g \in Gate, GateExists(g) PROVE BlacklistLasts'
  BY <1>6 DEF GateExists
<1>7. ASSUME NEW g \in Gate, GateDecide(g) PROVE BlacklistLasts'
  BY <1>7 DEF GateDecide, SessionGateProceeds
<1>8. ASSUME NEW g \in Gate, CacheFill(g) PROVE BlacklistLasts'
  BY <1>8, SMTT(30) DEF CacheFill
<1>9. ASSUME NEW g \in Gate, ServeDegraded(g) PROVE BlacklistLasts'
    BY <1>9 DEF ServeDegraded, DegradedAuthGate, SessionGateProceeds,
     CachedSessionUsable, LatestWatermark
<1>10. ASSUME NEW g \in Gate, LogoutBlacklist(g) PROVE BlacklistLasts'
  <2>1. req[g].tok \in Jti /\ iat[req[g].tok] \in Nat
    BY <1>10 DEF LogoutBlacklist
  <2>2. now + LogoutTtl(req[g].tok) >= Exp(req[g].tok) /\ LogoutTtl(req[g].tok) \in Nat \ {0}
    BY <2>1 DEF LogoutTtl
  <2>3. /\ \A j \in Jti : j # req[g].tok => blackUntil'[j] = blackUntil[j]
        /\ blackUntil'[req[g].tok] = now + LogoutTtl(req[g].tok)
    BY <2>1, <1>10 DEF LogoutBlacklist
  <2>4. /\ \A h \in Gate : h # g => req'[h] = req[h]
        /\ req'[g].pc = "evict" /\ req'[g].tok = req[g].tok
    BY <1>10 DEF LogoutBlacklist
  <2>5. UNCHANGED <<now, iat, loggedOut, restarts>>
    BY <1>10 DEF LogoutBlacklist
  <2> HIDE DEF LogoutTtl
  <2> SUFFICES ASSUME restarts' = 0 PROVE BlacklistLasts'
    OBVIOUS
  <2>6. ASSUME NEW j \in Jti
        PROVE  /\ blackUntil[j] # 0 => blackUntil'[j] # 0
               /\ blackUntil'[j] # 0 => iat[j] # Never /\ blackUntil'[j] >= Exp(j)
    BY <2>1, <2>2, <2>3, <2>5
  <2>7. ASSUME NEW h \in Gate, h # g PROVE InFlight(h) => req[h].tok \in Jti
    OBVIOUS
  <2> QED BY <2>1, <2>2, <2>3, <2>4, <2>5, <2>6, <2>7, SMTT(30)
<1>11. ASSUME NEW g \in Gate, LogoutEvict(g) PROVE BlacklistLasts'
  <2>1. \A j \in Jti, o \in Pod :
           <<j, o>> \in loggedOut' => j = req[g].tok \/ <<j, o>> \in loggedOut
    BY <1>11 DEF LogoutEvict
  <2>2. /\ \A h \in Gate : h # g => req'[h] = req[h]
        /\ req'[g].pc = "out"
    BY <1>11 DEF LogoutEvict
  <2>3. UNCHANGED <<now, iat, blackUntil, restarts>> /\ req[g].pc = "evict"
    BY <1>11 DEF LogoutEvict
  <2>4. req[g].tok \in Jti /\ iat[req[g].tok] # Never
    BY <2>3
  <2> SUFFICES ASSUME restarts' = 0 PROVE BlacklistLasts'
    OBVIOUS
  <2>5. \A j \in Jti, o \in Pod : <<j, o>> \in loggedOut' =>
           iat[j] # Never /\ (blackUntil[j] # 0 \/ now >= Exp(j))
    BY <2>1, <2>3, <2>4
  <2>6. ASSUME NEW h \in Gate, h # g PROVE InFlight(h) => req[h].tok \in Jti
    OBVIOUS
  <2>7. iat' = iat /\ now' = now /\ blackUntil' = blackUntil /\ restarts' = restarts
    BY <2>3
  <2> QED BY <2>2, <2>5, <2>6, <2>7, SMTT(30)
<1>12. ASSUME NEW g \in Gate, Respond(g) PROVE BlacklistLasts'
  BY <1>12 DEF Respond, NoRequest
<1>13. ASSUME NEW v \in Revoker, NEW o \in Pod, RevokeClock(v, o)
      PROVE  BlacklistLasts'
  BY <1>13 DEF RevokeClock
<1>14. ASSUME NEW v \in Revoker, NEW j \in Jti, NarrowBlacklist(v, j)
      PROVE  BlacklistLasts'
  BY <1>14 DEF NarrowBlacklist, WatermarkTtl
<1>15. ASSUME NEW v \in Revoker, RevokeCommit(v) PROVE BlacklistLasts'
  BY <1>15 DEF RevokeCommit, Later
<1>16. ASSUME NEW v \in Revoker, RevokePublish(v) PROVE BlacklistLasts'
  BY <1>16 DEF RevokePublish, WatermarkTtl
<1>17. ASSUME NEW v \in Revoker, RevokeEvict(v) PROVE BlacklistLasts'
  BY <1>17 DEF RevokeEvict, NoRevocation, Later
<1>18. ASSUME NEW v \in Revoker, NarrowCommit(v) PROVE BlacklistLasts'
  BY <1>18 DEF NarrowCommit, NoRevocation, Later
<1>19. ASSUME NEW v \in Revoker, RevokeFail(v) PROVE BlacklistLasts'
  BY <1>19 DEF RevokeFail, NoRevocation
<1> QED
    BY <1>1, <1>2, <1>3, <1>4, <1>5, <1>6, <1>7, <1>8, <1>9, <1>10, <1>11, <1>12,
     <1>13, <1>14, <1>15, <1>16, <1>17, <1>18, <1>19
     DEF Next, Environment, Require, Revoke

(* A watermark outlives every token that it refuses. *)
LEMMA WatermarkStep == GateInv /\ [Next]_vars => WatermarkLasts'
<1> SUFFICES ASSUME GateInv, [Next]_vars PROVE WatermarkLasts'
  OBVIOUS
<1> USE TtlAssumption, StallAssumption, BoundAssumption
<1> USE DEF GateInv, TypeOK, Instant, Never, Request, WatermarkLasts,
            SequentialRevocation, Enforced, WatermarkTtl, RequestShape, InFlight,
            Reading, ClockOrder, Revoking, Exp, NoMark, Later
<1>1. CASE UNCHANGED vars
  BY <1>1 DEF vars
<1>2. ASSUME Tick PROVE WatermarkLasts'
  BY <1>2 DEF Tick, Older, CachedSessionUsable
<1>3. ASSUME RedisRestart PROVE WatermarkLasts'
  BY <1>3 DEF RedisRestart
<1>4. ASSUME NEW j \in Jti, Issue(j) PROVE WatermarkLasts'
  BY <1>4 DEF Issue
<1>5. ASSUME NEW g \in Gate, NEW j \in Jti, NEW o \in Pod, Present(g, j, o)
      PROVE  WatermarkLasts'
  BY <1>5 DEF Present, NoRequest, Decodes
<1>6. ASSUME NEW g \in Gate, GateExists(g) PROVE WatermarkLasts'
  BY <1>6 DEF GateExists
<1>7. ASSUME NEW g \in Gate, GateDecide(g) PROVE WatermarkLasts'
  BY <1>7 DEF GateDecide, SessionGateProceeds
<1>8. ASSUME NEW g \in Gate, CacheFill(g) PROVE WatermarkLasts'
  BY <1>8 DEF CacheFill
<1>9. ASSUME NEW g \in Gate, ServeDegraded(g) PROVE WatermarkLasts'
    BY <1>9 DEF ServeDegraded, DegradedAuthGate, SessionGateProceeds,
     CachedSessionUsable, LatestWatermark
<1>10. ASSUME NEW g \in Gate, LogoutBlacklist(g) PROVE WatermarkLasts'
  BY <1>10 DEF LogoutBlacklist, LogoutTtl
<1>11. ASSUME NEW g \in Gate, LogoutEvict(g) PROVE WatermarkLasts'
  BY <1>11 DEF LogoutEvict
<1>12. ASSUME NEW g \in Gate, Respond(g) PROVE WatermarkLasts'
  BY <1>12 DEF Respond, NoRequest
<1>13. ASSUME NEW v \in Revoker, NEW o \in Pod, RevokeClock(v, o)
      PROVE  WatermarkLasts'
  BY <1>13 DEF RevokeClock
<1>14. ASSUME NEW v \in Revoker, NEW j \in Jti, NarrowBlacklist(v, j)
      PROVE  WatermarkLasts'
  BY <1>14 DEF NarrowBlacklist
<1>15. ASSUME NEW v \in Revoker, RevokeCommit(v) PROVE WatermarkLasts'
  BY <1>15 DEF RevokeCommit
<1>16. ASSUME NEW v \in Revoker, RevokePublish(v) PROVE WatermarkLasts'
  BY <1>16 DEF RevokePublish
<1>17. ASSUME NEW v \in Revoker, RevokeEvict(v) PROVE WatermarkLasts'
  BY <1>17 DEF RevokeEvict, NoRevocation
<1>18. ASSUME NEW v \in Revoker, NarrowCommit(v) PROVE WatermarkLasts'
  BY <1>18 DEF NarrowCommit, NoRevocation
<1>19. ASSUME NEW v \in Revoker, RevokeFail(v) PROVE WatermarkLasts'
  BY <1>19 DEF RevokeFail, NoRevocation
<1> QED
    BY <1>1, <1>2, <1>3, <1>4, <1>5, <1>6, <1>7, <1>8, <1>9, <1>10, <1>11, <1>12,
     <1>13, <1>14, <1>15, <1>16, <1>17, <1>18, <1>19
     DEF Next, Environment, Require, Revoke

(* The invariant holds initially and every step keeps it. *)
THEOREM GateInvariance == Spec => []GateInv
<1>1. Init => GateInv
  <2> SUFFICES ASSUME Init PROVE GateInv
    OBVIOUS
  <2> USE TtlAssumption, StallAssumption, BoundAssumption
  <2> USE DEF Init, Never, Instant, NoMark, NoRevocation
  <2>1. NoRequest \in Request
    BY DEF NoRequest, Request, GateStages
  <2>2. TypeOK
    BY <2>1 DEF TypeOK, RevokeStages
  <2>3. \A g \in Gate : req[g].pc = "idle"
    BY DEF NoRequest
  <2>4. RequestShape /\ ClockOrder /\ TrailFirst /\ CacheNotYounger
        BY <2>3 DEF RequestShape, InFlight, ClockOrder, Revoking, TrailFirst,
       CacheNotYounger
  <2>5. BlacklistLasts /\ WatermarkLasts
    BY <2>3 DEF BlacklistLasts, WatermarkLasts, Revoking
  <2> QED BY <2>2, <2>4, <2>5 DEF GateInv
<1>2. GateInv /\ [Next]_vars => GateInv'
    BY TypeStep, ShapeStep, ClockStep, TrailStep, CacheStep, BlacklistStep,
     WatermarkStep
     DEF GateInv
<1> QED BY <1>1, <1>2, PTL DEF Spec

(* The state of the gate and of the revocations keeps its types. *)
THEOREM GateTypes == Spec => []TypeOK
<1>1. GateInv => TypeOK BY DEF GateInv
<1> QED BY <1>1, GateInvariance, PTL

(* Redis never enforces a revocation that the audit trail does not hold. *)
THEOREM PostgresFirst == Spec => []RedisNeverAhead
<1>1. GateInv => RedisNeverAhead BY DEF GateInv, TrailFirst, RedisNeverAhead
<1> QED BY <1>1, GateInvariance, PTL

-----------------------------------------------------------------------------
(* What the verdict on a request was about stays as it was. *)
SameCase(g) ==
  /\ req'[g].tok = req[g].tok /\ req'[g].pod = req[g].pod
  /\ req'[g].since = req[g].since /\ req'[g].gone = req[g].gone
  /\ req'[g].at = req[g].at /\ iat'[req[g].tok] = iat[req[g].tok]

(* A request is served on Redis' word or on the degraded path, and no other *)
(* way.                                                                     *)
ServedOn(g) ==
  \/ Served(g) /\ req'[g].mode = req[g].mode /\ req'[g].blind = req[g].blind
  \/ req[g].pc = "pass" /\ req'[g].mode = "healthy"
  \/ /\ Reading(g) /\ req'[g].mode = "degraded" /\ trail.user < iat[req[g].tok]
     /\ cache[req[g].pod] < CacheTtl /\ req'[g].blind = verified[req[g].pod]

(* A request is refused as revoked on Redis' watermark or on the trail's.   *)
RevokedOn(g) ==
  \/ req[g].pc = "revoked"
  \/ Reading(g) /\ iat[req[g].tok] <= trail.user

(* The latest user-wide watermark on the audit trail never goes back. *)
LEMMA TrailGrows ==
  ASSUME GateInv, [Next]_vars
  PROVE  trail.user \in Instant /\ trail'.user \in Instant /\ trail.user <= trail'.user
<1> USE DEF GateInv, TypeOK, Instant, Never
<1>1. ASSUME NEW v \in Revoker, RevokeCommit(v)
      PROVE  trail'.user \in Instant /\ trail.user <= trail'.user
  BY <1>1 DEF RevokeCommit, Later
<1>2. ASSUME NEW v \in Revoker, NarrowCommit(v) PROVE trail'.user = trail.user
  BY <1>2 DEF NarrowCommit
<1>3. \/ UNCHANGED trail
      \/ \E v \in Revoker : RevokeCommit(v) \/ NarrowCommit(v)
    BY DEF Next, vars, Environment, Tick, RedisRestart, Issue, Require, Present,
     GateExists,
         GateDecide, CacheFill, ServeDegraded, LogoutBlacklist, LogoutEvict, Respond,
         Revoke, RevokeClock, NarrowBlacklist, RevokePublish, RevokeEvict, RevokeFail
<1> QED BY <1>1, <1>2, <1>3

(* Every verdict comes from one of these. *)
LEMMA Verdicts ==
  ASSUME GateInv, [Next]_vars
  PROVE  /\ \A g \in Gate : Served(g)' => SameCase(g) /\ ServedOn(g)
         /\ \A g \in Gate : req'[g].pc = "revoked" => SameCase(g) /\ RevokedOn(g)
<1> DEFINE Good(g) == /\ Served(g)' => SameCase(g) /\ ServedOn(g)
                      /\ req'[g].pc = "revoked" => SameCase(g) /\ RevokedOn(g)
<1> SUFFICES ASSUME NEW h \in Gate PROVE Good(h)
  OBVIOUS
<1> USE DEF GateInv, TypeOK, Served, SameCase, ServedOn, RevokedOn, Reading
<1>1. CASE UNCHANGED vars
  BY <1>1 DEF vars
<1>2. CASE \E g \in Gate : Require(g)
  <2>1. ASSUME NEW g \in Gate, NEW j \in Jti, NEW o \in Pod, Present(g, j, o) PROVE Good(h)
    BY <2>1 DEF Present, NoRequest
  <2>2. ASSUME NEW g \in Gate, GateExists(g) PROVE Good(h)
    BY <2>2 DEF GateExists
  <2>3. ASSUME NEW g \in Gate, GateDecide(g) PROVE Good(h)
    BY <2>3 DEF GateDecide, SessionGateProceeds, RequestShape, InFlight, TrailFirst,
                Instant, Never
  <2>4. ASSUME NEW g \in Gate, CacheFill(g) PROVE Good(h)
    BY <2>4 DEF CacheFill, RequestShape, InFlight
  <2>5. ASSUME NEW g \in Gate, ServeDegraded(g) PROVE Good(h)
        BY <2>5 DEF ServeDegraded, DegradedAuthGate, SessionGateProceeds,
       LatestWatermark,
                CachedSessionUsable, RequestShape, InFlight, Instant, Never
  <2>6. ASSUME NEW g \in Gate, LogoutBlacklist(g) PROVE Good(h)
    BY <2>6 DEF LogoutBlacklist
  <2>7. ASSUME NEW g \in Gate, LogoutEvict(g) PROVE Good(h)
    BY <2>7 DEF LogoutEvict
  <2>8. ASSUME NEW g \in Gate, Respond(g) PROVE Good(h)
    BY <2>8 DEF Respond, NoRequest
  <2> QED BY <1>2, <2>1, <2>2, <2>3, <2>4, <2>5, <2>6, <2>7, <2>8 DEF Require
<1>3. CASE Environment
  <2>1. req' = req /\ (iat' = iat \/ \E j \in Jti : iat[j] = Never /\ iat' = [iat EXCEPT ![j] = now])
    BY <1>3 DEF Environment, Tick, RedisRestart, Issue
  <2> QED BY <2>1 DEF RequestShape, InFlight
<1>4. CASE \E v \in Revoker : Revoke(v)
  <2>1. req' = req /\ iat' = iat
    BY <1>4 DEF Revoke, RevokeClock, NarrowBlacklist, RevokeCommit, RevokePublish,
                RevokeEvict, NarrowCommit, RevokeFail
  <2> QED BY <2>1
<1> QED BY <1>1, <1>2, <1>3, <1>4 DEF Next

(* A narrow revocation never signs the user's other sessions out. *)
THEOREM NarrowIsNarrow == Spec => []NarrowStaysNarrow
<1>1. Init => NarrowStaysNarrow
  BY DEF Init, NarrowStaysNarrow, NoRequest
<1>2. GateInv /\ NarrowStaysNarrow /\ [Next]_vars => NarrowStaysNarrow'
  <2> SUFFICES ASSUME GateInv, NarrowStaysNarrow, [Next]_vars, NEW g \in Gate,
                      req'[g].pc = "revoked"
               PROVE  iat'[req'[g].tok] <= trail'.user
    BY DEF NarrowStaysNarrow
  <2>1. req'[g].tok = req[g].tok /\ iat'[req[g].tok] = iat[req[g].tok] /\ RevokedOn(g)
    BY Verdicts DEF SameCase
  <2>2. iat[req[g].tok] <= trail.user
    BY <2>1 DEF RevokedOn, NarrowStaysNarrow
  <2>3. iat[req[g].tok] \in Instant
    BY <2>1 DEF GateInv, TypeOK, RequestShape, InFlight, RevokedOn, Reading
  <2>4. trail.user <= trail'.user /\ trail.user \in Instant /\ trail'.user \in Instant
    BY TrailGrows
  <2> QED BY <2>1, <2>2, <2>3, <2>4 DEF Instant, Never
<1> QED BY <1>1, <1>2, GateInvariance, PTL DEF Spec

(* Without Redis, a revoked token is refused even when Redis lost or        *)
(* regressed its watermark.                                                 *)
THEOREM DegradedHonoursRevocation == Spec => []DegradedNeverServesRevoked
<1>1. Init => DegradedNeverServesRevoked
  BY DEF Init, DegradedNeverServesRevoked, Degraded, Served, NoRequest
<1>2. GateInv /\ DegradedNeverServesRevoked /\ [Next]_vars => DegradedNeverServesRevoked'
  <2> SUFFICES ASSUME GateInv, DegradedNeverServesRevoked, [Next]_vars, NEW g \in Gate,
                      Degraded(g)'
               PROVE  iat'[req'[g].tok] > req'[g].since
    BY DEF DegradedNeverServesRevoked
  <2>1. SameCase(g) /\ ServedOn(g) /\ req'[g].mode = "degraded"
    BY Verdicts DEF Degraded
  <2>2. CASE Served(g) /\ req[g].mode = "degraded"
    BY <2>1, <2>2 DEF SameCase, DegradedNeverServesRevoked, Degraded
  <2>3. CASE Reading(g) /\ trail.user < iat[req[g].tok]
        BY <2>1, <2>3 DEF SameCase, Reading, GateInv, TypeOK, Request, RequestShape,
       InFlight,
                      TrailFirst, Instant, Never
  <2> QED BY <2>1, <2>2, <2>3 DEF ServedOn
<1> QED BY <1>1, <1>2, GateInvariance, PTL DEF Spec

(* The window in which a pod serves what it cannot check is CacheTtl long,  *)
(* whatever fills and evictions of the cache race.                          *)
THEOREM WindowIsBounded == Spec => []DegradedWindowBounded
<1>1. Init => DegradedWindowBounded
  BY DEF Init, DegradedWindowBounded, Degraded, Served, NoRequest
<1>2. GateInv /\ DegradedWindowBounded /\ [Next]_vars => DegradedWindowBounded'
  <2> SUFFICES ASSUME GateInv, DegradedWindowBounded, [Next]_vars, NEW g \in Gate,
                      Degraded(g)'
               PROVE  req'[g].blind < CacheTtl
    BY DEF DegradedWindowBounded
  <2>1. ServedOn(g) /\ req'[g].mode = "degraded"
    BY Verdicts DEF Degraded
  <2>2. CASE Served(g) /\ req[g].mode = "degraded" /\ req'[g].blind = req[g].blind
    BY <2>2 DEF DegradedWindowBounded, Degraded
  <2>3. CASE /\ Reading(g) /\ cache[req[g].pod] < CacheTtl
             /\ req'[g].blind = verified[req[g].pod]
    BY <2>3, TtlAssumption DEF Reading, GateInv, TypeOK, RequestShape, InFlight,
                               CacheNotYounger
  <2> QED BY <2>1, <2>2, <2>3 DEF ServedOn
<1> QED BY <1>1, <1>2, GateInvariance, PTL DEF Spec

(* The count of the restarts of Redis never falls. *)
LEMMA RestartsCount ==
  GateInv /\ [Next]_vars /\ restarts' = 0 => restarts = 0
<1> SUFFICES ASSUME GateInv, [Next]_vars, restarts' = 0 PROVE restarts = 0
  OBVIOUS
<1>1. restarts \in Nat
  BY DEF GateInv, TypeOK
<1>2. CASE RedisRestart
  BY <1>1, <1>2 DEF RedisRestart
<1>3. CASE UNCHANGED restarts
  BY <1>3
<1>4. RedisRestart \/ UNCHANGED restarts
  BY DEF Next, Environment, Require, Revoke, vars, Tick, Issue, Present, GateExists,
         GateDecide, CacheFill, ServeDegraded, LogoutBlacklist, LogoutEvict, Respond,
         RevokeClock, NarrowBlacklist, RevokeCommit, RevokePublish, RevokeEvict,
         NarrowCommit, RevokeFail
<1> QED BY <1>2, <1>3, <1>4

(* While Redis keeps its keys, a logged-out token is refused until its exp. *)
THEOREM LogoutHolds == Spec => []LoggedOutUntilExp
<1>1. Init => LoggedOutUntilExp
  BY DEF Init, LoggedOutUntilExp, Healthy, Served, NoRequest
<1>2. GateInv /\ LoggedOutUntilExp /\ [Next]_vars => LoggedOutUntilExp'
  <2> SUFFICES ASSUME GateInv, LoggedOutUntilExp, [Next]_vars, NEW g \in Gate,
                      restarts' = 0, Healthy(g)', req'[g].gone # {}
               PROVE  req'[g].at >= iat'[req'[g].tok] + AccessTtl
    BY DEF LoggedOutUntilExp, Exp
  <2>0. restarts = 0
    BY RestartsCount
  <2>1. SameCase(g) /\ ServedOn(g) /\ req'[g].mode = "healthy"
    BY Verdicts DEF Healthy
  <2>2. CASE Served(g) /\ req[g].mode = "healthy"
    BY <2>0, <2>1, <2>2 DEF SameCase, LoggedOutUntilExp, Healthy, Exp
  <2>3. CASE req[g].pc = "pass"
    BY <2>0, <2>1, <2>3 DEF SameCase, GateInv, BlacklistLasts, Exp
  <2> QED BY <2>1, <2>2, <2>3 DEF ServedOn
<1> QED BY <1>1, <1>2, GateInvariance, PTL DEF Spec

(* While the user's revocations come one after another and Redis keeps its  *)
(* keys, a revocation that answered 200 stops every older token, whatever   *)
(* the lifetimes: revocation_watermark_ttl_secs is long enough.             *)
THEOREM RevocationHolds == Spec => [](SequentialRevocation => RevokedNeverServed)
<1> DEFINE P == SequentialRevocation => RevokedNeverServed
<1>1. Init => P
  BY DEF Init, RevokedNeverServed, Served, NoRequest
<1>2. GateInv /\ P /\ [Next]_vars => P'
  <2> SUFFICES ASSUME GateInv, P, [Next]_vars, NEW g \in Gate, SequentialRevocation,
                      restarts' = 0, Served(g)'
               PROVE  iat'[req'[g].tok] > req'[g].since
    BY DEF RevokedNeverServed, SequentialRevocation
  <2>0. restarts = 0
    BY RestartsCount
  <2>1. SameCase(g) /\ ServedOn(g)
    BY Verdicts
  <2>2. CASE Served(g)
    BY <2>0, <2>1, <2>2 DEF SameCase, RevokedNeverServed
  <2>3. CASE req[g].pc = "pass"
    BY <2>0, <2>1, <2>3 DEF SameCase, GateInv, WatermarkLasts
  <2>4. CASE Reading(g) /\ trail.user < iat[req[g].tok]
        BY <2>1, <2>4 DEF SameCase, Reading, GateInv, TypeOK, Request, RequestShape,
       InFlight,
                      TrailFirst, Instant, Never
  <2> QED BY <2>1, <2>2, <2>3, <2>4 DEF ServedOn
<1> QED BY <1>1, <1>2, GateInvariance, PTL DEF Spec
=============================================================================
