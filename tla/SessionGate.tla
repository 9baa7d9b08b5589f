---------------------------- MODULE SessionGate ----------------------------
(***************************************************************************)
(* jwt_auth::require on every pod, against the two stores that end a       *)
(* session: Redis (the jti blacklist and the per-user watermark, both with *)
(* a TTL) and Postgres (session_revocation_audit).  With it the handlers   *)
(* that write those stores: logout, revoke_sessions and the Redis and      *)
(* audit halves of revoke_one_session.                                     *)
(*                                                                         *)
(* One user: every key here is per user or per token, and no step of one   *)
(* user's gates reads another's.  A pod is a gateway process with its own  *)
(* auth_cache.  Any call to a store may fail, on any pod, at any time.     *)
(* Time is in seconds; what runs between two awaits takes none.            *)
(***************************************************************************)
EXTENDS Integers

CONSTANTS Jti,            \* access tokens, by their jti
          Pod,            \* gateway processes
          Gate,           \* requests in flight
          Revoker,        \* revocations in flight
          AccessTtl,      \* jwt.access_ttl_secs
          Leeway,         \* Validation::leeway
          CacheTtl,       \* DEGRADED_AUTH_CACHE_TTL_SECS
          Stall,          \* the longest a gate read keeps a request waiting
          MaxTime,        \* bound on the clock
          MaxRevocations, \* bound on the revocations started
          MaxRestarts     \* bound on the times Redis restarts empty

ASSUME TtlAssumption ==
  AccessTtl \in Nat \ {0} /\ Leeway \in Nat \ {0} /\ CacheTtl \in Nat \ {0}
(* The slack revocation_watermark_ttl_secs leaves beyond the leeway must    *)
(* cover the time from decoding a token to reading its watermark.           *)
ASSUME StallAssumption == Stall \in 0..(Leeway - 1)
ASSUME BoundAssumption ==
  MaxTime \in Nat /\ MaxRevocations \in Nat /\ MaxRestarts \in Nat

VARIABLES
  now,         \* the clock
  iat,         \* when a token was minted, Never before
  blackUntil,  \* Redis jti_blacklist:{jti}: when the key expires, 0 for no key
  mark,        \* Redis session_revoked:{user}: the watermark and its expiry
  trail,       \* session_revocation_audit: the latest revoked_before_unix of
               \* the user-wide rows and of the narrow ones (session_id set)
  cache,       \* auth_cache of each pod: the age of the user's entry, CacheTtl
               \* standing for every age of no use and for no entry
  req,         \* the requests inside require, and logout behind it
  rev,         \* the revocations
  revocations, restarts,   \* counters of the bounds
  acked,       \* history: latest watermark whose revocation answered 200
  loggedOut,   \* history: <<token, pod>> of the logouts that answered 204
  verified     \* history: like cache, the age of the last pass in Redis on a pod

vars == <<now, iat, blackUntil, mark, trail, cache, req, rev, revocations, restarts,
          acked, loggedOut, verified>>

Never == -1
None == "none"
NoMark == [at |-> Never, until |-> 0]

NoRequest ==
  [pc |-> "idle", tok |-> None, pod |-> None,
   started |-> 0,        \* when the token was decoded
   listed |-> 0,         \* what EXISTS answered
   at |-> 0,             \* and when
   mode |-> None,        \* the path that decided
   since |-> Never,      \* history: acked when the request started
   gone |-> {},          \* history: the pods that had logged its token out then
   blind |-> 0]          \* history: verified of its pod as the degraded path decided

NoRevocation == [pc |-> "idle", pod |-> None, before |-> 0]

Exp(j) == iat[j] + AccessTtl

(* jsonwebtoken's validate_exp with the leeway. *)
Decodes(j) == iat[j] # Never /\ now <= Exp(j) + Leeway

(* MAX of two instants, Never standing for NULL. *)
Later(t, u) == IF t < u THEN u ELSE t

(* latest_watermark: MAX(revoked_before_unix) WHERE session_id IS NULL. *)
LatestWatermark == trail.user

(* session_gate: Never stands for "no watermark", below every iat. *)
SessionGateProceeds(blacklisted, watermark, t) == ~ blacklisted /\ watermark < t

CachedSessionUsable(age) == age < CacheTtl

Older(age) == IF CachedSessionUsable(age) THEN age + 1 ELSE age

(* degraded_auth_gate, given the watermark Postgres answered. *)
DegradedAuthGate(watermark, t, age) ==
  IF ~ SessionGateProceeds(FALSE, watermark, t) THEN "revoked"  \* RevokedDurably
  ELSE IF CachedSessionUsable(age) THEN "served"                \* LogoutUnverifiable
  ELSE "refused"                                                \* NoWarmSession

(* Mutant: no allowance for the leeway and the wait. *)
WatermarkTtlTight == AccessTtl

(* revocation_watermark_ttl_secs: 120 s is twice the leeway. *)
WatermarkTtl == AccessTtl + 2 * Leeway

(* Mutant: the blacklist entry lives one second. *)
LogoutTtlShort(j) == 1

(* logout's blacklist TTL: what is left until exp, at least a second. *)
LogoutTtl(j) == IF Exp(j) - now > 1 THEN Exp(j) - now ELSE 1

Init ==
  /\ now = 0
  /\ iat = [j \in Jti |-> Never]
  /\ blackUntil = [j \in Jti |-> 0]
  /\ mark = NoMark
  /\ trail = [user |-> Never, narrow |-> Never]
  /\ cache = [o \in Pod |-> CacheTtl]
  /\ req = [g \in Gate |-> NoRequest]
  /\ rev = [v \in Revoker |-> NoRevocation]
  /\ revocations = 0 /\ restarts = 0
  /\ acked = Never /\ loggedOut = {}
  /\ verified = [o \in Pod |-> CacheTtl]

-----------------------------------------------------------------------------
(* The world around the gateway. *)

(* A second passes and Redis drops the keys whose TTL has run out.  A       *)
(* request between Redis' reply and its cache write has no await left and   *)
(* finishes first.                                                          *)
Tick ==
  /\ now < MaxTime
  /\ \A g \in Gate :
       /\ req[g].pc # "pass"
       /\ req[g].pc \in {"exists", "get"} => now - req[g].started < Stall
  /\ now' = now + 1
  /\ blackUntil' = [j \in Jti |-> IF blackUntil[j] > now + 1 THEN blackUntil[j] ELSE 0]
  /\ mark' = IF mark.until > now + 1 THEN mark ELSE NoMark
  /\ cache' = [o \in Pod |-> Older(cache[o])]
  /\ verified' = [o \in Pod |-> Older(verified[o])]
  /\ UNCHANGED <<iat, trail, req, rev, revocations, restarts, acked, loggedOut>>

(* Redis runs with --save "": a restart comes back with no key. *)
RedisRestart ==
  /\ restarts < MaxRestarts
  /\ restarts' = restarts + 1
  /\ blackUntil' = [j \in Jti |-> 0]
  /\ mark' = NoMark
  /\ UNCHANGED <<now, iat, trail, cache, req, rev, revocations, acked, loggedOut,
                 verified>>

(* Sign-in or refresh hands out an access token (RefreshTokens.tla). *)
Issue(j) ==
  /\ iat[j] = Never
  /\ iat' = [iat EXCEPT ![j] = now]
  /\ UNCHANGED <<now, blackUntil, mark, trail, cache, req, rev, revocations, restarts,
                 acked, loggedOut, verified>>

-----------------------------------------------------------------------------
(* jwt_auth::require decodes the token, then reads both gates from Redis,   *)
(* EXISTS and GET on one connection.                                        *)
Present(g, j, o) ==
  /\ req[g].pc = "idle" /\ Decodes(j)
  /\ req' = [req EXCEPT ![g] =
       [NoRequest EXCEPT !.pc = "exists", !.tok = j, !.pod = o, !.started = now,
                         !.since = acked,
                         !.gone = {q \in Pod : <<j, q>> \in loggedOut}]]
  /\ UNCHANGED <<now, iat, blackUntil, mark, trail, cache, rev, revocations, restarts,
                 acked, loggedOut, verified>>

GateExists(g) ==
  /\ req[g].pc = "exists"
  /\ req' = [req EXCEPT ![g].pc = "get", ![g].at = now,
                        ![g].listed = IF blackUntil[req[g].tok] # 0 THEN 1 ELSE 0]
  /\ UNCHANGED <<now, iat, blackUntil, mark, trail, cache, rev, revocations, restarts,
                 acked, loggedOut, verified>>

GateDecide(g) ==
  /\ req[g].pc = "get"
  /\ LET ok == SessionGateProceeds(req[g].listed = 1, mark.at, iat[req[g].tok]) IN
     /\ req' = [req EXCEPT ![g].mode = "healthy",
                           ![g].pc = IF ok THEN "pass"
                                     ELSE IF req[g].listed = 1 THEN "logged_out"
                                     ELSE "revoked"]
     /\ verified' = IF ok THEN [verified EXCEPT ![req[g].pod] = 0] ELSE verified
  /\ UNCHANGED <<now, iat, blackUntil, mark, trail, cache, rev, revocations, restarts,
                 acked, loggedOut>>

(* Write-through of the auth_cache, then the handler runs. *)
CacheFill(g) ==
  /\ req[g].pc = "pass"
  /\ cache' = [cache EXCEPT ![req[g].pod] = 0]
  /\ req' = [req EXCEPT ![g].pc = "served"]
  /\ UNCHANGED <<now, iat, blackUntil, mark, trail, rev, revocations, restarts, acked,
                 loggedOut, verified>>

(* Mutant: serving from the cache renews the entry. *)
ServeDegradedRefill(g) ==
  /\ req[g].pc \in {"exists", "get"}
  /\ \E verdict \in {"refused",
                     DegradedAuthGate(LatestWatermark, iat[req[g].tok],
                                      cache[req[g].pod])} :
       /\ req' = [req EXCEPT ![g].mode = "degraded", ![g].pc = verdict,
                             ![g].blind = verified[req[g].pod]]
       /\ cache' = IF verdict = "served" THEN [cache EXCEPT ![req[g].pod] = 0] ELSE cache
  /\ UNCHANGED <<now, iat, blackUntil, mark, trail, rev, revocations, restarts, acked,
                 loggedOut, verified>>

(* Mutant: a warm entry is enough. *)
ServeDegradedOnCache(g) ==
  /\ req[g].pc \in {"exists", "get"}
  /\ \E verdict \in {"refused",
                     IF CachedSessionUsable(cache[req[g].pod]) THEN "served"
                     ELSE "refused"} :
       req' = [req EXCEPT ![g].mode = "degraded", ![g].pc = verdict,
                          ![g].blind = verified[req[g].pod]]
  /\ UNCHANGED <<now, iat, blackUntil, mark, trail, cache, rev, revocations, restarts,
                 acked, loggedOut, verified>>

(* serve_degraded: Redis failed, so the durable watermark decides, then the *)
(* age of the pod's own entry; Postgres failing too (SessionStoreLost)      *)
(* refuses.                                                                 *)
ServeDegraded(g) ==
  /\ req[g].pc \in {"exists", "get"}
  /\ \E verdict \in {"refused",
                     DegradedAuthGate(LatestWatermark, iat[req[g].tok],
                                      cache[req[g].pod])} :
       req' = [req EXCEPT ![g].mode = "degraded", ![g].pc = verdict,
                          ![g].blind = verified[req[g].pod]]
  /\ UNCHANGED <<now, iat, blackUntil, mark, trail, cache, rev, revocations, restarts,
                 acked, loggedOut, verified>>

(* The handler behind the gate is logout: blacklist first, or report the    *)
(* error; then evict this pod's entry and answer 204.                       *)
LogoutBlacklist(g) ==
  /\ req[g].pc = "served"
  /\ blackUntil' = [blackUntil EXCEPT ![req[g].tok] = now + LogoutTtl(req[g].tok)]
  /\ req' = [req EXCEPT ![g].pc = "evict"]
  /\ UNCHANGED <<now, iat, mark, trail, cache, rev, revocations, restarts, acked,
                 loggedOut, verified>>

LogoutEvict(g) ==
  /\ req[g].pc = "evict"
  /\ cache' = [cache EXCEPT ![req[g].pod] = CacheTtl]
  /\ loggedOut' = loggedOut \cup {<<req[g].tok, req[g].pod>>}
  /\ req' = [req EXCEPT ![g].pc = "out"]
  /\ UNCHANGED <<now, iat, blackUntil, mark, trail, rev, revocations, restarts, acked,
                 verified>>

(* The response goes out, whatever it is: a served page, a 401, a 503, the  *)
(* 500 of a logout that could not write Redis.                              *)
Respond(g) ==
  /\ req[g].pc \in {"served", "logged_out", "revoked", "refused", "out"}
  /\ req' = [req EXCEPT ![g] = NoRequest]
  /\ UNCHANGED <<now, iat, blackUntil, mark, trail, cache, rev, revocations, restarts,
                 acked, loggedOut, verified>>

-----------------------------------------------------------------------------
(* revoke_sessions on some pod: the clock, then Postgres, then Redis.       *)
RevokeClock(v, o) ==
  /\ rev[v].pc = "idle" /\ revocations < MaxRevocations
  /\ revocations' = revocations + 1
  /\ rev' = [rev EXCEPT ![v] = [pc |-> "commit", pod |-> o, before |-> now]]
  /\ UNCHANGED <<now, iat, blackUntil, mark, trail, cache, req, restarts, acked,
                 loggedOut, verified>>

RevokeCommit(v) ==
  /\ rev[v].pc = "commit"
  /\ trail' = [trail EXCEPT !.user = Later(@, rev[v].before)]
  /\ rev' = [rev EXCEPT ![v].pc = "publish"]
  /\ UNCHANGED <<now, iat, blackUntil, mark, cache, req, revocations, restarts, acked,
                 loggedOut, verified>>

(* SET session_revoked:{user} EX: overwrites whatever is there. *)
RevokePublish(v) ==
  /\ rev[v].pc = "publish"
  /\ mark' = [at |-> rev[v].before, until |-> now + WatermarkTtl]
  /\ rev' = [rev EXCEPT ![v].pc = "evict"]
  /\ UNCHANGED <<now, iat, blackUntil, trail, cache, req, revocations, restarts, acked,
                 loggedOut, verified>>

RevokeEvict(v) ==
  /\ rev[v].pc = "evict"
  /\ cache' = [cache EXCEPT ![rev[v].pod] = CacheTtl]
  /\ acked' = Later(acked, rev[v].before)
  /\ rev' = [rev EXCEPT ![v] = NoRevocation]
  /\ UNCHANGED <<now, iat, blackUntil, mark, trail, req, revocations, restarts,
                 loggedOut, verified>>

(* revoke_one_session: blacklist the session's token, then the audit row,   *)
(* stamped with a clock read of its own.                                    *)
NarrowBlacklist(v, j) ==
  /\ rev[v].pc = "idle" /\ revocations < MaxRevocations /\ iat[j] # Never
  /\ revocations' = revocations + 1
  /\ blackUntil' = [blackUntil EXCEPT ![j] = now + WatermarkTtl]
  /\ rev' = [rev EXCEPT ![v].pc = "narrow"]
  /\ UNCHANGED <<now, iat, mark, trail, cache, req, restarts, acked, loggedOut,
                 verified>>

NarrowCommit(v) ==
  /\ rev[v].pc = "narrow"
  /\ trail' = [trail EXCEPT !.narrow = Later(@, now)]
  /\ rev' = [rev EXCEPT ![v] = NoRevocation]
  /\ UNCHANGED <<now, iat, blackUntil, mark, cache, req, revocations, restarts, acked,
                 loggedOut, verified>>

(* A store does not answer: the administrator gets a 5xx and what is done   *)
(* stays done.                                                              *)
RevokeFail(v) ==
  /\ rev[v].pc \in {"commit", "publish", "narrow"}
  /\ rev' = [rev EXCEPT ![v] = NoRevocation]
  /\ UNCHANGED <<now, iat, blackUntil, mark, trail, cache, req, revocations, restarts,
                 acked, loggedOut, verified>>

-----------------------------------------------------------------------------
Require(g) ==
  \/ \E j \in Jti, o \in Pod : Present(g, j, o)
  \/ GateExists(g) \/ GateDecide(g) \/ CacheFill(g) \/ ServeDegraded(g)
  \/ LogoutBlacklist(g) \/ LogoutEvict(g) \/ Respond(g)

Revoke(v) ==
  \/ \E o \in Pod : RevokeClock(v, o)
  \/ \E j \in Jti : NarrowBlacklist(v, j)
  \/ RevokeCommit(v) \/ RevokePublish(v) \/ RevokeEvict(v)
  \/ NarrowCommit(v) \/ RevokeFail(v)

Environment == Tick \/ RedisRestart \/ \E j \in Jti : Issue(j)

Next == Environment \/ (\E g \in Gate : Require(g)) \/ (\E v \in Revoker : Revoke(v))

Spec == Init /\ [][Next]_vars

-----------------------------------------------------------------------------
GateStages == {"idle", "exists", "get", "pass", "served", "evict", "out",
               "logged_out", "revoked", "refused"}
RevokeStages == {"idle", "commit", "publish", "evict", "narrow"}
Instant == Nat \cup {Never}

Request == [pc : GateStages, tok : Jti \cup {None}, pod : Pod \cup {None},
            started : Nat, listed : {0, 1}, at : Nat,
            mode : {None, "healthy", "degraded"}, since : Instant,
            gone : SUBSET Pod, blind : 0..CacheTtl]

(* Every variable keeps its type. *)
TypeOK ==
  /\ now \in Nat /\ iat \in [Jti -> Instant] /\ blackUntil \in [Jti -> Nat]
  /\ mark \in [at : Instant, until : Nat]
  /\ trail \in [user : Instant, narrow : Instant]
  /\ cache \in [Pod -> 0..CacheTtl] /\ verified \in [Pod -> 0..CacheTtl]
  /\ req \in [Gate -> Request]
  /\ rev \in [Revoker -> [pc : RevokeStages, pod : Pod \cup {None}, before : Nat]]
  /\ revocations \in Nat /\ restarts \in Nat
  /\ acked \in Instant /\ loggedOut \in SUBSET (Jti \X Pod)

Served(g) == req[g].pc \in {"served", "evict", "out"}
Healthy(g) == Served(g) /\ req[g].mode = "healthy"
Degraded(g) == Served(g) /\ req[g].mode = "degraded"

(* A user-wide revocation that answered 200 stops every token minted up to  *)
(* its watermark, on every pod, from the next request on, with Redis up or  *)
(* down, for as long as the token would otherwise be accepted, unless Redis *)
(* has come back empty.                                                     *)
RevokedNeverServed ==
  restarts = 0 => \A g \in Gate : Served(g) => iat[req[g].tok] > req[g].since

(* The same of the degraded path alone: it holds even when Redis has lost   *)
(* or regressed its watermark, for it reads MAX from Postgres.              *)
DegradedNeverServesRevoked ==
  \A g \in Gate : Degraded(g) => iat[req[g].tok] > req[g].since

(* A token whose logout answered 204 is refused by every pod that reaches   *)
(* Redis until its exp, unless Redis has come back empty.                   *)
LoggedOutUntilExp ==
  restarts = 0 =>
    \A g \in Gate : Healthy(g) /\ req[g].gone # {} => req[g].at >= Exp(req[g].tok)

(* The fail-open window: a pod serves on its cache only within CacheTtl of  *)
(* the last time Redis passed a token of this user there, however many      *)
(* requests it serves so, and whatever evictions and fills raced.           *)
DegradedWindowBounded ==
  \A g \in Gate : Degraded(g) => req[g].blind < CacheTtl

(* A narrow revocation is never read as a user-wide one: a token is refused *)
(* as revoked only under a user-wide watermark at or after its iat.         *)
NarrowStaysNarrow ==
  \A g \in Gate : req[g].pc = "revoked" => iat[req[g].tok] <= trail.user

(* Redis never enforces a watermark the audit trail does not hold: Postgres *)
(* first, Redis second.                                                     *)
RedisNeverAhead == mark.at <= trail.user

-----------------------------------------------------------------------------
(* The inductive strengthening of the safety properties. *)

InFlight(g) == req[g].pc # "idle"
Reading(g) == req[g].pc \in {"exists", "get"}
Revoking(v) == rev[v].pc \in {"commit", "publish", "evict"}

(* What a request carries from decoding its token to its answer. *)
RequestShape ==
  \A g \in Gate : InFlight(g) =>
    /\ req[g].tok \in Jti /\ req[g].pod \in Pod
    /\ iat[req[g].tok] # Never /\ req[g].since <= acked
    /\ Reading(g) => /\ req[g].started <= Exp(req[g].tok) + Leeway
                     /\ now <= req[g].started + Stall
    /\ req[g].pc = "pass" => req[g].mode = "healthy" /\ verified[req[g].pod] = 0

(* No instant on record lies ahead of the clock. *)
ClockOrder ==
  /\ \A j \in Jti : iat[j] <= now
  /\ \A v \in Revoker : Revoking(v) => rev[v].before <= now /\ rev[v].pod \in Pod
  /\ mark.at <= now /\ acked <= now

(* Redis and the answers given follow the audit trail. *)
TrailFirst ==
  /\ mark.at <= trail.user /\ acked <= trail.user
  /\ \A v \in Revoker : rev[v].pc \in {"publish", "evict"} => rev[v].before <= trail.user

(* An entry of the auth_cache is never younger than the verification that   *)
(* it stands for.                                                           *)
CacheNotYounger == \A o \in Pod : verified[o] <= cache[o]

(* While Redis keeps its keys, a logged-out token has a blacklist entry     *)
(* until its exp.                                                           *)
BlacklistLasts ==
  restarts = 0 =>
    /\ \A j \in Jti : blackUntil[j] # 0 => iat[j] # Never /\ blackUntil[j] >= Exp(j)
    /\ \A j \in Jti, o \in Pod : <<j, o>> \in loggedOut =>
         iat[j] # Never /\ (blackUntil[j] # 0 \/ now >= Exp(j))
    /\ \A g \in Gate :
         /\ req[g].pc = "evict" => blackUntil[req[g].tok] # 0 \/ now >= Exp(req[g].tok)
         /\ req[g].pc = "exists" /\ req[g].gone # {} =>
              blackUntil[req[g].tok] # 0 \/ now >= Exp(req[g].tok)
         /\ req[g].pc \in {"get", "pass"} /\ req[g].gone # {} =>
              req[g].listed = 1 \/ req[g].at >= Exp(req[g].tok)
         /\ req[g].pc = "pass" => req[g].listed = 0

(* Revocations of the user do not overlap. *)
SequentialRevocation == \A v, w \in Revoker : v = w

(* A watermark at least t is in Redis, or no token up to t decodes any more. *)
Enforced(t) == mark.at >= t \/ now >= t + WatermarkTtl

WatermarkLasts ==
  SequentialRevocation /\ restarts = 0 =>
    /\ mark.at # Never => mark.until >= mark.at + WatermarkTtl
    /\ acked # Never => Enforced(acked)
    /\ \A v \in Revoker : Revoking(v) => rev[v].before >= mark.at /\ rev[v].before >= acked
    /\ \A v \in Revoker : rev[v].pc = "evict" => Enforced(rev[v].before)
    /\ \A g \in Gate : req[g].pc = "pass" => iat[req[g].tok] > req[g].since

GateInv ==
  /\ TypeOK /\ RequestShape /\ ClockOrder /\ TrailFirst /\ CacheNotYounger
  /\ BlacklistLasts /\ WatermarkLasts
=============================================================================
