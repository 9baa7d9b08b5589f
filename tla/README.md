# SecurePrompt in TLA+

SecurePrompt is a gateway between the clients of an organisation and LLM providers. A request is
authenticated, limited and charged to a budget, scanned for personal data (a deterministic detector and
an ML sidecar), judged by the workspace's rules and secure mode, redacted into placeholders, sent to a
chain of providers, restored on the way back and recorded in an analytics log. Around that path stand
the dashboard's sessions and two-factor authentication, the settings an administrator changes while
traffic runs, retention, the reports, an audit export that a worker signs, and a licence.

This directory models the parts of it where a test reaches little: handlers that interleave over
Postgres and Redis, caches that outlive what they cache, services that answer some calls and not others,
tasks whose worker stops, reads made of several queries. Each module is translated from the source;
`PROJECT.json` maps every definition to the lines it stands for. TLC checks small instances, TLAPS
proves the safety properties, every one that a run finds to hold, for every value of the constants.

## 1. Inventory

| Part | State | Operations | What is hard | What makes it correct |
|---|---|---|---|---|
| Refresh tokens (`db/refresh_token_repo.rs`, `session_repo.rs`, `session_revocation_repo.rs`, routes `auth.rs`, `users.rs`) | `refresh_tokens`, `session_revocation_audit`, row locks | login, rotate, replay detection, logout, revoke one session / all of a user | rotations race with each other and with bulk `UPDATE`s at READ COMMITTED; deadlocks; a task dropped before or after its commit | one working token per session, a linear chain, nothing closed is reopened |
| Session gate (`http/middleware/jwt_auth.rs`, `redis/mod.rs`) | jti blacklist and user watermark in Redis with TTLs, a per-pod `auth_cache`, the audit trail in Postgres | gate a request, logout, revoke sessions, degraded path when Redis is lost | verdicts from values read a moment earlier; TTLs against token lifetimes; Redis restarting empty; a cache that must not keep itself warm | a revoked token is never served, a logged-out one not before its exp; the fail-open window is bounded |
| Accounts and sign-in (`auth.rs`, `oidc.rs`, `users.rs`) | `users`, `workspaces`, the OIDC states in Redis, the login records | register, create a user in any role, password login, authorize and callback | two callbacks with one state; inserts from several workspaces that race for an address and fail half way | a session follows a record and a proof; no half account, and every account on record |
| Two-factor (`twofactor.rs`, `user_repo.rs`) | secret, confirmation, last timestep, failures, lock, backup codes, sessions | login, enroll, verify, challenge, disable | each handler decides on a row it read earlier; the revocation of a verify may fail and is ignored | a backup code works once and only with its own enrollment; failures lock; no password-only session outlives the revocation |
| API keys (`api_key_auth.rs`, `api_key_repo.rs`, `keys.rs`, worker `api_key_rotation.rs`) | `api_keys`, row locks, an in-process cache | create, rotate with grace, revoke, authenticate, sweep | a cached key outlives its revocation; a sweep under row-level security that sees nothing | a dead key stops within the cache's TTL; a sweep that says ok closed what was due |
| Rate limits and budgets (`rate_limit.rs`, `openai.rs`, `budget_repo.rs`) | buckets of instants; two Redis counters; the budget row | check, charge, settle | the edge of the window; a call dropped between charge and settlement; midnight | a window holds no more than its limit and one; what stays charged is what was used or reserved, once |
| Providers and model resolution (`provider_repo.rs`, `model_router.rs`, routes `providers.rs`) | credentials, `models`, the resolution cache | create, update, delete, sync, add a model, resolve | a resolution that began before a rotation fills the cache after it | a replaced credential is sent no longer than the cache allows |
| File scanning (`scan_file.rs`) | the record, the sidecar's task, the binding in Redis | scan, poll | answers, tasks and bindings that are lost; a sidecar that knows no workspace | no scan without its record, no result to another workspace |
| Pipeline (`pipeline/service.rs`, `policy/engine.rs`, `vault/redaction.rs`) | the outcome, vault and redaction map of one request; the event | detect, gate, evaluate, secure mode, fallback net, provider chain, restore, scrub, stream, audit | three stages rewrite one outcome; every sidecar call may have another coverage; the client leaves at any await | nothing that was found or denied reaches a provider against the workspace's choice; the client gets its own values back |
| Sidecar client (`ml_sidecar/client.rs`) | two relaxed atomics shared by every request | is_open, record_success, record_failure, chunked detection | unordered pairs of stores; partial coverage | the coverage reported is true; the breaker opens and closes |
| Analytics writer (`analytics/clickhouse_writer.rs`) | a bounded channel, six inserters, cached metadata, a gauge | try_send, insert, retry once, commit, probe | a table that changes under a warm cache; a batch that waits for the next event | the gauge comes to agree with the table; no row waits for good while requests arrive |
| Workspace settings (`secure_mode.rs` and its repositories) | three rows with their audit rows | PUT secure mode | three transactions of one request, each with a read before its write and a commit whose reply may be lost | no capture without an audit row that describes it and a request that asked for it |
| Policy rules (`policy_rules.rs`, `policy_repo.rs`, worker `index_policy_rule.rs`) | rules (one of them seeded), row locks, trail, index queue | create, update, toggle, delete, index | administrators overlapping on one rule | the trail replays to the rule |
| Licensing (`license/*`) | the snapshot, the sticky revocation, two epochs and their row | PUT, DELETE, re-verify, poll, gate | verdicts about a licence that is no longer in force; a clock turned back; restarts | only a successor lifts a revocation; offline time is not bought back |
| Retention (worker `retention_purge.rs`, `raw_capture_repo.rs`) | vault entries, captures, device context, audit rows | tokenize, capture, purge per workspace, scrub, census | one workspace failing; rows arriving meanwhile | a clean record means a clean store; the living are spared |
| Audit export (`routes/dashboard/audit_export.rs`, worker `tasks/audit_export.rs`, common `audit_export.rs`) | export row, pages and manifest, the Redis queue | create, enqueue, pop, read both stores, paginate, sign, persist, download, verify | lost replies, crashes between pop and persist, stores changing and expiring while they are read | what is downloaded verifies; a published export is complete; an accepted one ends |
| Data inventory (`data_inventory.rs`) | what three stores hold, class by class | count, classify, self-test, attest | the queries of one answer are far apart | a published line was true while the request ran |
| Dashboard reports (`requests.rs`, `leak_report.rs`, `request_hygiene.rs`) | raw tables, the catalogue | list, leak report | pages of a table that grows and expires; request ids that callers choose and repeat | every row once, nobody else's rows, totals that agree |
| Worker (`main.rs`) | queues, migrations, a dbt lock | drain, dispatch, migrate | check-then-insert; at-most-once queues | one dbt run at a time |

The parts interact through Postgres (shared rows, row locks), Redis (queues, watermarks, blacklist,
counters, bindings), ClickHouse (events) and in-process state shared by the requests of one pod
(`auth_cache`, `ConfigCache`, the rate limiter, the breaker, `LicenseState`). `PROJECT.json` lists every
component, the ones left out with the reason, and the hazards with their lines.

## 2. Modules

| Module | Models | Used by |
|---|---|---|
| `SessionFamily` | what a session promises: one token that renews it, until it is closed for good | refined by `RefreshTokens` |
| `RefreshTokens` | the table and its handlers, statement by statement | `MCRefreshTokens`, `RefreshTokensProofs` |
| `SessionGate` | `jwt_auth::require`, logout and revocation against Redis, cache and trail | `MCSessionGate`, `SessionGateProofs` |
| `SignIn` | registration, user creation, password and OIDC login up to the session | `MCAdmission`, `AdmissionProofs` |
| `TwoFactor` | the five handlers over one user's rows | `MCTwoFactor`, `RecordsProofs` |
| `ApiKeys` | keys, their cache, rotation and the worker's sweep | `MCAdmission`, `AdmissionProofs` |
| `RateLimit` | the sliding windows of keys and workspace | `MCAdmission`, `AdmissionProofs` |
| `Budget` | charge, gate, call and settlement on the two counters | `MCAdmission`, `AdmissionProofs` |
| `Providers` | credentials, models, the sync and the resolution cache | `MCAdmission`, `AdmissionProofs` |
| `FileScan` | the scanner's door: record, forward, bind, poll | `MCAdmission`, `AdmissionProofs` |
| `Redaction` | rule evaluation, redaction, transform and restore as operators on texts of atoms and the spans detected in them | `Pipeline` |
| `Pipeline` | one request through `prepare`, `execute` and `execute_stream` | `MCPipeline`, `PipelineProofs` |
| `SidecarBreaker` | the breaker's loads and stores and the calls behind it | `MCOutages`, `PipelineProofs` |
| `AnalyticsWriter` | the task behind `AnalyticsHandle`, the schema probe and the gauge | `MCOutages` |
| `License` | the licence in force, its polls, re-verification and freshness | `MCBackoffice`, `BackofficeProofs` |
| `Settings` | `PUT /v1/secure-mode` over three tables | `MCBackoffice`, `BackofficeProofs` |
| `PolicyRules` | the rules' handlers, locks, trail and index queue | `MCBackoffice`, `BackofficeProofs` |
| `Retention` | what is kept, and the nightly purge | `MCRecords`, `RecordsProofs` |
| `DataCatalogue`, `DataInventory` | the classes of stored data; the attestation over them | `MCRecords`, `RecordsProofs` |
| `Reports` | request pages and the leak report | `MCRecords`, `RecordsProofs` |
| `ExportChain` | pages, hash chain, manifest, signature and `verify_export` as operators | `ExportBundle`, `AuditExport` |
| `ExportBundle` | an export being changed file by file before it is verified | `MCAuditExport`, `ExportProofs` |
| `AuditExport` | the life of an export across API, queue, worker, stores and client | `MCAuditExport`, `ExportProofs` |
| `Sums` | the sum of a function over a finite set, as a recursive function | `Budget`, `Reports`, `ExportChain` |
| `SumTheorems` | what sums over finite sets obey, proved | `AdmissionProofs`, `RecordsProofs`, `ExportProofs` |

`MCAdmission` (what a request meets on its way in), `MCBackoffice` (what administrators change),
`MCRecords` (what is kept and shown) and `MCOutages` (what lives with a service going down) are suites.
Their components share no variable in the code at the level modelled here, so a product of them would
only multiply states: a behaviour moves one component, chosen at the start and named by `part`, while
the others stay in a state they start in. A suite extends its components, so that the runs check and the
theorems state the very same definitions. `MCAuditExport` does the same with the life of an export and
with a bundle on its way to an auditor. `AnalyticsWriter`, whose one property is a liveness property and
has no theorem, is instantiated in `MCOutages`.

### How state and actions correspond to the code

**RefreshTokens.** A row is an element of `Row`; `known`, `revoked`, `replacedBy` and `session` are its
columns. A handler is a program counter per request. Reads, statements and commits are separate actions.
The bulk `UPDATE` is Postgres' own algorithm at READ COMMITTED: it picks the rows of its snapshot
(`BulkScan`), visits each, waits for its lock and re-checks it (`BulkVisit`), and commits
(`BulkCommit`). `Fail` stops a handler at any point and rolls its transaction back; `DeadlockAbort` is
Postgres' detector, enabled only in a lock cycle. Those two, and the locks, are external and so marked.

**SessionGate.** `now` counts seconds; `blackUntil` and `mark` carry their expiry; `cache` and
`verified` are ages per pod. A request reads the blacklist, then the watermark, and applies the verdict
in a third step, each of which may fail over to the degraded path. A revocation reads its clock, commits
the trail, publishes the watermark, evicts. `Stall` is how long a request may wait for Redis:
`StallAssumption` keeps it below the leeway, which the code's Redis timeouts do. `RedisRestart` empties
Redis and counts in `restarts`. `gone`, `since`, `acked` and `loggedOut` are histories that no guard
reads.

**SignIn.** A request runs once, from await to await, and Postgres, Redis or the provider may fail it at
each. `user` is the table by address as it is stored; `Lower` is `trim().to_ascii_lowercase()` and is
applied where the code applies it, which is not everywhere. A request names the workspace and the state
that it creates. `CreateUser` is an owner or administrator of any workspace, the home one or a
registered one, and the new user gets any of the four roles, `owner` included; `CommitUser` inserts the
row and its trail entry. `decide_2fa` is the shared decision on the second factor.

**TwoFactor.** One user. A TOTP code is the pair of its secret and timestep, a backup code that of its
enrollment and number. A handler reads the user row once and carries what it decided; every write is one
action; `Abort` stops it before any of them. `Origins` says of a live session how it was opened: with
both factors, with the password alone, or with the password alone in one of the two ways that the code
lets it outlive the second factor: `late`, by a login that read the account before it was confirmed and
minted afterwards, and `spared`, by a revocation that failed (`RevokeFaults`) or was not reached.

**ApiKeys.** Instants are ages: of the row since it was rotated or died, of the cache entry since it was
filled, of a lookup since it read. `RotateKey` locks the row and decides, `RotateCommit` writes the
successor, the old row and the trail. The sweep enumerates the workspaces, closes one at a time
(`SweepOne`, or `SweepFails`) and reports in `SweepDone`.

**RateLimit.** A bucket is a sequence of ages from the oldest to the newest; trimming it drops its head.
As in the code, a bucket whose entries have all run out is dropped and the request that found it so
passes without being recorded, which is why the bound is one above the limit.

**Budget.** Every `INCRBY` has three ends: applied and answered, applied and its answer lost, not
applied. A request estimates, reads the budget row, charges the day and the month, is judged on the
counters after its own charge, calls, and settles the difference into the buckets of the day it settles
on, the buffered and the streamed path each in its own way. Without a budget row it is not charged, and
settles all the same. `calm` is a history: no Redis call failed, no budget changed under way, no pair of
calls was cut in two. So is `returned`: what requests that were charged on another day gave back to each
day's counter.

**Providers.** A credential is a version number; `retired` is how long it has not been the stored one. A
resolution's targets are a set; the order in which they are tried belongs to `Pipeline`. `UpdateRead`
and `UpdateWrite` are the unlocked merge of an update; a sync asks the upstream, reads what exists and
what is excluded, then writes model by model. `ResolveRead` and `ResolveFill` are the two halves of a
resolution around its await.

**FileScan.** One-shot requests as in `SignIn`. `task` is the sidecar's, `bound` the Redis key with a
TTL that `LoseBinding` ends early or late, `LoseTask` a sidecar that forgot.

**Redaction, Pipeline.** A text is a sequence of atoms: a value in the clear, a placeholder, a masked or
a cut value. A detection is a place in the text with the value that stands there, so that a value may be
detected at one place and not at another: `ApplyRedaction` replaces the places that were detected and no
others, and with `ApplyTransform` keeps the code's order (numbering from 1 in each call, the first place
of equal values decides). One step of `Pipeline` runs from an await to the next. With complete coverage
the sidecar finds every place of every value, with partial coverage any subset of the places, with none
nothing: the detectors themselves are external.

**SidecarBreaker.** Every load, store and `fetch_add` is a step. `open_since` is kept as an age up to
`OpenDuration`; the failure count stops one above the threshold, since the code only compares for
equality.

**AnalyticsWriter.** `channel` holds events as the set of side tables they write to; the consumer
receives, writes, retries once after a schema mismatch with a fresh look at the metadata, writes the
side tables and commits what is due. The startup probe runs beside it and reports late. `LayoutChanges`
is a migration or a roll-back, `Outage` ClickHouse going away and coming back.

**License.** `snap`, `revoked`, `last` and `highwater` are `LicenseState`; `stored` and `rows` its two
tables. A PUT verifies and commits, then applies; the hourly re-verification reads, applies and records;
a poll asks, is answered about the licence it asked for, and records. `clock` may be turned back, `real`
is the vendor's. `peak` and `newest` are histories.

**Settings.** One PUT is three transactions in the code's order: mode, policy, capture, each with its
audit row, each filling what the body leaves out from its own earlier read. `Committed` gives each
commit two ends, answered or with its reply lost: the second is a request that failed and a setting that
is stored and audited. `PutFails` stops it between any two.

**PolicyRules.** Update and toggle lock the row, read the old values and commit with the audit row;
create checks the priority first, in a statement of its own. A workspace may start with the rule that
registration seeds (`DefaultRule`), which has no audit row. An index task is pushed after the commit,
popped (the reply of `BLPOP` may be lost with the task) and executed.

**Retention.** Ages again. A run takes the clock once (`lag` is how far it lies back), purges the vault,
then per workspace reads the retention and deletes, then scrubs the device context of sessions that have
ended, chain by chain, and writes its records; `WorkerDies` ends it anywhere.

**DataInventory.** Of a row only its shape is kept: as its class promises, not so, or without payload.
Each query is a step and reads totals and shapes together, as its SQL does. `seen` is the history an
answer is judged against.

**Reports.** Served requests, the events, are given, each with the request id that its caller may have
chosen: ids repeat, within a second, with another model and in another workspace. What moves is which
raw tables already hold an event's rows (`Flush`, `Expire`) and which models are registered. A list
walks page by page with its cursor; rows of one second and id come in any order (`Pages`), and `cuts`
records where pages ended. The leak report is one query per step.

**ExportChain, ExportBundle, AuditExport.** A hash is the term it was taken of (SHA-256 is injective), a
signature the pair of key and bytes. `Outcomes` gives each write three ends: applied, refused, applied
with its reply lost; `Pop` has a lost reply of its own, which leaves the task with nobody. Time counts
half seconds because ClickHouse keeps whole ones.

## 3. Runs

Each run has a `.cfg` of its name (`tlc -config X.cfg MCModule`).

| Run | Instance | Shows |
|---|---|---|
| `refresh_safety` | 3 rows, 2 sessions, 2 handlers | one live row per session, bulk revocations close what they picked, refinement of `SessionFamily` (one chain, nothing closed reopens) |
| `refresh_liveness` | 2 rows, 2 sessions, 2 handlers | every request is answered, through lock cycles |
| `gate_safety` | 2 pods, 1 token of lifetime 2, leeway 1, cache TTL 2, 2 sequential revocations, 1 Redis restart | until Redis restarts, a revoked token is never served and a logged-out one not before its exp; also after it, the degraded path honours the trail and its window is bounded |
| `gate_watermark_race` | 1 pod, 2 overlapping revocations, no restart | *violated*: an older watermark overwrites a newer one |
| `twofa_race` | 2 handlers, 2 enrollments, threshold 2, revocations that may fail | backup codes are spent once; failures keep their lock; no password-only session stays but the late and the spared |
| `export` | 1 export, a worker with and one without a key, every fault, lost `BLPOP` replies included; bundles of up to 3 events and 2 actions, 2 edits | downloads verify, nothing is omitted, accepted ends; `verify_export` accepts exactly what was built |
| `pipeline` | 13 rule sets, 13 secure modes, 5 prompts; answers of up to 2 values, 3 kinds of request, a scanned file | who is sent what, span by span of what was detected, what is stored, what comes back |
| `pipeline_permissive` | the request side of it | *violated*: a downgraded deny sends the prompt as it came |
| `outages` | breaker: 2 requests, threshold 2, prompts of 2 chunks; writer: channel and batch of 2, one side table, any sequence of outages and layout changes | coverage is truthful; the breaker recovers, and a sidecar that is down opens it; the schema gauge follows the table and no row stays in a batch |
| `admission` | 2 keys in 2 workspaces; windows of 2 requests; 3 charged requests over 2 days; 1 provider with 2 credentials; 3 sign-in requests over 2 spellings of one address, in the home workspace and registered ones; 3 scan requests of 2 workspaces, 2 tasks | dead keys and replaced credentials stop in time; sweeps are complete; rates and reservations stay in bounds and the books close; logins are proven and accounts whole; scans stay in their workspace |
| `backoffice` | 2 licences, 1 clock rollback, 1 restart; 3 PUTs with 5 bodies, commits with lost replies; 2 rules, one of them seeded or not, 2 administrators | only a successor lifts a revocation, freshness is not free; capture is on record; the trail replays, from its seed where there is one |
| `records` | 2 workspaces with a vault entry, a capture and a session; 3 classes of the catalogue; 5 events of 2 workspaces under 3 request ids | clean purges, the living spared; attestations true; pages complete but for a cut between rows of one second and id; reports exact |

**Bounds.** Two handlers are enough for every pair of statements to interleave, and three rows for a
rotation, its successor and a second session or a second rotation; the proofs carry the safety results
to any number. The gate's clock reaches exp plus leeway of a token minted at its start; the watermark's
own TTL ends past it, and `RevocationHolds` covers that for every lifetime. Two enrollments let a code
outlive its own. Three events with pages of one row give empty, single and several pages in each
section. Prompts of three atoms hold two values of one class and one of another, which is what numbering
and spans can confuse; two targets exercise the retry; replies of two atoms let one segment change the
vault the next one is restored from. Threshold 2 separates a failure that opens the breaker from one
that does not. In the suites: ages run one past the longest interval they are compared with; two keys
are a key and its successor, two workspaces let one fail while the other is swept or purged; a window of
two lets requests pass, be refused and find a bucket run empty; three requests and two days let a charge
and its settlement fall on two days, let two requests compete for the last tokens and a third take what
one of yesterday gave back; two credentials are the old and the new; three sign-in requests are an
authorize and two callbacks, or two that race for an address and one that logs in; three scans are a
starter, a poller at home and one elsewhere; two licences are the revoked and its successor; three PUTs
switch capture on, switch it off and carry over what they read in between, and the theorem holds for any
number; five events give three of one second (the cursor's tie), two of them under one id with different
models, one of the second before and one of another workspace under the shared id. The classes of the
inventory are those with a rule of their own: sealed with payload or bare, sealed under a key that may
be the default, uncountable. Symmetry is used only where every property of the run is an invariant, or a
box over steps, and treats the elements alike.

`CONSTRAINT WhileCalm` in `admission` follows the budget up to its first state that is not calm: its two
properties speak of calm states only, and `calm` never comes back. The other parts are always calm.

`CHECK_DEADLOCK FALSE` stands where requests end or a bounded clock stops.

**Fairness.** `RefreshTokens!FairSpec`: weak fairness on each handler's steps (the runtime polls every
task that can run), strong fairness on taking a row lock (Postgres queues the waiters in order), weak
fairness on the deadlock detector. `Fail` has none. `AuditExport!Spec`: weak fairness on the handler
that has started and on each worker's loop; crashes and faults have none, and `AcceptedSettles` says
what they leave behind. `SidecarBreaker!Fairness`: traffic goes on, calls take their steps, a first
chunk that is sent again and again is answered or fails again and again (the HTTP client has a timeout),
and time passes. `AnalyticsWriter!Fairness`: weak fairness on the consumer's loop and on the probe, both
spawned tasks; arriving requests, outages and layout changes have none, and traffic is a hypothesis of
`WriterSettles`, because a batch is only ended by the event that follows it. `OutagesSpec` asks each
fairness of the part that moves.

## 4. Proofs

`RefreshTokensProofs` (any rows, sessions, users, requests). The properties are not inductive: that a
committed rotation leaves one live row needs to know that the row it closes is locked by it and live.
`IInv` adds `SessionKnown` (a row has a session exactly when committed), `LockProtectsLive` (a lock
protects a live row, for a rotation about to commit or a bulk update), `RotationInFlight` (what a
rotation carries), `NewIdsDistinct` and `VisitedHeld` (a bulk update has closed or holds what it
visited). One lemma per conjunct, one step per action. From it follow `TypeCorrect`, `AtMostOneLive`,
`ChainIsLinear`, `BulkRevocationComplete`, the action properties `ClosedForGood` and
`TokensAreUsedOnce`, and `Refinement`: every step is a step of `SessionFamily` or leaves its variables
alone. Assumption: the sentinels are not elements of the sets.

`SessionGateProofs` (any tokens, pods, requests, revocations, lifetimes, restarts). `GateInv` is
`TypeOK` with `RequestShape`, `ClockOrder` (no instant on record lies ahead of the clock), `TrailFirst`
(Redis and the answers follow the trail), `CacheNotYounger`, `BlacklistLasts` and `WatermarkLasts`. The
last holds the arithmetic: a watermark's TTL outlasts every token minted up to it, leeway and stall
included. Both, like the two properties they carry, speak of the time before Redis' first restart
(`restarts = 0`); `RestartsCount` shows that the count only grows, so that a step's past lies in that
time when its end does. `LogoutHolds` needs nothing else. `RevocationHolds` is proved where revocations
of a user do not overlap (`SequentialRevocation`); `gate_watermark_race` shows that this is needed.
`PostgresFirst`, `NarrowIsNarrow`, `DegradedHonoursRevocation` and `WindowIsBounded` hold across
restarts and overlaps.

`RecordsProofs`, second factor (any concurrent requests, backup codes, enrollments and failures).
`TypeCorrect`, `LockAlways` and `CodesAlwaysCurrent` are inductive once the types are known.
`BackupCodeSpentOnce` is not: `TwoFactorInv` adds `SpentOnce` (a backup code is unused, or with one
request, or has completed one), `NotBeforeIssue` (no code is in flight before its enrollment, so that an
enrollment issues fresh ones), `VerifyCarriesTotp` (a verify carries no backup code past its check) and
`OnlyDisableDisables`. The proof leans on `BackupConsume` asking again whether the code is unused.

`PasswordSessionsEnd` holds for any number of requests at once and with revocations that fail:
`PasswordInv` says that only a verify comes to the confirmation, and that a session opened on the
password meets a confirmed second factor only while some verify stands between its confirmation and its
revocation. The two kinds of session that do outlive it, late and spared, are named in `Origins` and
listed below.

`PipelineProofs`, breaker (any calls, chunks, thresholds, cool-downs). `CoverageTruthful` is a fact
about the single call, whatever the shared atomics say in between: a call that is about to send has a
chunk left (`WithinPrompt`), only chunks that were sent are covered (`CoveredWasSent`), and what it
reports is `Classify` of both (`Reported`).

`PipelineProofs`, request (any prompts, rules, secure modes, scanned files, provider answers and
targets). `PipelineInv` follows the request: what detection found and lost (`FoundInv`), which stages
have run (`OrderInv`), what the gates decided (`GateInv`, `DecisionInv`), what each rewriting of the
outcome left of the prompt (`OutcomeInv`), what the vault maps back (`VaultInv`) and what has been shown
of the reply (`AnswerInv`). The lemmas under it are about the operators of `Redaction`: two values that
one call numbers have two placeholders (`PlaceholdersDiffer`, from the first place of each, a least
element), at a detected place stands the value detected there (`DetectedAre`), redacting leaves nothing
to read at the places it is given and leaves the others alone (`RedactionHides`), so that nothing of a
prompt covered whole can be read (`WholeIsHidden`), a replaced value is in the vault under its own
placeholder (`VaultNames`, `RedactionSound`), restoring keeps every other atom in its place
(`RestoreIs`). From it follow `GatesHold`, `RefusalsHold`, `HidingHolds`, `StoringHolds` and
`ShowingHolds`. `PipelineAssumption` asks that configurations are well typed and that a value which the
provider invents is not one of the prompt.

`BackofficeProofs`. Licence: a poll, a re-verification or a boot takes in what was said earlier, so
`SignedOnly` carries the bound of `NoFreeFreshness` to the rows and to the answer under way; `ClockKept`
says that what was seen of the clock is in the high-water mark, and `PollerAsks` that the poller asks
only while nothing is revoked, from which `RevocationStands` follows. Settings: `CaptureIsOnRecord` is
inductive once it is known that the author of an audit row is past its write (`AuthorsOver`) and that a
PUT which is about to store capture as on asked for it itself or read it where a request that did is on
record (`DesiredIsAsked`). Rules: `TrailsReplay`, from a workspace with or without its seeded rule,
needs that whoever is between the read of the old values and the commit holds the row's lock, that a
toggle still knows what the row says (`HoldersInv`) and that a creation is alone with its rule
(`CreatorsInv`). Assumptions: the sentinels are none of the values, and epochs and budgets are natural
numbers.

`RecordsProofs`, what is kept. Retention: what was due when the run began stays due for its clock until
it is deleted, or its workspace is to come, or the run has a failure to report (`VaultInv`,
`CapturesInv`, `DeviceInv`); a chain that was over stays over (`ChainsInv`). The age of a row grows with
the run's lag, so that the difference is what is compared. From it follow `CleanRunsAreClean` and
`TheLivingAreSpared`. Inventory: what each query may still see is in `seen` (`InventoryInv`), so that
`AttestationIsTrue` holds of every line.

`RecordsProofs`, what is shown (any requests, detections, callers, windows, page sizes, catalogue and
changes of the tables). `ReaderInv` follows the one handler under way. For a list it is `Walked`: every
row that was there at the start and stayed is on a page already or comes after the cursor, and the
cursor is the last row so far. A page is the first rows of a set in the list's order, in which rows of
one second and id are equal: it holds every row that does not come after its last one, but for those on
the last one's place (`PageHolds`), and these are what the strict cursor leaves out. `ListIsComplete`
follows for every page size but 0. For a leak report it is `AnswersHold`: while the tables stand still,
what an earlier query answered is what it would answer now. `ReportAddsUp` is then about one state:
destinations, actors and classes are sums over the fibres of the same rows (`SumFibres`), ids once in
the totals, once per destination and once per actor, detections once, and folding what is not in the
catalogue into one line keeps its sum (`CollapseSums`). `ReportsAssumption`: finitely many events, at
whole seconds, with sequences of detections; ids may repeat.

`AdmissionProofs`. Keys: `KeysInv` says that a rotation under way holds the lock of an active row, that
what a lookup found, or the cache answers for, has been dead no longer than it is old, and that a key
due when a sweep began is closed, still to do, or the sweep has a failure to report. `RevokedKeysStop`
and `CleanSweeps` are action properties that follow from it; `KeysAssumption` asks that a lookup does
not stall longer than the grace, which is a day (migration 006) against seconds. Limits: `LimitsInv`
says that what a bucket let through in the window is what it still holds of it, or that and one request
that found the bucket run empty; that one is older than everything the bucket holds and so leaves the
window first. `RateIsBounded` follows for every limit but 0, with which the code lets every second
request pass (`LimitsAssumption`; the code's limits are 60 and 10). Catalogue: `CatalogueInv` says that
a stored credential is not retired and that what a resolution read, or an entry holds, has been retired
no longer than it is old; `RotatedCredentialsStop` follows. Accounts: `AccountsInv` says of each request
what it is about to do (`AccessOk`, `InsertOk`, `WorkspaceOk`), that a state is spent by one callback
(`SpentOk`), that a session is what its request opened as it ended (`SessionOk`), and that workspaces,
registrants and rules belong together and every other account to its row in the trail (`AccountOk`); the
assumption is that lower-casing maps addresses to addresses and that the sentinels are apart. Scans:
`ScanInv` says that a task was started by a recorded request and that a binding, and a poll that was let
through, name the workspace that started it.

`AdmissionProofs`, budget (any requests, estimates, limits, days and months; `BudgetAssumption`:
finitely many requests, and limits that are natural numbers or absent, as `upsert` demands).
`BooksClose` speaks of the moment when no request is under way; `BooksInv` says at every moment what
each counter holds, as a sum over what the requests have booked so far, by their stage (`BooksBalance`),
and that a request is charged only by the second of its two calls (`ChargeShape`); under a budget that
was set before the first request none passes the gate without a charge (`AllCharged`). One step moves
one summand and one counter by the same amount (`BookedTogether`). `ReservationsFit` needs more: a
request was judged on the counter as it stood after its own charge, and others have settled since.
`ReservedInv` says that the requests of a calm behaviour were judged by the budget in force
(`RowsCurrent`), that a day's counter, with what was returned to it, is never below what the requests in
flight hold of it and the settlements under way will take off (`CounterHolds`), and that of any requests
in flight one was charged last and what it saw covers them all (`LastCovers`), which is the limit once
it has passed the gate.

`ExportProofs`. Verification (`BundleSpec`: any rows, page sizes, formats and number of edits): hashes
are terms, so that an edited page breaks its digest, a reordered one the chain, a changed manifest the
signature; that `build_manifest` is accepted is arithmetic over the page numbers and sums
(`VerdictSound`). Life of an export (any exports, workers, windows, page sizes, caps and faults):
`ExportInv` has the types, `OwedRecorded` (what is owed was recorded before the request), `OneTask` (an
export is queued, or with one worker, or neither, and the worker that published it can only still fail),
`ReadInFull` (a worker has read all that is owed, as far as it has come, except what expired),
`StoredVerifies` (what is published verifies, and a row that says complete has something published) and
`ClientHolds` (the pages a client has fetched are those stored); `NothingOmitted` is inductive with
them. A row of the reads is on a page because page numbers round up (`PageOfRow`). From it follow
`ExportOmitsNothing` and `ExportDownloads`. `ExportAssumption` and `BundleAssumption`: the parameters
are natural numbers, and a page takes a row.

`SumTheorems`. The library's induction takes a predicate as a parameter, which the provers cannot
instantiate, and its sums are folds. `SumOver` is a recursive function on the subsets of a finite set,
and induction over finite sets is a least counterexample: a set of sets that is not empty has one of
least cardinality (`SmallestSet`), and removing an element from it leads to one that is smaller
(`OneLess`). From that follow that the recursion has one solution (`SolutionExists`, `SolutionsAgree`),
that the order of summation does not matter (`SumRemove`), and the rules that the other proofs cite:
`SumUnion`, `SumChange`, `SumRename`, `SumFibres`, `SumSubset`, and `Ranks` for a finite set in a total
order.

Proofs that failed have corrected the project twice. In `RateLimit` the alternatives of the verdict
overlapped, and TLC had taken the first, which is the code's order but not what the formula said. In
`Budget` the reservations of two requests fit a day's limit, and no invariant carried that to three: a
request of yesterday that settles today takes its correction off today's counter, and a third request
takes the place. The run now has the three requests, and the property the amount `returned`.

The type invariants of these modules, `LinearChain`, `ClosedStaysClosed`, `UsedOnce`, `RedisNeverAhead`,
`NarrowStaysNarrow` and `CodesAreCurrent` are proved and need no run of their own.

Only model-checked: liveness and everything that rests on fairness, which is out of the prover's reach:
`EveryRequestAnswered`, `AcceptedSettles`, `BreakerFollows`, `WriterSettles`. Every safety property that
the passing runs check has its theorem.

## 5. Where the code and its comments disagree

Two disagreements have a run (`findings` in `PROJECT.json`). The following are behaviours of the modules
too, or of the lines next to them, found while stating what a comment says.

### Known limits

- **Refresh.** A successor row that a rotation commits while the bulk `UPDATE` of a user-wide revocation
  waits for the old row's lock is not in the statement's snapshot and stays live (`users.rs:275`, "the
  session cannot renew past that one token's own expiry"). A row revoked between rotate's probe and its
  `UPDATE` is answered as a replay, which closes the user's other sessions (`refresh_token_repo.rs:73`,
  "401, and nothing else"). A rotation that commits between `find_live_session` and the narrow `UPDATE`
  mints an access token nobody blacklists (`users.rs:569`).
- **Gate.** After Redis restarts empty, a missing watermark reads as no revocation on the healthy path
  (`jwt_auth.rs:541`). The blacklist entry ends at exp, decoding allows 60 s more (`auth.rs:555`). A
  request in flight refills the cache that logout evicted (`auth.rs:578`).
- **Sign-in.** The seats of a licence are counted before the `INSERT`, so creations that overlap exceed
  them, and registration does not count them. `create_user` takes the role `owner` too (`users.rs:41`),
  so that a workspace may have several owners. Registration opens an owner's session with neither a
  login record nor an enrollment, against the comment that no session is issued without one.
  `create_user` keeps the address as written while login and registration lower-case it: such a user
  never passes a password login, and the address can be registered a second time. A record may say
  `session_issued` for a login whose session then failed.
- **Two-factor.** `confirm_totp`, `enroll_totp` and `record_totp_success` write without asking again
  what was read: a verify may confirm a secret enrolled meanwhile or none at all, an enroll may reset a
  confirmed account, and one timestep may be accepted twice, also after a backup code set it back
  (`user_repo.rs:302`, `:361`, `:434`). A login that read the account before it was confirmed opens its
  password session after the revocation, and a revocation that fails is only logged
  (`twofactor.rs:658`): both sessions stay.
- **API keys and rate limits.** The successor of a rotated key loses its assigned member. A bucket that
  has run empty lets one request pass unrecorded.
- **Budget.** The settlement of a request that began before midnight takes its correction off the new
  day's counter (`rate_limit.rs:287`), although the charge is on the old one: the counter is not the
  "monotonic counter" that "prevents a second wave of requests" (`rate_limit.rs:172`), may fall below
  zero, and the new day's limit can be exceeded by what was returned. `ReservationsFit` names the
  amount. Without a budget row nothing is charged (`rate_limit.rs:189`), but the settlement takes the
  estimate off all the same (`rate_limit.rs:276`), against `openai.rs:437`: a budget set later starts
  from counters that are short by the estimates served until then, and `BooksClose` speaks of a budget
  set before.
- **Providers.** `models` has no unique constraint: two additions of one name insert it twice. A sync
  can revive a model deleted after its reads (`providers.rs:627`). The unlocked merge of
  `update_provider` lets a rename revert a credential rotated meanwhile. `resolve_model_targets` does
  not look at `excluded`.
- **File scans.** A task whose answer or binding is lost runs on and nobody can poll it.
- **Export.** A worker that stops after `BLPOP` loses its task, and so does one whose reply to it is
  lost, which reads as an empty queue (worker `main.rs:337`); `AcceptedSettles` names both; an enqueue
  or a commit whose reply is lost is reported failed and happens (`audit_export.rs:352`, worker
  `audit_export.rs:1042`); rows that arrive between the count and the read exceed the cap; a window that
  starts or ends inside a second is cut to whole ones.
- **Pipeline.** Only detected spans are replaced (`redaction.rs:69`, `:143`), and the spans of a chunk
  that was not answered are unknown (`client.rs:282`): under `degrade_with_alert` a value found in one
  chunk is sent raw where a lost chunk repeats it. `FoundIsHidden` promises the spans then, and the
  values only when the coverage is whole. After a transform rule the safety net of the standard level
  cuts at spans of the original text (`service.rs:1984`). The audit's own detection call ignores its
  coverage (`service.rs:2183`). Numbering from 1 lets a prompt's placeholder take over a scanned file's,
  and a scrubbed segment's one of the prompt (`service.rs:1799`, `:1304`). A streamed completion is not
  scrubbed (`service.rs:1014`). Requests that fail on a read or in the provider chain are not counted
  (`service.rs:604`), and a degraded request that is denied stores a NULL prompt without `floor_only`
  (`service.rs:800`). The properties say precisely where the promise does hold.
- **Breaker.** A success between its two stores may close a breaker that the failures of others have
  just opened and leave the count at the threshold, which the comparison for equality never meets again
  (`client.rs:48`); `DownOpens` starts from the states without one.
- **Analytics writer.** A write error on an open batch followed by a successful retry loses the batch's
  earlier rows and counts a retry only.
- **Settings.** A PUT that fails at the capture step leaves the sidecar policy it loosened. Concurrent
  PUTs revert each other's fields that neither body names together (`secure_mode_repo.rs:223`); one that
  only sets the retention carries `enabled` over and can put back on what was switched off meanwhile. A
  commit whose reply is lost answers an error and stands (`raw_capture_repo.rs:268`). The "before" of a
  capture audit row is read without a lock and may not be the value overwritten
  (`raw_capture_repo.rs:205`), and the trail is ordered by the start of the transaction, not by its
  commit.
- **Policy rules.** The priority is checked before the insert, so two rules may share one. A deleted
  rule stays in the index; index tasks may be pushed out of the order of their commits, and are lost
  with a worker that stops after `BLPOP` or does not get its reply. The rule that registration seeds has
  no audit row (`workspace_repo.rs:332`), so that its trail says nothing of its creation.
- **Licence.** A verdict about the old licence that arrives after a PUT blocks the new one until it is
  put again. Other replicas keep their revocation. A detour through another licence lets a revoked token
  serve until the next poll. A re-verification that read its token before a PUT restores the old
  snapshot until the next hour.
- **Reports.** A request id is the caller's to choose (`request_hygiene.rs:81`, `service.rs:452`). Of
  rows with one second and id those behind the end of a page are on no page, because the cursor is
  strict (`requests.rs:306`). An id used with two models counts once in the totals and once for each of
  them, so that the destinations are no partition, against `leak_report.rs:785`. `limit=0` returns an
  empty page without a cursor. The default `from` moves with the clock between two pages. The sections
  of a leak report are separate statements and can disagree while rows arrive.

## 6. Not modelled

The deterministic detectors are not in the snapshot; the sidecar's models, the providers' wire formats,
KMS, Argon2 and the TLS stack are external and taken as what the code assumes of them.
`chat_debug_mode`, the sealing of captured bodies, pricing, embeddings' answers, the CSV and JSON
layouts, the charts over the marts with their fallbacks, the detail of one request, telemetry and the
metrics' rendering, the attestation's signature, the dashboard and the clients are left out: they do not
take part in the properties, or are rendering. The device context and the outbound URL guard are pure
parsing of single inputs. Row-level security is Postgres' own; where a scope is not armed shows as an
enumeration that sees nothing (`ApiKeys`, `Retention`). Overlapping spans and character boundaries are
below the atoms of `Redaction`. A large share of the remaining lines are the definitions of rows,
requests and responses, routing tables, tests inside the sources and documentation comments, which have
no state to model.

## 7. Plan

Modelled so far: everything in the table of section 2. Left, in this order:

1. `FileVault`: the stash of a scanned file's placeholders and its expiry, in front of `Pipeline`'s
   load.
2. `WorkerMain`: the drain loop, the ClickHouse migrations and the dbt lock, a count and a later insert.
3. Hold-back: `placeholder_safe_chunks`, `PlaceholderStreamer` and `settled_prefix_len` against a
   reference definition over bounded inputs.
4. The second read of `TwoFactor`'s challenge as a step of its own.

No safety property of a run is left without a theorem. What these four add should be written like the
rest: sums with `Sums`, orders with `Ranks`, so that they can be proved about.
