--------------------------- MODULE RecordsProofs ---------------------------
(***************************************************************************)
(* Proofs about what is kept and how it is attested: the nightly purge takes *)
(* what it reports as gone and spares what is in use, and a published line   *)
(* of the data inventory was true while the request was answered.  And about *)
(* a user's second factor, for any number of concurrent requests, backup     *)
(* codes, enrollments and failures.  And about what the dashboard reads of   *)
(* the traffic while it changes: the paged list and the leak report.          *)
(***************************************************************************)
EXTENDS Retention, DataInventory, TwoFactor, Reports, SumTheorems, FiniteSetTheorems, SequenceTheorems,
  TLAPS

(***************************************************************************)
(* The purge: the inductive invariant.                                      *)
(***************************************************************************)
Scopes == {"vault", "captures", "device"}

EntryRow == [home : Workspace, age : Nat]
SettingRow == [enabled : BOOLEAN, days : Days]
CaptureRow == [home : Workspace, pc : {"decided", "stored"}, age : Nat]
SessionRow == [home : Workspace, state : {"fresh", "rotated", "revoked", "expired"},
               device : BOOLEAN]
PurgeRun == [pc : {"idle", "vault", "captures", "device"}, lag : Nat, todo : SUBSET Workspace,
             home : Workspace \cup {None}, days : Days \cup {None}, bad : SUBSET Scopes,
             census : SUBSET Scopes, over : SUBSET Session,
             due : [vault : SUBSET Entry, captures : SUBSET Capture, device : SUBSET Session]]

RetentionTypes ==
  /\ vault \in [Entry -> EntryRow \cup {None}]
  /\ setting \in [Workspace -> SettingRow \cup {None}]
  /\ captured \in [Capture -> CaptureRow \cup {None}]
  /\ session \in [Session -> SessionRow \cup {None}]
  /\ purge \in PurgeRun
  /\ purge.lag <= MaxLag

(* What was expired when the run began is expired for its clock until it is deleted, and an ok
   for the vault means that it was. *)
VaultInv ==
  /\ purge.pc = "vault" =>
       /\ purge.census = {}
       /\ \A e \in purge.due.vault : ExpiredAtStart(e)
  /\ purge.pc \in {"captures", "device"} /\ "vault" \in purge.census =>
       \A e \in purge.due.vault : vault[e] = None

(* What the retention of its workspace, as it stands, makes due. *)
StillDue(c) ==
  /\ captured[c].pc = "stored"
  /\ setting[captured[c].home] # None
  /\ captured[c].age > setting[captured[c].home].days + purge.lag

(* The workspace is still to be asked, or is being purged with a retention that the capture
   has outlived. *)
StillReached(c) ==
  \/ captured[c].home \in purge.todo
  \/ captured[c].home = purge.home /\ captured[c].age > purge.days + purge.lag

CapturesInv ==
  /\ purge.home # None => purge.days \in Days
  /\ purge.pc # "idle" =>
       \A c \in purge.due.captures : captured[c] # None => StillDue(c)
  /\ purge.pc = "captures" /\ purge.bad = {} =>
       \A c \in purge.due.captures : captured[c] # None => StillReached(c)
  /\ purge.pc = "device" /\ purge.bad = {} =>
       \A c \in purge.due.captures : captured[c] = None

(* A chain that was over when the run began stays over. *)
ChainsInv ==
  /\ \A s \in Session :
       session[s] # None /\ session[s].state \in {"fresh", "rotated"} => session[s].device
  /\ \A s \in purge.over : session[s] # None /\ session[s].state = "expired"
  /\ purge.pc # "idle" => \A s \in purge.due.device : session[s] # None /\ Over(s)

DeviceInv ==
  /\ purge.pc \in {"vault", "captures"} => "device" \notin purge.census
  /\ purge.pc = "device" /\ "device" \in purge.census =>
       \A s \in purge.due.device : session[s].device => session[s].home \in purge.todo

RetentionInv == RetentionTypes /\ VaultInv /\ CapturesInv /\ ChainsInv /\ DeviceInv

(***************************************************************************)
(* The inventory: the inductive invariant.                                  *)
(***************************************************************************)
Rows == [Shape -> Nat]

(* What AttestationHolds asks of the line of one class. *)
LineTrue(c, line, states) ==
  /\ line.count # Nothing =>
       \E r \in states :
         /\ line.count = Total(r)
         /\ line.verdict \in {"ciphertext", "hashed"} => Protected(r)
         /\ line.verdict = "empty" => r["good"] + r["bad"] = 0
         /\ line.verdict = "plaintext" => Unprotected(r) /\ r["good"] = 0
         /\ c.rest \in {"sealed", "hashed"} /\ Unprotected(r)
              => line.verdict \in {"plaintext", "mixed"}
  /\ c = Captures /\ line.count = Nothing => line.verdict = "unknown"

InventoryInv ==
  /\ rows \in [Countable -> Rows]
  /\ DOMAIN request = {"pc", "todo", "read", "kms"}
  /\ request.pc \in {"idle", "postgres", "count"}
  /\ request.pc # "idle" =>
       /\ seen \in [Countable -> SUBSET Rows]
       /\ \A c \in Countable : rows[c] \in seen[c]
  /\ request.pc = "count" =>
       /\ request.todo \subseteq Countable
       /\ DOMAIN request.read = Countable \ request.todo
       /\ \A c \in DOMAIN request.read : LineTrue(c, request.read[c], seen[c])
  /\ AttestationHolds

(***************************************************************************)
(* Facts about the catalogue and one count.                                 *)
(***************************************************************************)
(* get_data_inventory: a class whose rows are counted is sealed, hashed or plaintext by design; the
   one that is declared "ciphertext" has no count. *)
LEMMA CountedClasses ==
  \A c \in Countable : c.rest \in {"sealed", "hashed", "plaintext_by_design"}
BY InventoryAssumption
   DEF Countable, Catalogue, Artifact, Plain, RequestEvents, Captures, ChTables, ChAggregates,
       DbtViews, DbtIntermediate, DbtMarts, TokenVault, Users, RefreshTokens, DeviceContext, ApiKeys,
       Providers, UserBackupCodes, PolicyRules, PurgeTrails, AdminTrails, Exports, Configuration,
       Budget, FileVault, RedisUncounted, OthersUncounted

(* ch_capture_shape, postgres_counts: what one query says of a class is true of the rows it saw. *)
LEMMA CountIsTrue ==
  ASSUME NEW c \in Countable, rows \in [Countable -> Rows], rows[c] \in seen[c]
  PROVE  LineTrue(c, Counted(c, ShapeCount(c)), seen[c])
<1>1. rows[c]["good"] \in Nat /\ rows[c]["bad"] \in Nat /\ rows[c]["bare"] \in Nat
  BY DEF Rows, Shape
<1> DEFINE g == rows[c]["good"]
           b == rows[c]["bad"]
           t == rows[c]["bare"]
           s == [total |-> g + b + t, payload |-> g + b, matching |-> g]
           v == AtRest(c, s)
<1>2. ShapeCount(c) = s /\ s.total = g + b + t /\ s.payload = g + b /\ s.matching = g
  BY DEF ShapeCount, Total
<1>3. Counted(c, ShapeCount(c)) = [count |-> g + b + t, verdict |-> v]
  BY <1>2 DEF Counted
<1>4. c.rest \in {"sealed", "hashed", "plaintext_by_design"}
  BY CountedClasses
<1>5. Users.rest = "hashed"
  BY DEF Users, Artifact
<1>6. /\ v \in {"ciphertext", "hashed"} => b = 0 /\ g > 0
      /\ v = "empty" => g + b = 0
      /\ v = "plaintext" => b > 0 /\ g = 0
      /\ c.rest \in {"sealed", "hashed"} /\ b > 0 => v \in {"plaintext", "mixed"}
  <2>1. CASE c = Users
    <3>1. v = UsersVerdict(s)
      BY <2>1, <1>5 DEF AtRest
    <3>2. v = IF g + b + t > 0 THEN "mixed" ELSE HashedVerdict(s)
      BY <3>1, <1>2 DEF UsersVerdict
    <3>3. CASE g + b + t > 0
      <4>1. v = "mixed"
        BY <3>2, <3>3
      <4> QED BY <4>1
    <3>4. CASE ~(g + b + t > 0)
      <4>1. g = 0 /\ b = 0
        BY <3>4, <1>1
      <4>2. v = "empty"
        BY <3>2, <3>4, <4>1, <1>2 DEF HashedVerdict, Verdict
      <4> QED BY <4>1, <4>2
    <3> QED BY <3>3, <3>4
  <2>2. CASE c # Users /\ c.rest = "sealed"
    <3>1. v = SealedVerdict(s)
      BY <2>2 DEF AtRest
    <3> QED BY <3>1, <1>1, <1>2, <2>2 DEF SealedVerdict, Verdict
  <2>3. CASE c # Users /\ c.rest = "hashed"
    <3>1. v = HashedVerdict(s)
      BY <2>3 DEF AtRest
    <3> QED BY <3>1, <1>1, <1>2, <2>3 DEF HashedVerdict, Verdict
  <2>4. CASE c # Users /\ c.rest = "plaintext_by_design"
    <3>1. v = "plaintext_by_design"
      BY <2>4 DEF AtRest
    <3> QED BY <3>1, <2>4
  <2> QED BY <1>4, <2>1, <2>2, <2>3, <2>4
<1>7. g + b + t \in Nat /\ g + b + t # Nothing
  BY <1>1, InventoryAssumption
<1> HIDE DEF v
<1> DEFINE line == [count |-> g + b + t, verdict |-> v]
<1>8. line.count = g + b + t /\ line.verdict = v
  OBVIOUS
<1> HIDE DEF line
<1>9. LineTrue(c, line, seen[c])
  BY <1>6, <1>7, <1>8 DEF LineTrue, Total, Protected, Unprotected
<1> QED BY <1>3, <1>9 DEF line

(* unavailable: a store that did not answer gives no number, and no verdict on the captures. *)
LEMMA GapIsTrue ==
  ASSUME NEW c, NEW states PROVE LineTrue(c, Unavailable(c), states)
BY DEF LineTrue, Unavailable

(***************************************************************************)
(* The inventory's invariant holds.                                         *)
(***************************************************************************)
(* With no answer published there is nothing to attest. *)
LEMMA NothingToAttest == ASSUME reply = NoReply PROVE AttestationHolds
<1>1. DOMAIN reply = {}
  BY DEF NoReply
<1> QED BY <1>1 DEF AttestationHolds

(* The inventory starts in its invariant. *)
LEMMA InventoryStart == InventoryInit => InventoryInv
<1> SUFFICES ASSUME InventoryInit PROVE InventoryInv
  OBVIOUS
<1>1. rows \in [Countable -> Rows]
  <2>1. {[s \in Shape |-> IF s \in some THEN 1 ELSE 0] : some \in SUBSET {"good", "bad"}}
          \subseteq Rows
    BY DEF Rows
  <2> QED BY <2>1 DEF InventoryInit
<1>2. request.pc = "idle" /\ DOMAIN request = {"pc", "todo", "read", "kms"}
  BY DEF InventoryInit, Idle
<1>3. reply = NoReply
  BY DEF InventoryInit
<1>4. AttestationHolds
  BY <1>3, NothingToAttest
<1> QED BY <1>1, <1>2, <1>4 DEF InventoryInv

(* get_data_inventory starts: what it will see begins with what is there. *)
LEMMA BeginStep == InventoryInv /\ Begin => InventoryInv'
<1> SUFFICES ASSUME InventoryInv, Begin PROVE InventoryInv'
  OBVIOUS
<1>1. rows' = rows /\ rows \in [Countable -> Rows]
  BY DEF InventoryInv, Begin
<1>2. request'.pc = "postgres" /\ DOMAIN request' = {"pc", "todo", "read", "kms"}
  BY DEF Begin, Idle
<1>3. seen' \in [Countable -> SUBSET Rows] /\ \A c \in Countable : rows'[c] \in seen'[c]
  BY <1>1 DEF Begin
<1>4. DOMAIN reply' = {}
  BY DEF Begin, NoReply
<1>5. AttestationHolds'
  BY <1>4 DEF AttestationHolds
<1> QED BY <1>1, <1>2, <1>3, <1>5 DEF InventoryInv

(* postgres_counts: every class of the Postgres half has a true line, or there is no inventory. *)
LEMMA PostgresStep == InventoryInv /\ PostgresCounts => InventoryInv'
<1> SUFFICES ASSUME InventoryInv, PostgresCounts PROVE InventoryInv'
  OBVIOUS
<1>1. rows' = rows /\ seen' = seen /\ reply' = reply /\ rows \in [Countable -> Rows]
  BY DEF PostgresCounts, InventoryInv
<1>2. AttestationHolds'
  BY <1>1 DEF AttestationHolds, InventoryInv
<1>3. CASE "postgres" \notin up
  <2>1. request'.pc = "idle" /\ DOMAIN request' = {"pc", "todo", "read", "kms"}
    BY <1>3 DEF PostgresCounts, Idle
  <2> QED BY <1>1, <1>2, <2>1 DEF InventoryInv
<1>4. CASE "postgres" \in up
  <2> DEFINE lines == [c \in {k \in Class : k.store = "postgres"} |-> Counted(c, ShapeCount(c))]
             left == {c \in Countable : c.store # "postgres"}
  <2>1. request' = [request EXCEPT !.pc = "count", !.todo = left, !.read = lines]
    BY <1>4 DEF PostgresCounts
  <2>2. DOMAIN lines = Countable \ left
    BY DEF Countable
  <2>3. \A c \in DOMAIN lines : lines[c] = Counted(c, ShapeCount(c))
    OBVIOUS
  <2> HIDE DEF lines, left
  <2>4. /\ request'.pc = "count" /\ request'.todo = left /\ request'.read = lines
        /\ DOMAIN request' = {"pc", "todo", "read", "kms"}
    BY <2>1 DEF InventoryInv
  <2>5. seen \in [Countable -> SUBSET Rows] /\ \A c \in Countable : rows[c] \in seen[c]
    BY DEF InventoryInv, PostgresCounts
  <2>6. ASSUME NEW c \in DOMAIN lines PROVE LineTrue(c, lines[c], seen[c])
    <3>1. LineTrue(c, Counted(c, ShapeCount(c)), seen[c])
      BY <1>1, <2>2, <2>5, CountIsTrue
    <3> QED BY <3>1, <2>3
  <2>7. left \subseteq Countable
    BY DEF left
  <2> QED BY <1>1, <1>2, <2>2, <2>4, <2>5, <2>6, <2>7 DEF InventoryInv
<1> QED BY <1>3, <1>4

(* ch_count, ch_capture_shape, live_budget_keys: one more class has a true line. *)
LEMMA CountOneStep == InventoryInv /\ CountOne => InventoryInv'
<1> SUFFICES ASSUME InventoryInv, CountOne PROVE InventoryInv'
  OBVIOUS
<1>1. rows' = rows /\ seen' = seen /\ reply' = reply /\ rows \in [Countable -> Rows]
  BY DEF CountOne, InventoryInv
<1>2. AttestationHolds'
  BY <1>1 DEF AttestationHolds, InventoryInv
<1>3. /\ request.pc = "count" /\ request.todo \subseteq Countable
      /\ DOMAIN request.read = Countable \ request.todo
      /\ \A k \in DOMAIN request.read : LineTrue(k, request.read[k], seen[k])
      /\ seen \in [Countable -> SUBSET Rows] /\ \A k \in Countable : rows[k] \in seen[k]
  BY DEF CountOne, InventoryInv
<1>4. PICK c \in request.todo :
        request' = [request EXCEPT
          !.todo = @ \ {c},
          !.read = [k \in DOMAIN @ \cup {c} |->
                      IF k # c THEN @[k]
                      ELSE IF c.store \in up THEN Counted(c, ShapeCount(c)) ELSE Unavailable(c)]]
  BY DEF CountOne
<1> DEFINE line == IF c.store \in up THEN Counted(c, ShapeCount(c)) ELSE Unavailable(c)
           lines == [k \in DOMAIN request.read \cup {c} |-> IF k # c THEN request.read[k] ELSE line]
<1>5. LineTrue(c, line, seen[c])
  BY <1>1, <1>3, CountIsTrue, GapIsTrue
<1>6. request' = [request EXCEPT !.todo = request.todo \ {c}, !.read = lines]
  BY <1>4 DEF InventoryInv
<1> HIDE DEF line
<1>7. DOMAIN lines = Countable \ (request.todo \ {c})
  BY <1>3
<1>8. \A k \in DOMAIN lines : LineTrue(k, lines[k], seen[k])
  BY <1>3, <1>5
<1> HIDE DEF lines
<1>9. /\ request'.pc = "count" /\ request'.todo = request.todo \ {c} /\ request'.read = lines
      /\ DOMAIN request' = {"pc", "todo", "read", "kms"}
  BY <1>3, <1>6 DEF InventoryInv
<1>10. \A k \in DOMAIN request'.read : LineTrue(k, request'.read[k], seen'[k])
  BY <1>1, <1>8, <1>9
<1> QED BY <1>1, <1>2, <1>3, <1>7, <1>9, <1>10 DEF InventoryInv

(* The response: the lines that were counted, and the classes that are only declared. *)
LEMMA InventoryRespondStep == InventoryInv /\ Respond => InventoryInv'
<1> SUFFICES ASSUME InventoryInv, Respond PROVE InventoryInv'
  OBVIOUS
<1>1. rows' = rows /\ seen' = seen /\ rows \in [Countable -> Rows]
  BY DEF Respond, InventoryInv
<1>2. request'.pc = "idle" /\ DOMAIN request' = {"pc", "todo", "read", "kms"}
  BY DEF Respond, Idle
<1>3. /\ DOMAIN request.read = Countable
      /\ \A c \in Countable : LineTrue(c, request.read[c], seen[c])
  BY DEF Respond, InventoryInv
<1>4. Captures.store = "clickhouse"
  BY DEF Captures, Artifact
<1>5. /\ DOMAIN reply' = Class
      /\ \A c \in Class :
           /\ reply'[c].line = IF c \in Countable THEN request.read[c] ELSE Declared(c)
           /\ reply'[c].test = SelfTest(c)
  BY DEF Respond
<1>6. ASSUME NEW c \in Class
      PROVE  /\ c \notin Countable => reply'[c].line.count = Nothing
             /\ LineTrue(c, reply'[c].line, seen[c])
             /\ c = Providers /\ ProviderKey # "set" => reply'[c].test = "failed"
  <2>1. CASE c \in Countable
    BY <2>1, <1>3, <1>5 DEF SelfTest, ProviderKeySelfTest
  <2>2. CASE c \notin Countable
    <3>1. c # Captures
      BY <2>2, <1>4 DEF Countable
    <3>2. reply'[c].line = Declared(c)
      BY <2>2, <1>5
    <3>3. reply'[c].line.count = Nothing
      BY <3>2 DEF Declared
    <3> QED BY <3>1, <3>3, <1>5 DEF LineTrue, SelfTest, ProviderKeySelfTest
  <2> QED BY <2>1, <2>2
<1>7. AttestationHolds'
  BY <1>1, <1>5, <1>6 DEF AttestationHolds, LineTrue
<1> QED BY <1>1, <1>2, <1>7 DEF InventoryInv

(* Rows that come and go while the request is answered leave its earlier lines true of an earlier
   state. *)
LEMMA HappensStep ==
  ASSUME NEW c \in Countable, NEW r \in Rows, InventoryInv, Happens(c, r)
  PROVE  InventoryInv'
<1>1. rows' = [rows EXCEPT ![c] = r] /\ request' = request
  BY DEF Happens
<1>2. rows' \in [Countable -> Rows]
  BY <1>1 DEF InventoryInv
<1>3. DOMAIN reply' = {}
  BY DEF Happens, NoReply
<1>4. AttestationHolds'
  BY <1>3 DEF AttestationHolds
<1>5. CASE request.pc = "idle"
  BY <1>1, <1>2, <1>4, <1>5 DEF InventoryInv
<1>6. CASE request.pc # "idle"
  <2>1. seen' = [seen EXCEPT ![c] = seen[c] \cup {r}]
    BY <1>6 DEF Happens
  <2>2. seen \in [Countable -> SUBSET Rows] /\ \A k \in Countable : rows[k] \in seen[k]
    BY <1>6 DEF InventoryInv
  <2>3. /\ seen' \in [Countable -> SUBSET Rows]
        /\ \A k \in Countable : rows'[k] \in seen'[k]
        /\ \A k \in Countable : seen[k] \subseteq seen'[k]
    BY <1>1, <2>1, <2>2 DEF InventoryInv
  <2>4. ASSUME request.pc = "count", NEW k \in DOMAIN request.read
        PROVE  LineTrue(k, request'.read[k], seen'[k])
    <3>1. LineTrue(k, request.read[k], seen[k]) /\ k \in Countable
      BY <2>4 DEF InventoryInv
    <3>2. seen[k] \subseteq seen'[k]
      BY <2>3, <3>1
    <3> QED BY <1>1, <3>1, <3>2 DEF LineTrue
  <2> QED BY <1>1, <1>2, <1>4, <2>3, <2>4 DEF InventoryInv
<1> QED BY <1>5, <1>6

(* The inventory's invariant, for any classes of the catalogue and any number of rows, changes and
   outages. *)
THEOREM InventoryInvariance == InventorySpec => []InventoryInv
<1>1. InventoryInv /\ InventoryNext => InventoryInv'
  <2> SUFFICES ASSUME InventoryInv, InventoryNext PROVE InventoryInv'
    OBVIOUS
  <2>1. CASE Written
    <3>1. PICK c \in Countable : \E s \in Shapes(c) \ {"bad"} :
            Happens(c, [rows[c] EXCEPT ![s] = @ + 1])
      BY <2>1 DEF Written
    <3>2. PICK s \in Shapes(c) : Happens(c, [rows[c] EXCEPT ![s] = @ + 1])
      BY <3>1
    <3>3. s \in Shape
      BY DEF Shapes, Shape
    <3>4. [rows[c] EXCEPT ![s] = @ + 1] \in Rows
      BY <3>3 DEF InventoryInv, Rows
    <3> QED BY <3>2, <3>4, HappensStep
  <2>2. CASE Removed
    <3>1. PICK c \in Countable : \E s \in Shapes(c) :
            rows[c][s] > 0 /\ Happens(c, [rows[c] EXCEPT ![s] = @ - 1])
      BY <2>2 DEF Removed
    <3>2. PICK s \in Shapes(c) : rows[c][s] > 0 /\ Happens(c, [rows[c] EXCEPT ![s] = @ - 1])
      BY <3>1
    <3>3. s \in Shape
      BY DEF Shapes, Shape
    <3>4. [rows[c] EXCEPT ![s] = @ - 1] \in Rows
      BY <3>2, <3>3 DEF InventoryInv, Rows
    <3> QED BY <3>2, <3>4, HappensStep
  <2>3. CASE StoreChanges \/ KmsChanges
    BY <2>3 DEF StoreChanges, KmsChanges, InventoryInv, AttestationHolds, LineTrue
  <2> QED BY <2>1, <2>2, <2>3, BeginStep, PostgresStep, CountOneStep, InventoryRespondStep
          DEF InventoryNext
<1>2. InventoryInv /\ UNCHANGED inventoryVars => InventoryInv'
  BY DEF inventoryVars, InventoryInv, AttestationHolds, LineTrue
<1> QED BY <1>1, <1>2, InventoryStart, PTL DEF InventorySpec

(* GET /v1/data-inventory: every published line was true while the request was answered, for any
   classes of the catalogue, whatever writers, expiry and outages do between its queries. *)
THEOREM AttestationIsTrue == InventorySpec => []AttestationHolds
BY InventoryInvariance, PTL DEF InventoryInv

(***************************************************************************)
(* The purge's invariant holds.                                             *)
(***************************************************************************)
(* Facts about the constants. *)
LEMMA LongestRetention == MaxDays \in Days /\ MaxDays \in Nat /\ \A d \in Days : d \in Nat /\ d <= MaxDays
BY RetentionAssumption DEF MaxDays

(* A row is not the absence of one, and a workspace is none. *)
LEMMA RowsAreRows ==
  /\ None \notin EntryRow /\ None \notin SettingRow /\ None \notin CaptureRow /\ None \notin SessionRow
  /\ None \notin Workspace /\ None # Workspace /\ VaultTtl \in Nat /\ MaxLag \in Nat
BY RetentionAssumption DEF EntryRow, SettingRow, CaptureRow, SessionRow

(* Nothing is kept and no run is in progress. *)
LEMMA IdleTypes == NoPurge \in PurgeRun /\ NoPurge.lag = 0 /\ NoPurge.pc = "idle" /\ NoPurge.over = {}
                   /\ NoPurge.home = None
BY DEF NoPurge, NoDue, PurgeRun

(* The stores and the purge start in their invariant. *)
LEMMA RetentionStart == RetentionInit => RetentionInv
<1> SUFFICES ASSUME RetentionInit PROVE RetentionInv
  OBVIOUS
<1>1. RetentionTypes
  BY IdleTypes, RowsAreRows DEF RetentionInit, RetentionTypes
<1>2. VaultInv /\ CapturesInv /\ ChainsInv /\ DeviceInv
  BY IdleTypes DEF RetentionInit, VaultInv, CapturesInv, ChainsInv, DeviceInv
<1> QED BY <1>1, <1>2 DEF RetentionInv

(* tokenize: a fresh id, so nothing that is due. *)
LEMMA TokenizeStep == RetentionInv /\ Tokenize => RetentionInv'
<1> SUFFICES ASSUME RetentionInv, Tokenize PROVE RetentionInv'
  OBVIOUS
<1>1. PICK e \in Entry, w \in Workspace :
        /\ vault[e] = None /\ e \notin purge.due.vault
        /\ vault' = [vault EXCEPT ![e] = [home |-> w, age |-> 0]]
        /\ UNCHANGED <<setting, captured, session, purge>>
  BY DEF Tokenize
<1>2. RetentionTypes'
  BY <1>1 DEF RetentionInv, RetentionTypes, EntryRow
<1>3. VaultInv'
  <2>1. \A f \in purge.due.vault : vault'[f] = vault[f]
    BY <1>1 DEF RetentionInv, RetentionTypes, PurgeRun
  <2> QED BY <1>1, <2>1 DEF RetentionInv, VaultInv, ExpiredAtStart
<1>4. CapturesInv' /\ ChainsInv' /\ DeviceInv'
  BY <1>1 DEF RetentionInv, CapturesInv, ChainsInv, DeviceInv, StillDue, StillReached, Over
<1> QED BY <1>2, <1>3, <1>4 DEF RetentionInv

(* PUT /v1/secure-mode: what stays due is past the new retention. *)
LEMMA SetCaptureStep == RetentionInv /\ SetCapture => RetentionInv'
<1> SUFFICES ASSUME RetentionInv, SetCapture PROVE RetentionInv'
  OBVIOUS
<1>1. PICK w \in Workspace, on \in BOOLEAN, d \in Days :
        /\ setting' = [setting EXCEPT ![w] = [enabled |-> on, days |-> d]]
        /\ purge' = [purge EXCEPT !.due.captures =
                   {c \in @ : captured[c] # None /\ captured[c].home = w => captured[c].age > d + purge.lag}]
        /\ UNCHANGED <<vault, captured, session>>
  BY DEF SetCapture
<1> DEFINE left == {c \in purge.due.captures :
                      captured[c] # None /\ captured[c].home = w => captured[c].age > d + purge.lag}
<1>2. /\ purge'.pc = purge.pc /\ purge'.lag = purge.lag /\ purge'.todo = purge.todo
      /\ purge'.home = purge.home /\ purge'.days = purge.days /\ purge'.bad = purge.bad
      /\ purge'.census = purge.census /\ purge'.over = purge.over
      /\ purge'.due.vault = purge.due.vault /\ purge'.due.device = purge.due.device
      /\ purge'.due.captures = left
  BY <1>1 DEF RetentionInv, RetentionTypes, PurgeRun
<1>3. RetentionTypes'
  <2>1. purge' \in PurgeRun
    BY <1>1 DEF RetentionInv, RetentionTypes, PurgeRun
  <2> QED BY <1>1, <1>2, <2>1 DEF RetentionInv, RetentionTypes, SettingRow
<1>4. VaultInv' /\ ChainsInv' /\ DeviceInv'
  BY <1>1, <1>2 DEF RetentionInv, VaultInv, ExpiredAtStart, ChainsInv, DeviceInv, Over
<1>5. ASSUME purge.pc # "idle", NEW c \in left, captured[c] # None PROVE StillDue(c)'
  <2>1. StillDue(c) /\ c \in Capture
    BY <1>5 DEF RetentionInv, CapturesInv, RetentionTypes, PurgeRun
  <2>2. captured[c].home \in Workspace
    BY <1>5, <2>1 DEF RetentionInv, RetentionTypes, CaptureRow
  <2>3. CASE captured[c].home = w
    <3>1. setting'[w] = [enabled |-> on, days |-> d] /\ setting'[w] \in SettingRow
      BY <1>1 DEF RetentionInv, RetentionTypes, SettingRow
    <3>2. setting'[w] # None /\ setting'[w].days = d
      BY <3>1, RowsAreRows
    <3> QED BY <1>1, <1>2, <1>5, <2>1, <2>3, <3>2 DEF StillDue
  <2>4. CASE captured[c].home # w
    BY <1>1, <1>2, <2>1, <2>2, <2>4 DEF StillDue, RetentionInv, RetentionTypes
  <2> QED BY <2>3, <2>4
<1>6. CapturesInv'
  BY <1>1, <1>2, <1>5 DEF RetentionInv, CapturesInv, StillReached
<1> QED BY <1>3, <1>4, <1>6 DEF RetentionInv

(* CaptureDecision: a fresh id. *)
LEMMA DecideStep == RetentionInv /\ Decide => RetentionInv'
<1> SUFFICES ASSUME RetentionInv, Decide PROVE RetentionInv'
  OBVIOUS
<1>1. PICK c \in Capture, w \in Workspace :
        /\ captured[c] = None /\ c \notin purge.due.captures
        /\ captured' = [captured EXCEPT ![c] = [home |-> w, pc |-> "decided", age |-> 0]]
        /\ UNCHANGED <<vault, setting, session, purge>>
  BY DEF Decide
<1>2. RetentionTypes'
  BY <1>1 DEF RetentionInv, RetentionTypes, CaptureRow
<1>3. CapturesInv'
  <2>1. \A k \in purge.due.captures : captured'[k] = captured[k]
    BY <1>1 DEF RetentionInv, RetentionTypes, PurgeRun
  <2> QED BY <1>1, <2>1 DEF RetentionInv, CapturesInv, StillDue, StillReached
<1>4. VaultInv' /\ ChainsInv' /\ DeviceInv'
  BY <1>1 DEF RetentionInv, VaultInv, ExpiredAtStart, ChainsInv, DeviceInv, Over
<1> QED BY <1>2, <1>3, <1>4 DEF RetentionInv

(* seal and the analytics writer: what is on its way is not yet due. *)
LEMMA StoreStep == RetentionInv /\ Store => RetentionInv'
<1> SUFFICES ASSUME RetentionInv, Store PROVE RetentionInv'
  OBVIOUS
<1>1. PICK c \in Capture, sealed \in BOOLEAN :
        /\ captured[c] # None
        /\ captured[c].pc = "decided"
        /\ captured' = [captured EXCEPT ![c] = IF sealed THEN [captured[c] EXCEPT !.pc = "stored"] ELSE None]
        /\ UNCHANGED <<vault, setting, session, purge>>
  BY DEF Store
<1>2. RetentionTypes'
  <2>1. captured[c] \in CaptureRow
    BY <1>1 DEF RetentionInv, RetentionTypes
  <2>2. [captured[c] EXCEPT !.pc = "stored"] \in CaptureRow
    BY <2>1 DEF CaptureRow
  <2> QED BY <1>1, <2>2 DEF RetentionInv, RetentionTypes
<1>3. CapturesInv'
  <2>1. CASE purge.pc = "idle"
    BY <1>1, <2>1 DEF RetentionInv, CapturesInv
  <2>2. CASE purge.pc # "idle"
    <3>1. \A k \in purge.due.captures : k # c
      BY <1>1, <2>2 DEF RetentionInv, CapturesInv, StillDue
    <3>2. \A k \in purge.due.captures : captured'[k] = captured[k]
      BY <1>1, <3>1 DEF RetentionInv, RetentionTypes, PurgeRun
    <3> QED BY <1>1, <3>2 DEF RetentionInv, CapturesInv, StillDue, StillReached
  <2> QED BY <2>1, <2>2
<1>4. VaultInv' /\ ChainsInv' /\ DeviceInv'
  BY <1>1 DEF RetentionInv, VaultInv, ExpiredAtStart, ChainsInv, DeviceInv, Over
<1> QED BY <1>2, <1>3, <1>4 DEF RetentionInv

(* A sign-in starts a chain with its device context. *)
LEMMA SignInStep == RetentionInv /\ SignIn => RetentionInv'
<1> SUFFICES ASSUME RetentionInv, SignIn PROVE RetentionInv'
  OBVIOUS
<1>1. PICK s \in Session, w \in Workspace :
        /\ session[s] = None
        /\ session' = [session EXCEPT ![s] = [home |-> w, state |-> "fresh", device |-> TRUE]]
        /\ UNCHANGED <<vault, setting, captured, purge>>
  BY DEF SignIn
<1>2. RetentionTypes'
  BY <1>1 DEF RetentionInv, RetentionTypes, SessionRow
<1>3. ChainsInv' /\ DeviceInv'
  <2>1. session'[s].device = TRUE /\ \A k \in Session : k # s => session'[k] = session[k]
    BY <1>1 DEF RetentionInv, RetentionTypes
  <2>2. \A k \in purge.over : session'[k] = session[k]
    BY <1>1 DEF RetentionInv, RetentionTypes, PurgeRun, ChainsInv
  <2>3. purge.pc # "idle" => \A k \in purge.due.device : session'[k] = session[k]
    BY <1>1 DEF RetentionInv, RetentionTypes, PurgeRun, ChainsInv
  <2>4. ChainsInv'
    BY <1>1, <2>1, <2>2, <2>3 DEF RetentionInv, ChainsInv, Over
  <2>5. DeviceInv'
    BY <1>1, <2>3 DEF RetentionInv, DeviceInv
  <2> QED BY <2>4, <2>5
<1>4. VaultInv' /\ CapturesInv'
  BY <1>1 DEF RetentionInv, VaultInv, ExpiredAtStart, CapturesInv, StillDue, StillReached
<1> QED BY <1>2, <1>3, <1>4 DEF RetentionInv

(* Rotation, logout and expiry move a live chain, and leave what is over alone. *)
LEMMA ChainStep ==
  ASSUME RetentionInv, NEW from, NEW to, ChainMoves(from, to),
         from \subseteq {"fresh", "rotated"}, to \in {"rotated", "revoked", "expired"}
  PROVE  RetentionInv'
<1>1. PICK s \in Session :
        /\ session[s] # None
        /\ session[s].state \in from
        /\ session' = [session EXCEPT ![s].state = to]
        /\ UNCHANGED <<vault, setting, captured, purge>>
  BY DEF ChainMoves
<1>2. session[s] \in SessionRow /\ session[s].device = TRUE
  BY <1>1 DEF RetentionInv, RetentionTypes, ChainsInv, SessionRow
<1>3. session' = [session EXCEPT ![s] = [session[s] EXCEPT !.state = to]]
  BY <1>1
<1> DEFINE row == [session[s] EXCEPT !.state = to]
<1>4. row \in SessionRow /\ row.device = TRUE /\ row.state = to
  BY <1>2 DEF SessionRow
<1> HIDE DEF row
<1>5. session'[s] = row /\ \A k \in Session : k # s => session'[k] = session[k]
  BY <1>3 DEF RetentionInv, RetentionTypes, row
<1>6. RetentionTypes'
  BY <1>1, <1>3, <1>4 DEF RetentionInv, RetentionTypes, row
<1>7. \A k \in purge.over : session'[k] = session[k]
  BY <1>1, <1>5 DEF RetentionInv, RetentionTypes, PurgeRun, ChainsInv
<1>8. purge.pc # "idle" => \A k \in purge.due.device : session'[k] = session[k]
  BY <1>1, <1>5 DEF RetentionInv, RetentionTypes, PurgeRun, ChainsInv, Over
<1>9. ChainsInv'
  BY <1>1, <1>4, <1>5, <1>7, <1>8 DEF RetentionInv, ChainsInv, Over
<1>10. DeviceInv'
  BY <1>1, <1>8 DEF RetentionInv, DeviceInv
<1>11. VaultInv' /\ CapturesInv'
  BY <1>1 DEF RetentionInv, VaultInv, ExpiredAtStart, CapturesInv, StillDue, StillReached
<1> QED BY <1>6, <1>9, <1>10, <1>11 DEF RetentionInv

(* run begins: what it has to remove is due by definition. *)
LEMMA RunPurgeStep == RetentionInv /\ RunPurge => RetentionInv'
<1> SUFFICES ASSUME RetentionInv, RunPurge PROVE RetentionInv'
  OBVIOUS
<1>1. UNCHANGED <<vault, setting, captured, session>>
  BY DEF RunPurge
<1> DEFINE ended == {s \in Session : session[s] # None /\ session[s].state = "expired"}
<1>2. /\ purge'.pc = "vault" /\ purge'.lag = 0 /\ purge'.home = None /\ purge'.census = {}
      /\ purge'.due = Due /\ purge'.over = ended
  BY DEF RunPurge, NoPurge
<1>3. Due \in [vault : SUBSET Entry, captures : SUBSET Capture, device : SUBSET Session]
  BY DEF Due
<1>4. RetentionTypes'
  <2>1. purge' = [NoPurge EXCEPT !.pc = "vault", !.due = Due, !.over = ended]
    BY DEF RunPurge
  <2>2. purge' \in PurgeRun
    BY <2>1, <1>3, IdleTypes DEF PurgeRun
  <2> QED BY <1>1, <1>2, <2>2, RowsAreRows DEF RetentionInv, RetentionTypes
<1>5. VaultInv'
  <2>1. \A e \in Due.vault : vault[e] # None /\ vault[e].age >= VaultTtl
    BY DEF Due
  <2>2. VaultTtl + 0 = VaultTtl
    BY RowsAreRows
  <2> QED BY <1>1, <1>2, <2>1, <2>2 DEF VaultInv, ExpiredAtStart
<1>6. CapturesInv'
  <2>1. ASSUME NEW c \in Due.captures PROVE StillDue(c)'
    <3>1. /\ c \in Capture /\ captured[c] # None /\ captured[c].pc = "stored"
          /\ setting[captured[c].home] # None
          /\ captured[c].age > setting[captured[c].home].days
      BY DEF Due
    <3>2. setting[captured[c].home].days \in Nat
      BY <3>1, LongestRetention DEF RetentionInv, RetentionTypes, CaptureRow, SettingRow
    <3>3. setting[captured[c].home].days + 0 = setting[captured[c].home].days
      BY <3>2
    <3> QED BY <1>1, <1>2, <3>1, <3>3 DEF StillDue
  <2> QED BY <1>2, <2>1 DEF CapturesInv
<1>7. ChainsInv'
  <2>1. \A s \in Due.device : /\ s \in Session /\ session[s] # None
                              /\ session[s].state = "revoked" \/ s \in ended
    BY DEF Due
  <2> QED BY <1>1, <1>2, <2>1 DEF RetentionInv, ChainsInv, Over
<1>8. DeviceInv'
  BY <1>2 DEF DeviceInv
<1> QED BY <1>4, <1>5, <1>6, <1>7, <1>8 DEF RetentionInv

(* enumerate_workspaces and census_record: every workspace, or an error. *)
LEMMA Census ==
  ASSUME NEW scope \in Scopes, NEW blind \in BOOLEAN
  PROVE  LET sweep == CensusRecord(scope, Enumerate(blind)) IN
         /\ blind => sweep.bad = {scope} /\ sweep.todo = {}
         /\ ~blind => sweep.bad = {} /\ sweep.todo = Workspace
BY RowsAreRows DEF CensusRecord, Enumerate

(* purge_token_vault: an ok is recorded only after the delete went through. *)
LEMMA PurgeTokenVaultStep == RetentionInv /\ PurgeTokenVault => RetentionInv'
<1> SUFFICES ASSUME RetentionInv, PurgeTokenVault PROVE RetentionInv'
  OBVIOUS
<1>1. PICK deleted, recounted, blind \in BOOLEAN :
        LET sweep == CensusRecord("captures", Enumerate(blind)) IN
        /\ vault' = IF deleted THEN [e \in Entry |-> IF ExpiredAtStart(e) THEN None ELSE vault[e]]
                    ELSE vault
        /\ purge' = [purge EXCEPT !.pc = "captures", !.todo = sweep.todo,
                       !.bad = (IF deleted /\ recounted THEN {} ELSE {"vault"}) \cup sweep.bad,
                       !.census = (IF deleted /\ recounted THEN {"vault"} ELSE {})
                                  \cup ({"captures"} \ sweep.bad)]
  BY DEF PurgeTokenVault
<1>2. purge.pc = "vault" /\ UNCHANGED <<setting, captured, session>>
  BY DEF PurgeTokenVault
<1> DEFINE sweep == CensusRecord("captures", Enumerate(blind))
           okay == deleted /\ recounted
           failed == (IF okay THEN {} ELSE {"vault"}) \cup sweep.bad
           said == (IF okay THEN {"vault"} ELSE {}) \cup ({"captures"} \ sweep.bad)
<1>3. /\ blind => sweep.bad = {"captures"} /\ sweep.todo = {}
      /\ ~blind => sweep.bad = {} /\ sweep.todo = Workspace
  BY Census DEF Scopes
<1> HIDE DEF sweep
<1>4. /\ failed \in SUBSET Scopes /\ said \in SUBSET Scopes
      /\ failed = {} => sweep.todo = Workspace
      /\ "vault" \in said => deleted
      /\ "device" \notin said /\ sweep.todo \in SUBSET Workspace
  BY <1>3 DEF Scopes
<1>5. purge' = [purge EXCEPT !.pc = "captures", !.todo = sweep.todo, !.bad = failed, !.census = said]
  BY <1>1 DEF sweep
<1> HIDE DEF failed, said
<1>6. /\ purge'.pc = "captures" /\ purge'.lag = purge.lag /\ purge'.todo = sweep.todo
      /\ purge'.home = purge.home /\ purge'.days = purge.days /\ purge'.bad = failed
      /\ purge'.census = said /\ purge'.over = purge.over /\ purge'.due = purge.due
  BY <1>5 DEF RetentionInv, RetentionTypes, PurgeRun
<1>7. RetentionTypes'
  <2>1. purge' \in PurgeRun
    BY <1>4, <1>5 DEF RetentionInv, RetentionTypes, PurgeRun
  <2>2. vault' \in [Entry -> EntryRow \cup {None}]
    BY <1>1 DEF RetentionInv, RetentionTypes
  <2> QED BY <1>2, <1>6, <2>1, <2>2 DEF RetentionInv, RetentionTypes
<1>8. VaultInv'
  <2>1. ASSUME "vault" \in said, NEW e \in purge.due.vault PROVE vault'[e] = None
    <3>1. e \in Entry /\ ExpiredAtStart(e)
      BY <1>2 DEF RetentionInv, RetentionTypes, PurgeRun, VaultInv
    <3>2. vault' = [k \in Entry |-> IF ExpiredAtStart(k) THEN None ELSE vault[k]]
      BY <1>1, <1>4, <2>1
    <3> QED BY <3>1, <3>2
  <2> QED BY <1>6, <2>1 DEF VaultInv
<1>9. CapturesInv'
  <2>1. ASSUME NEW c \in purge.due.captures, captured[c] # None
        PROVE  StillDue(c) /\ captured[c].home \in Workspace
    BY <1>2, <2>1 DEF RetentionInv, RetentionTypes, PurgeRun, CaptureRow, CapturesInv
  <2>2. ASSUME NEW c \in purge.due.captures, captured[c] # None PROVE StillDue(c)'
    BY <1>2, <1>6, <2>1, <2>2 DEF StillDue
  <2>3. ASSUME failed = {}, NEW c \in purge.due.captures, captured[c] # None PROVE StillReached(c)'
    BY <1>2, <1>4, <1>6, <2>1, <2>3 DEF StillReached
  <2> QED BY <1>2, <1>6, <2>2, <2>3 DEF RetentionInv, CapturesInv
<1>10. ChainsInv'
  BY <1>2, <1>6 DEF RetentionInv, ChainsInv, Over
<1>11. DeviceInv'
  BY <1>4, <1>6 DEF DeviceInv
<1> QED BY <1>7, <1>8, <1>9, <1>10, <1>11 DEF RetentionInv

(* read_capture_retention: a workspace that cannot be read is an error, and one that has
   something due has a retention. *)
LEMMA ReadRetentionStep == RetentionInv /\ ReadRetention => RetentionInv'
<1> SUFFICES ASSUME RetentionInv, ReadRetention PROVE RetentionInv'
  OBVIOUS
<1>1. PICK w \in purge.todo, readable \in BOOLEAN :
        LET settled == ~readable \/ setting[w] = None IN
        purge' = [purge EXCEPT !.todo = @ \ {w},
                    !.home = IF settled THEN None ELSE w,
                    !.days = IF settled THEN None ELSE setting[w].days,
                    !.bad = IF readable THEN @ ELSE @ \cup {"captures"},
                    !.census = IF readable THEN @ ELSE @ \ {"captures"}]
  BY DEF ReadRetention
<1>2. /\ purge.pc = "captures" /\ purge.home = None
      /\ UNCHANGED <<vault, setting, captured, session>>
  BY DEF ReadRetention
<1> DEFINE settled == ~readable \/ setting[w] = None
           h == IF settled THEN None ELSE w
           d == IF settled THEN None ELSE setting[w].days
           failed == IF readable THEN purge.bad ELSE purge.bad \cup {"captures"}
           said == IF readable THEN purge.census ELSE purge.census \ {"captures"}
<1>3. w \in Workspace /\ (~settled => setting[w].days \in Days)
  BY DEF RetentionInv, RetentionTypes, PurgeRun, SettingRow
<1>4. /\ h \in Workspace \cup {None} /\ d \in Days \cup {None} /\ (h # None => d \in Days)
      /\ failed \in SUBSET Scopes /\ said \in SUBSET Scopes
      /\ said \subseteq purge.census /\ (failed = {} => readable /\ purge.bad = {})
  BY <1>3 DEF RetentionInv, RetentionTypes, PurgeRun, Scopes
<1>5. purge' = [purge EXCEPT !.todo = purge.todo \ {w}, !.home = h, !.days = d, !.bad = failed,
                  !.census = said]
  BY <1>1
<1> HIDE DEF h, d, failed, said
<1>6. /\ purge'.pc = "captures" /\ purge'.lag = purge.lag /\ purge'.todo = purge.todo \ {w}
      /\ purge'.home = h /\ purge'.days = d /\ purge'.bad = failed
      /\ purge'.census = said /\ purge'.over = purge.over /\ purge'.due = purge.due
  BY <1>2, <1>5 DEF RetentionInv, RetentionTypes, PurgeRun
<1>7. RetentionTypes'
  <2>1. purge' \in PurgeRun
    BY <1>4, <1>5 DEF RetentionInv, RetentionTypes, PurgeRun
  <2> QED BY <1>2, <1>6, <2>1 DEF RetentionInv, RetentionTypes
<1>8. VaultInv'
  BY <1>2, <1>4, <1>6 DEF RetentionInv, VaultInv
<1>9. CapturesInv'
  <2>1. ASSUME NEW c \in purge.due.captures, captured[c] # None
        PROVE  StillDue(c) /\ captured[c].home \in Workspace
    BY <1>2, <2>1 DEF RetentionInv, RetentionTypes, PurgeRun, CaptureRow, CapturesInv
  <2>2. ASSUME NEW c \in purge.due.captures, captured[c] # None PROVE StillDue(c)'
    BY <1>2, <1>6, <2>1, <2>2 DEF StillDue
  <2>3. ASSUME failed = {}, NEW c \in purge.due.captures, captured[c] # None PROVE StillReached(c)'
    <3>1. captured[c].home \in purge.todo
      BY <1>2, <1>4, <2>1, <2>3, RowsAreRows DEF RetentionInv, CapturesInv, StillReached
    <3>2. CASE captured[c].home = w
      <4>1. ~settled
        BY <1>4, <2>1, <2>3, <3>2 DEF StillDue
      <4>2. h = w /\ d = setting[w].days
        BY <4>1 DEF h, d
      <4>3. captured[c].age > setting[w].days + purge.lag
        BY <2>1, <2>3, <3>2 DEF StillDue
      <4>4. captured' = captured /\ purge'.home = w /\ purge'.days + purge'.lag = setting[w].days + purge.lag
        BY <1>2, <1>6, <4>2
      <4> QED BY <3>2, <4>3, <4>4 DEF StillReached
    <3>3. CASE captured[c].home # w
      BY <1>2, <1>6, <3>1, <3>3 DEF StillReached
    <3> QED BY <3>2, <3>3
  <2> QED BY <1>2, <1>4, <1>6, <2>2, <2>3 DEF RetentionInv, CapturesInv
<1>10. ChainsInv'
  BY <1>2, <1>6 DEF RetentionInv, ChainsInv, Over
<1>11. DeviceInv'
  BY <1>2, <1>4, <1>6 DEF RetentionInv, DeviceInv
<1> QED BY <1>7, <1>8, <1>9, <1>10, <1>11 DEF RetentionInv

(* purge_one_workspace_captures: what is due there is past the cutoff of the retention read. *)
LEMMA PurgeOneWorkspaceStep == RetentionInv /\ PurgeOneWorkspace => RetentionInv'
<1> SUFFICES ASSUME RetentionInv, PurgeOneWorkspace PROVE RetentionInv'
  OBVIOUS
<1>1. PICK found, deleted, again \in BOOLEAN :
        /\ captured' = IF found /\ deleted
                       THEN [c \in Capture |-> IF PastCutoff(c) THEN None ELSE captured[c]]
                       ELSE captured
        /\ purge' = [purge EXCEPT !.home = None, !.days = None,
                       !.bad = IF found /\ deleted /\ again THEN @ ELSE @ \cup {"captures"}]
  BY DEF PurgeOneWorkspace
<1>2. /\ purge.pc = "captures" /\ purge.home # None
      /\ UNCHANGED <<vault, setting, session>>
  BY DEF PurgeOneWorkspace
<1> DEFINE okay == found /\ deleted /\ again
           failed == IF okay THEN purge.bad ELSE purge.bad \cup {"captures"}
<1>3. failed \in SUBSET Scopes /\ (failed = {} => okay /\ purge.bad = {})
  BY DEF RetentionInv, RetentionTypes, PurgeRun, Scopes
<1>4. purge' = [purge EXCEPT !.home = None, !.days = None, !.bad = failed]
  BY <1>1
<1> HIDE DEF failed
<1>5. /\ purge'.pc = "captures" /\ purge'.lag = purge.lag /\ purge'.todo = purge.todo
      /\ purge'.home = None /\ purge'.bad = failed
      /\ purge'.census = purge.census /\ purge'.over = purge.over /\ purge'.due = purge.due
  BY <1>2, <1>4 DEF RetentionInv, RetentionTypes, PurgeRun
<1>6. \A c \in Capture : captured'[c] = captured[c] \/ captured'[c] = None
  BY <1>1 DEF RetentionInv, RetentionTypes
<1>7. RetentionTypes'
  <2>1. purge' \in PurgeRun
    BY <1>3, <1>4 DEF RetentionInv, RetentionTypes, PurgeRun
  <2>2. captured' \in [Capture -> CaptureRow \cup {None}]
    BY <1>1 DEF RetentionInv, RetentionTypes
  <2> QED BY <1>2, <1>5, <2>1, <2>2 DEF RetentionInv, RetentionTypes
<1>8. VaultInv'
  BY <1>2, <1>5 DEF RetentionInv, VaultInv
<1>9. CapturesInv'
  <2>1. ASSUME NEW c \in purge.due.captures, captured'[c] # None
        PROVE  captured'[c] = captured[c] /\ c \in Capture /\ StillDue(c)
    BY <1>2, <1>6, <2>1 DEF RetentionInv, RetentionTypes, PurgeRun, CapturesInv
  <2>2. ASSUME NEW c \in purge.due.captures, captured'[c] # None PROVE StillDue(c)'
    BY <1>2, <1>5, <2>1, <2>2 DEF StillDue
  <2>3. ASSUME failed = {}, NEW c \in purge.due.captures, captured'[c] # None
        PROVE  StillReached(c)'
    <3>1. StillReached(c)
      BY <1>2, <1>3, <2>1, <2>3 DEF RetentionInv, CapturesInv
    <3>2. ~PastCutoff(c)
      BY <1>1, <1>3, <2>1, <2>3
    <3>3. captured[c].home \in purge.todo
      BY <2>1, <2>3, <3>1, <3>2 DEF StillReached, PastCutoff, StillDue
    <3> QED BY <1>5, <2>1, <2>3, <3>3 DEF StillReached
  <2> QED BY <1>5, <2>2, <2>3 DEF CapturesInv
<1>10. ChainsInv'
  BY <1>2, <1>5 DEF RetentionInv, ChainsInv, Over
<1>11. DeviceInv'
  BY <1>2, <1>5 DEF RetentionInv, DeviceInv
<1> QED BY <1>7, <1>8, <1>9, <1>10, <1>11 DEF RetentionInv

(* purge_content_captures ends with nothing left to ask: with no error, nothing due is left. *)
LEMMA CapturesDoneStep == RetentionInv /\ CapturesDone => RetentionInv'
<1> SUFFICES ASSUME RetentionInv, CapturesDone PROVE RetentionInv'
  OBVIOUS
<1>1. PICK blind \in BOOLEAN :
        LET sweep == CensusRecord("device", Enumerate(blind)) IN
        purge' = [purge EXCEPT !.pc = "device", !.todo = sweep.todo, !.bad = @ \cup sweep.bad,
                               !.census = @ \cup ({"device"} \ sweep.bad)]
  BY DEF CapturesDone
<1>2. /\ purge.pc = "captures" /\ purge.home = None /\ purge.todo = {}
      /\ UNCHANGED <<vault, setting, captured, session>>
  BY DEF CapturesDone
<1> DEFINE sweep == CensusRecord("device", Enumerate(blind))
           failed == purge.bad \cup sweep.bad
           said == purge.census \cup ({"device"} \ sweep.bad)
<1>3. /\ blind => sweep.bad = {"device"} /\ sweep.todo = {}
      /\ ~blind => sweep.bad = {} /\ sweep.todo = Workspace
  BY Census DEF Scopes
<1> HIDE DEF sweep
<1>4. "device" \notin purge.census
  BY <1>2 DEF RetentionInv, DeviceInv
<1>5. /\ failed \in SUBSET Scopes /\ said \in SUBSET Scopes /\ sweep.todo \in SUBSET Workspace
      /\ failed = {} => purge.bad = {}
      /\ "vault" \in said => "vault" \in purge.census
      /\ "device" \in said => sweep.todo = Workspace
  BY <1>3, <1>4 DEF RetentionInv, RetentionTypes, PurgeRun, Scopes
<1>6. purge' = [purge EXCEPT !.pc = "device", !.todo = sweep.todo, !.bad = failed, !.census = said]
  BY <1>1 DEF sweep
<1> HIDE DEF failed, said
<1>7. /\ purge'.pc = "device" /\ purge'.lag = purge.lag /\ purge'.todo = sweep.todo
      /\ purge'.home = purge.home /\ purge'.days = purge.days /\ purge'.bad = failed
      /\ purge'.census = said /\ purge'.over = purge.over /\ purge'.due = purge.due
  BY <1>6 DEF RetentionInv, RetentionTypes, PurgeRun
<1>8. RetentionTypes'
  <2>1. purge' \in PurgeRun
    BY <1>5, <1>6 DEF RetentionInv, RetentionTypes, PurgeRun
  <2> QED BY <1>2, <1>7, <2>1 DEF RetentionInv, RetentionTypes
<1>9. VaultInv'
  BY <1>2, <1>5, <1>7 DEF RetentionInv, VaultInv
<1>10. CapturesInv'
  <2>1. ASSUME NEW c \in purge.due.captures, captured[c] # None
        PROVE  StillDue(c) /\ captured[c].home \in Workspace
    BY <1>2, <2>1 DEF RetentionInv, RetentionTypes, PurgeRun, CaptureRow, CapturesInv
  <2>2. ASSUME NEW c \in purge.due.captures, captured[c] # None PROVE StillDue(c)'
    BY <1>2, <1>7, <2>1, <2>2 DEF StillDue
  <2>3. ASSUME failed = {}, NEW c \in purge.due.captures PROVE captured[c] = None
    <3>1. captured[c] # None => StillReached(c)
      BY <1>2, <1>5, <2>3 DEF RetentionInv, CapturesInv
    <3>2. captured[c] # None => captured[c].home \in Workspace
      BY <2>1
    <3> QED BY <1>2, <3>1, <3>2, RowsAreRows DEF StillReached
  <2> QED BY <1>2, <1>7, <2>2, <2>3 DEF CapturesInv
<1>11. ChainsInv'
  BY <1>2, <1>7 DEF RetentionInv, ChainsInv, Over
<1>12. DeviceInv'
  <2>1. \A s \in purge.due.device : session[s].home \in Workspace
    BY <1>2 DEF RetentionInv, RetentionTypes, PurgeRun, SessionRow, ChainsInv
  <2> QED BY <1>2, <1>5, <1>7, <2>1 DEF DeviceInv
<1> QED BY <1>8, <1>9, <1>10, <1>11, <1>12 DEF RetentionInv

(* scrub_one_workspace_device_context: only chains that are over lose their context, and an ok
   stands only if every one of the workspace did. *)
LEMMA ScrubStep == RetentionInv /\ ScrubOneWorkspace => RetentionInv'
<1> SUFFICES ASSUME RetentionInv, ScrubOneWorkspace PROVE RetentionInv'
  OBVIOUS
<1>1. PICK w \in purge.todo, erased, recounted \in BOOLEAN :
        /\ session' = [s \in Session |->
                         IF erased /\ session[s] # None /\ session[s].home = w /\ Over(s)
                         THEN [session[s] EXCEPT !.device = FALSE] ELSE session[s]]
        /\ purge' = [purge EXCEPT !.todo = @ \ {w},
                       !.bad = IF erased /\ recounted THEN @ ELSE @ \cup {"device"},
                       !.census = IF erased /\ recounted THEN @ ELSE @ \ {"device"}]
  BY DEF ScrubOneWorkspace
<1>2. purge.pc = "device" /\ UNCHANGED <<vault, setting, captured>>
  BY DEF ScrubOneWorkspace
<1> DEFINE okay == erased /\ recounted
           failed == IF okay THEN purge.bad ELSE purge.bad \cup {"device"}
           said == IF okay THEN purge.census ELSE purge.census \ {"device"}
<1>3. /\ failed \in SUBSET Scopes /\ said \in SUBSET Scopes /\ said \subseteq purge.census
      /\ failed = {} => purge.bad = {}
      /\ "device" \in said => erased
  BY DEF RetentionInv, RetentionTypes, PurgeRun, Scopes
<1>4. purge' = [purge EXCEPT !.todo = purge.todo \ {w}, !.bad = failed, !.census = said]
  BY <1>1
<1> HIDE DEF failed, said
<1>5. /\ purge'.pc = "device" /\ purge'.lag = purge.lag /\ purge'.todo = purge.todo \ {w}
      /\ purge'.home = purge.home /\ purge'.days = purge.days /\ purge'.bad = failed
      /\ purge'.census = said /\ purge'.over = purge.over /\ purge'.due = purge.due
  BY <1>2, <1>4 DEF RetentionInv, RetentionTypes, PurgeRun
<1>6. ASSUME NEW s \in Session
      PROVE  \/ /\ session[s] # None /\ Over(s) /\ session[s].home = w /\ erased
                /\ session[s] \in SessionRow /\ session'[s] \in SessionRow
                /\ session'[s].home = session[s].home /\ session'[s].state = session[s].state
                /\ session'[s].device = FALSE
             \/ /\ session'[s] = session[s]
                /\ ~(erased /\ session[s] # None /\ session[s].home = w /\ Over(s))
  BY <1>1 DEF RetentionInv, RetentionTypes, SessionRow
<1>7. RetentionTypes'
  <2>1. purge' \in PurgeRun
    BY <1>3, <1>4 DEF RetentionInv, RetentionTypes, PurgeRun
  <2>2. session' \in [Session -> SessionRow \cup {None}]
    <3>1. \A s \in Session : session'[s] \in SessionRow \cup {None}
      BY <1>6 DEF RetentionInv, RetentionTypes
    <3> QED BY <1>1, <3>1
  <2> QED BY <1>2, <1>5, <2>1, <2>2 DEF RetentionInv, RetentionTypes
<1>8. VaultInv'
  BY <1>2, <1>3, <1>5 DEF RetentionInv, VaultInv
<1>9. CapturesInv'
  BY <1>2, <1>3, <1>5 DEF RetentionInv, CapturesInv, StillDue
<1>10. ChainsInv'
  <2>1. ASSUME NEW s \in Session, session'[s] # None, session'[s].state \in {"fresh", "rotated"}
        PROVE  session'[s].device
    BY <1>6, <2>1 DEF RetentionInv, ChainsInv, Over
  <2>2. ASSUME NEW s \in purge.over PROVE session'[s] # None /\ session'[s].state = "expired"
    BY <1>6, RowsAreRows DEF RetentionInv, RetentionTypes, PurgeRun, ChainsInv
  <2>3. ASSUME NEW s \in purge.due.device PROVE session'[s] # None /\ Over(s)'
    BY <1>2, <1>5, <1>6, RowsAreRows, ZenonT(60) DEF RetentionInv, RetentionTypes, PurgeRun, ChainsInv, Over
  <2> QED BY <1>5, <2>1, <2>2, <2>3 DEF ChainsInv
<1>11. DeviceInv'
  <2>1. ASSUME "device" \in said, NEW s \in purge.due.device, session'[s].device
        PROVE  session'[s].home \in purge.todo \ {w}
    <3>1. s \in Session /\ session[s] # None /\ Over(s)
      BY <1>2 DEF RetentionInv, RetentionTypes, PurgeRun, ChainsInv
    <3>2. session'[s] = session[s] /\ session[s].home # w
      BY <1>3, <1>6, <2>1, <3>1
    <3> QED BY <1>2, <1>3, <2>1, <3>2 DEF RetentionInv, DeviceInv
  <2> QED BY <1>5, <2>1 DEF DeviceInv
<1> QED BY <1>7, <1>8, <1>9, <1>10, <1>11 DEF RetentionInv

(* The run is over, or the worker died. *)
LEMMA PurgeEnds == RetentionInv /\ (FinishPurge \/ WorkerDies) => RetentionInv'
<1> SUFFICES ASSUME RetentionInv, FinishPurge \/ WorkerDies PROVE RetentionInv'
  OBVIOUS
<1>1. purge' = NoPurge /\ UNCHANGED <<vault, setting, captured, session>>
  BY DEF FinishPurge, WorkerDies
<1>2. RetentionTypes'
  BY <1>1, IdleTypes, RowsAreRows DEF RetentionInv, RetentionTypes
<1>3. VaultInv' /\ CapturesInv' /\ ChainsInv' /\ DeviceInv'
  BY <1>1, IdleTypes DEF RetentionInv, VaultInv, CapturesInv, ChainsInv, DeviceInv
<1> QED BY <1>2, <1>3 DEF RetentionInv

(* Time: what is due grows older with the lag of the run, up to an age that no lag overtakes. *)
LEMMA TimeStep == RetentionInv /\ TimePasses => RetentionInv'
<1> SUFFICES ASSUME RetentionInv, TimePasses PROVE RetentionInv'
  OBVIOUS
<1>1. /\ vault' = [e \in Entry |-> Older(vault[e], OldestEntry)]
      /\ captured' = [c \in Capture |->
                        IF captured[c] # None /\ captured[c].pc = "stored"
                        THEN Older(captured[c], OldestCapture) ELSE captured[c]]
      /\ purge' = IF purge.pc = "idle" THEN purge ELSE [purge EXCEPT !.lag = purge.lag + 1]
      /\ UNCHANGED <<setting, session>>
      /\ purge.pc # "idle" => purge.lag < MaxLag
  BY DEF TimePasses
<1>2. /\ purge'.pc = purge.pc /\ purge'.todo = purge.todo
      /\ purge'.home = purge.home /\ purge'.days = purge.days /\ purge'.bad = purge.bad
      /\ purge'.census = purge.census /\ purge'.over = purge.over /\ purge'.due = purge.due
      /\ purge.pc # "idle" => purge'.lag = purge.lag + 1
      /\ purge.pc = "idle" => purge'.lag = purge.lag
      /\ purge.lag \in Nat /\ purge.lag <= MaxLag
  BY <1>1 DEF RetentionInv, RetentionTypes, PurgeRun
<1>3. OldestEntry = MaxLag + VaultTtl /\ OldestCapture = MaxLag + MaxDays + 1
  BY DEF OldestEntry, OldestCapture
<1>4. ASSUME NEW e \in Entry, vault[e] # None
      PROVE  /\ vault'[e] \in EntryRow /\ vault[e].age \in Nat
             /\ vault'[e].age = IF vault[e].age < OldestEntry THEN vault[e].age + 1 ELSE vault[e].age
  <2>1. vault[e] \in EntryRow /\ vault'[e] = Older(vault[e], OldestEntry)
    BY <1>1, <1>4 DEF RetentionInv, RetentionTypes
  <2> QED BY <1>4, <2>1 DEF Older, EntryRow
<1>5. \A e \in Entry : vault[e] = None => vault'[e] = None
  BY <1>1 DEF Older
<1>6. ASSUME NEW c \in Capture, captured[c] # None
      PROVE  /\ captured'[c] \in CaptureRow /\ captured[c] \in CaptureRow
             /\ captured'[c].pc = captured[c].pc /\ captured'[c].home = captured[c].home
             /\ captured[c].pc = "stored" =>
                  captured'[c].age = IF captured[c].age < OldestCapture THEN captured[c].age + 1
                                     ELSE captured[c].age
  <2>1. /\ captured[c] \in CaptureRow
        /\ captured'[c] = IF captured[c].pc = "stored" THEN Older(captured[c], OldestCapture)
                          ELSE captured[c]
    BY <1>1, <1>6 DEF RetentionInv, RetentionTypes
  <2> QED BY <1>6, <2>1 DEF Older, CaptureRow
<1>7. \A c \in Capture : captured[c] = None => captured'[c] = None
  BY <1>1
<1>8. RetentionTypes'
  <2>1. purge' \in PurgeRun
    BY <1>1 DEF RetentionInv, RetentionTypes, PurgeRun
  <2>2. vault' \in [Entry -> EntryRow \cup {None}]
    <3>1. \A e \in Entry : vault'[e] \in EntryRow \cup {None}
      BY <1>4, <1>5
    <3> QED BY <1>1, <3>1
  <2>3. captured' \in [Capture -> CaptureRow \cup {None}]
    <3>1. \A c \in Capture : captured'[c] \in CaptureRow \cup {None}
      BY <1>6, <1>7
    <3> QED BY <1>1, <3>1
  <2>4. purge'.lag <= MaxLag
    BY <1>1, <1>2, RowsAreRows
  <2> QED BY <1>1, <2>1, <2>2, <2>3, <2>4 DEF RetentionInv, RetentionTypes
<1>9. VaultInv'
  <2>1. ASSUME purge.pc = "vault", NEW e \in purge.due.vault PROVE ExpiredAtStart(e)'
    <3>1. /\ e \in Entry /\ vault[e] # None /\ vault[e].age >= VaultTtl + purge.lag
          /\ purge.lag < MaxLag /\ purge'.lag = purge.lag + 1
      BY <1>1, <1>2, <2>1 DEF RetentionInv, RetentionTypes, PurgeRun, VaultInv, ExpiredAtStart
    <3>2. vault'[e] # None
      BY <1>4, <3>1, RowsAreRows
    <3>3. /\ vault[e].age \in Nat
          /\ vault'[e].age = IF vault[e].age < OldestEntry THEN vault[e].age + 1 ELSE vault[e].age
      BY <1>4, <3>1
    <3>4. vault'[e].age >= VaultTtl + (purge.lag + 1)
      BY <1>2, <1>3, <3>1, <3>3, RowsAreRows
    <3> QED BY <3>1, <3>2, <3>4 DEF ExpiredAtStart
  <2>2. \A e \in purge.due.vault : vault[e] = None => vault'[e] = None
    BY <1>5 DEF RetentionInv, RetentionTypes, PurgeRun
  <2> QED BY <1>2, <2>1, <2>2 DEF RetentionInv, VaultInv
<1>10. ASSUME purge.pc # "idle", NEW c \in Capture, captured[c] # None, captured[c].pc = "stored",
              NEW d \in Days, captured[c].age > d + purge.lag
       PROVE  captured'[c].age > d + purge'.lag
  <2>1. /\ captured[c].age \in Nat /\ purge.lag < MaxLag /\ purge'.lag = purge.lag + 1
        /\ captured'[c].age = IF captured[c].age < OldestCapture THEN captured[c].age + 1
                              ELSE captured[c].age
    BY <1>1, <1>2, <1>6, <1>10 DEF CaptureRow
  <2>2. d \in Nat /\ d <= MaxDays /\ MaxDays \in Nat /\ MaxLag \in Nat
    BY LongestRetention, RowsAreRows
  <2> QED BY <1>2, <1>3, <1>10, <2>1, <2>2
<1>11. CapturesInv'
  <2>1. ASSUME purge.pc # "idle", NEW c \in purge.due.captures, captured'[c] # None
        PROVE  c \in Capture /\ captured[c] # None /\ StillDue(c)
    BY <1>7, <2>1 DEF RetentionInv, RetentionTypes, PurgeRun, CapturesInv
  <2>2. ASSUME purge.pc # "idle", NEW c \in purge.due.captures, captured'[c] # None
        PROVE  StillDue(c)'
    <3>1. /\ c \in Capture /\ captured[c] # None /\ captured[c].pc = "stored"
          /\ captured'[c].pc = "stored" /\ captured'[c].home = captured[c].home
          /\ captured[c].home \in Workspace /\ setting[captured[c].home] # None
          /\ captured[c].age > setting[captured[c].home].days + purge.lag
      BY <1>6, <2>1, <2>2 DEF StillDue, CaptureRow
    <3>2. setting[captured[c].home].days \in Days
      BY <3>1 DEF RetentionInv, RetentionTypes, SettingRow
    <3>3. captured'[c].age > setting[captured[c].home].days + purge'.lag
      BY <1>10, <2>2, <3>1, <3>2
    <3> QED BY <1>1, <3>1, <3>3 DEF StillDue
  <2>3. ASSUME purge.pc = "captures", purge.bad = {}, NEW c \in purge.due.captures, captured'[c] # None
        PROVE  StillReached(c)'
    <3>1. /\ c \in Capture /\ captured[c] # None /\ captured[c].pc = "stored"
          /\ captured'[c].home = captured[c].home /\ captured[c].home \in Workspace
      BY <1>6, <2>1, <2>3 DEF StillDue, CaptureRow
    <3>2. StillReached(c)
      BY <2>3, <3>1 DEF RetentionInv, CapturesInv
    <3>3. CASE captured[c].home \in purge.todo
      BY <1>2, <3>1, <3>3 DEF StillReached
    <3>4. CASE captured[c].home = purge.home /\ captured[c].age > purge.days + purge.lag
      <4>1. purge.days \in Days
        BY <3>1, <3>4, RowsAreRows DEF RetentionInv, CapturesInv
      <4>2. captured'[c].age > purge.days + purge'.lag
        BY <1>10, <2>3, <3>1, <3>4, <4>1
      <4> QED BY <1>2, <3>1, <3>4, <4>2 DEF StillReached
    <3> QED BY <3>2, <3>3, <3>4 DEF StillReached
  <2>4. \A c \in purge.due.captures : captured[c] = None => captured'[c] = None
    BY <1>7 DEF RetentionInv, RetentionTypes, PurgeRun
  <2> QED BY <1>2, <2>2, <2>3, <2>4 DEF RetentionInv, CapturesInv
<1>12. ChainsInv' /\ DeviceInv'
  BY <1>1, <1>2 DEF RetentionInv, ChainsInv, DeviceInv, Over
<1> QED BY <1>8, <1>9, <1>11, <1>12 DEF RetentionInv

(* The purge's invariant, for any rows, workspaces, retentions and length of a run. *)
THEOREM RetentionInvariance == RetentionSpec => []RetentionInv
<1>1. RetentionInv /\ RetentionNext => RetentionInv'
  <2> SUFFICES ASSUME RetentionInv, RetentionNext PROVE RetentionInv'
    OBVIOUS
  <2>1. CASE Rotate \/ EndSession \/ SessionExpires
    BY <2>1, ChainStep DEF Rotate, EndSession, SessionExpires
  <2> QED BY <2>1, TokenizeStep, SetCaptureStep, DecideStep, StoreStep, SignInStep, RunPurgeStep,
             PurgeTokenVaultStep, ReadRetentionStep, PurgeOneWorkspaceStep, CapturesDoneStep,
             ScrubStep, PurgeEnds, TimeStep DEF RetentionNext
<1>2. RetentionInv /\ UNCHANGED retentionVars => RetentionInv'
  BY DEF retentionVars, RetentionInv, RetentionTypes, VaultInv, ExpiredAtStart, CapturesInv, StillDue,
         StillReached, ChainsInv, DeviceInv, Over
<1> QED BY <1>1, <1>2, RetentionStart, PTL DEF RetentionSpec

(***************************************************************************)
(* What the audit trail of the purge may be read to say.                    *)
(***************************************************************************)
(* retention_purge::run: a run whose records are all ok removed every capture that was due, and an
   ok for the vault or the device context stands for every workspace, wherever a read, a delete or a
   recount fails and whatever is tokenized, stored or reconfigured meanwhile. *)
THEOREM CleanRunsAreClean == RetentionSpec => CleanRunIsClean
<1>1. RetentionInv => RunIsClean
  <2> SUFFICES ASSUME RetentionInv, FinishPurge
               PROVE  /\ AllOk(purge) => \A c \in purge.due.captures : captured[c] = None
                      /\ "vault" \in purge.census => \A e \in purge.due.vault : vault[e] = None
                      /\ "device" \in purge.census => \A s \in purge.due.device : ~session[s].device
    BY DEF RunIsClean
  <2>1. purge.pc = "device" /\ purge.todo = {}
    BY DEF FinishPurge
  <2>2. AllOk(purge) => \A c \in purge.due.captures : captured[c] = None
    BY <2>1 DEF AllOk, RetentionInv, CapturesInv
  <2>3. "vault" \in purge.census => \A e \in purge.due.vault : vault[e] = None
    BY <2>1 DEF RetentionInv, VaultInv
  <2>4. "device" \in purge.census => \A s \in purge.due.device : ~session[s].device
    BY <2>1 DEF RetentionInv, DeviceInv
  <2> QED BY <2>2, <2>3, <2>4
<1>2. RetentionSpec => [][RunIsClean]_retentionVars
  BY <1>1, RetentionInvariance, PTL
<1> QED BY <1>2 DEF CleanRunIsClean

(* The purge takes no entry that its caller can still restore from and no context of a live session,
   however long it runs and whoever rotates, signs in or signs out meanwhile. *)
THEOREM TheLivingAreSpared == RetentionSpec => PurgeSparesTheLiving
<1>1. RetentionInv /\ RetentionInv' /\ [RetentionNext]_retentionVars => LivingSpared
  <2> SUFFICES ASSUME RetentionInv, RetentionInv', [RetentionNext]_retentionVars PROVE LivingSpared
    OBVIOUS
  <2>1. ASSUME NEW e \in Entry, NEW w \in Workspace, Detokenizes(e, w) PROVE vault'[e] # None
    <3>1. vault[e] # None /\ vault[e].age < VaultTtl /\ vault[e].age \in Nat /\ purge.lag \in Nat
      BY <2>1 DEF Detokenizes, RetentionInv, RetentionTypes, EntryRow, PurgeRun
    <3>2. CASE PurgeTokenVault
      <4>1. ~ExpiredAtStart(e)
        BY <3>1, RowsAreRows DEF ExpiredAtStart
      <4> QED BY <3>1, <3>2, <4>1 DEF PurgeTokenVault
    <3>3. CASE TimePasses
      <4>1. vault'[e] = Older(vault[e], OldestEntry)
        BY <3>3 DEF TimePasses
      <4>2. vault[e] \in EntryRow
        BY <3>1 DEF RetentionInv, RetentionTypes
      <4>3. Older(vault[e], OldestEntry) \in EntryRow
        BY <4>2 DEF Older, EntryRow
      <4> QED BY <4>1, <4>3, RowsAreRows
    <3>4. CASE Tokenize
      <4>1. PICK f \in Entry, v \in Workspace :
              vault[f] = None /\ vault' = [vault EXCEPT ![f] = [home |-> v, age |-> 0]]
        BY <3>4 DEF Tokenize
      <4> QED BY <3>1, <4>1 DEF RetentionInv, RetentionTypes
    <3>5. ASSUME UNCHANGED vault PROVE vault'[e] # None
      BY <3>1, <3>5
    <3> QED BY <3>2, <3>3, <3>4, <3>5
            DEF RetentionNext, SetCapture, Decide, Store, SignIn, Rotate, EndSession, SessionExpires,
                ChainMoves, RunPurge, ReadRetention, PurgeOneWorkspace, CapturesDone,
                ScrubOneWorkspace, FinishPurge, WorkerDies, retentionVars
  <2>2. ASSUME NEW s \in Session, session[s] # None, session'[s].state \in {"fresh", "rotated"}
        PROVE  session'[s].device
    <3>1. session[s] \in SessionRow
      BY <2>2 DEF RetentionInv, RetentionTypes
    <3>2. session'[s] \in SessionRow
      <4>1. CASE SignIn
        BY <2>2, <3>1, <4>1 DEF SignIn, RetentionInv, RetentionTypes, SessionRow
      <4>2. ASSUME NEW from, NEW to, to \in {"rotated", "revoked", "expired"}, ChainMoves(from, to)
            PROVE  session'[s] \in SessionRow
        BY <3>1, <4>2 DEF ChainMoves, RetentionInv, RetentionTypes, SessionRow
      <4>3. CASE Rotate \/ EndSession \/ SessionExpires
        BY <4>2, <4>3 DEF Rotate, EndSession, SessionExpires
      <4>4. CASE ScrubOneWorkspace
        <5>1. session'[s] = [session[s] EXCEPT !.device = FALSE] \/ session'[s] = session[s]
          BY <4>4 DEF ScrubOneWorkspace
        <5>2. [session[s] EXCEPT !.device = FALSE] \in SessionRow
          BY <3>1 DEF SessionRow
        <5> QED BY <3>1, <5>1, <5>2
      <4>5. ASSUME UNCHANGED session PROVE session'[s] \in SessionRow
        BY <3>1, <4>5
      <4> QED BY <4>1, <4>3, <4>4, <4>5
              DEF RetentionNext, Tokenize, SetCapture, Decide, Store, RunPurge, PurgeTokenVault,
                  ReadRetention, PurgeOneWorkspace, CapturesDone, FinishPurge, WorkerDies,
                  TimePasses, retentionVars
    <3>3. session'[s] # None
      BY <3>2, RowsAreRows
    <3> QED BY <2>2, <3>3 DEF RetentionInv, ChainsInv
  <2> QED BY <2>1, <2>2 DEF LivingSpared
<1>2. RetentionSpec => [][LivingSpared]_retentionVars
  BY <1>1, RetentionInvariance, PTL DEF RetentionSpec
<1> QED BY <1>2 DEF PurgeSparesTheLiving

-----------------------------------------------------------------------------
(***************************************************************************)
(* The second factor.                                                       *)
(***************************************************************************)

(* The constants, one by one. *)
LEMMA Bounds ==
  /\ BackupCodes \in Nat /\ Threshold \in Nat \ {0} /\ LockSteps \in Nat \ {0}
  /\ ChallengeTtl \in Nat /\ MaxSecrets \in Nat /\ MaxTime \in Nat /\ MaxFailures \in Nat
BY TwoFactorAssumption

(* The codes are triples, and no backup code is a TOTP code or wrong. *)
LEMMA CodeShape ==
  /\ WrongCode \in Code /\ WrongCode \notin BackupCode /\ BackupCode \subseteq Code
  /\ \A c \in TotpCode : c \notin BackupCode /\ c \in Code /\ c[1] = "totp" /\ c[3] \in 0..(MaxTime + 1)
  /\ \A c \in BackupCode : c[1] = "backup" /\ c[2] \in 1..MaxSecrets
  /\ \A c \in Code : c[1] = "totp" => c \in TotpCode
BY DEF Code, TotpCode, BackupCode, WrongCode

(* The codes of an enrollment. *)
LEMMA Enrolled ==
  ASSUME NEW n \in 1..MaxSecrets
  PROVE  /\ {"backup"} \X {n} \X (1..BackupCodes) \subseteq BackupCode
         /\ \A c \in {"backup"} \X {n} \X (1..BackupCodes) : c[2] = n
BY DEF BackupCode

(* What a handler may become. *)
LEMMA HandlerTypes ==
  /\ NoRequest \in Handlers /\ NoRequest.code = WrongCode
  /\ \A h \in Handlers : /\ h.code \in Code /\ h.step \in Null..(MaxTime + 1)
                         /\ h.pc \in Stages /\ h.op \in Operations
  /\ \A h \in Handlers, pc \in Stages : [h EXCEPT !.pc = pc] \in Handlers
  /\ \A pc \in Stages, op \in Operations : [NoRequest EXCEPT !.pc = pc, !.op = op] \in Handlers
  /\ \A pc \in Stages, op \in Operations, c \in Code, n \in Null..(MaxTime + 1) :
       [pc |-> pc, op |-> op, code |-> c, step |-> n] \in Handlers
<1>1. "idle" \in Stages /\ "none" \in Operations
  BY DEF Stages, Operations
<1>2. Null \in Null..(MaxTime + 1)
  BY Bounds DEF Null
<1> QED BY <1>1, <1>2, CodeShape DEF Handlers, NoRequest

(* What the users row may become. *)
LEMMA RowTypes ==
  ASSUME NEW u \in UserRows
  PROVE  /\ u.secret \in 0..MaxSecrets /\ u.failed \in 0..MaxFailures
         /\ u.locked \in Null..(MaxTime + LockSteps)
         /\ \A n \in 0..MaxSecrets :
              [u EXCEPT !.secret = n, !.confirmed = FALSE] \in UserRows
         /\ [u EXCEPT !.confirmed = TRUE] \in UserRows
         /\ \A f \in 0..MaxFailures, l \in Null..(MaxTime + LockSteps) :
              [u EXCEPT !.failed = f, !.locked = l] \in UserRows
         /\ \A n \in Null..(MaxTime + 1) :
              [u EXCEPT !.last = n, !.failed = 0, !.locked = Null] \in UserRows
         /\ [secret |-> NoSecret, confirmed |-> FALSE, last |-> Null, failed |-> 0,
             locked |-> Null] \in UserRows
<1>1. /\ 0 \in 0..MaxFailures /\ NoSecret \in 0..MaxSecrets /\ Null \in Null..(MaxTime + 1)
      /\ Null \in Null..(MaxTime + LockSteps)
  BY Bounds DEF Null, NoSecret
<1> QED BY <1>1 DEF UserRows

(* One handler's record is replaced by another. *)
LEMMA ReqUpdate ==
  ASSUME NEW f \in [Request -> Handlers], NEW r \in Request, NEW h \in Handlers
  PROVE  [f EXCEPT ![r] = h] \in [Request -> Handlers]
OBVIOUS

(* The ways in which a step leaves the handlers well typed. *)
LEMMA ReqStep ==
  ASSUME NEW r \in Request, req \in [Request -> Handlers]
  PROVE  /\ Fail(r) => req' \in [Request -> Handlers]
         /\ Return(r) => req' \in [Request -> Handlers]
         /\ \A pc \in Stages : Goto(r, pc) => req' \in [Request -> Handlers]
         /\ \A pc \in Stages, op \in Operations :
              req' = [req EXCEPT ![r] = [NoRequest EXCEPT !.pc = pc, !.op = op]]
                => req' \in [Request -> Handlers]
<1>0. req[r] \in Handlers
  OBVIOUS
<1>1. Fail(r) => req' \in [Request -> Handlers]
  <2>1. "fail" \in Stages /\ req[r].op \in Operations
    BY <1>0, HandlerTypes DEF Stages
  <2>2. [NoRequest EXCEPT !.pc = "fail", !.op = req[r].op] \in Handlers
    BY <2>1, HandlerTypes
  <2> QED BY <2>2 DEF Fail
<1>2. Return(r) => req' \in [Request -> Handlers]
  <2>1. NoRequest \in Handlers
    BY HandlerTypes
  <2> QED BY <2>1 DEF Return
<1>3. ASSUME NEW pc \in Stages, Goto(r, pc) PROVE req' \in [Request -> Handlers]
  <2>1. [req[r] EXCEPT !.pc = pc] \in Handlers
    BY <1>0, HandlerTypes
  <2>2. req' = [req EXCEPT ![r] = [req[r] EXCEPT !.pc = pc]]
    BY <1>3 DEF Goto
  <2> QED BY <2>1, <2>2
<1>4. ASSUME NEW pc \in Stages, NEW op \in Operations,
             req' = [req EXCEPT ![r] = [NoRequest EXCEPT !.pc = pc, !.op = op]]
      PROVE  req' \in [Request -> Handlers]
  <2>1. [NoRequest EXCEPT !.pc = pc, !.op = op] \in Handlers
    BY HandlerTypes
  <2> QED BY <2>1, <1>4
<1> QED BY <1>1, <1>2, <1>3, <1>4

(* What a revocation that does not happen leaves are sessions. *)
LEMMA SparedTypes == sessions \subseteq Origins => Spared \subseteq Origins
BY DEF Spared, Origins

(* Every step keeps the types, action by action. *)
LEMMA TypeStep == TypeOK /\ [Next]_vars => TypeOK'
<1> SUFFICES ASSUME TypeOK, [Next]_vars PROVE TypeOK'
  OBVIOUS
<1> USE DEF TypeOK
<1>1. CASE UNCHANGED vars
  BY <1>1 DEF vars
<1>2. CASE Tick
  BY <1>2, Bounds DEF Tick
<1>3. ASSUME NEW r \in Request, HandlerStep(r) PROVE TypeOK'
  <2>0. req \in [Request -> Handlers] /\ user \in UserRows
    OBVIOUS
  <2>s. /\ {"mint", "enroll", "confirm", "revoke", "success", "backup", "consume", "disable"}
             \subseteq Stages
        /\ {"login", "enroll", "verify", "challenge", "disable"} \subseteq Operations
    BY DEF Stages, Operations
  <2>1. CASE LoginRead(r)
    <3>1. req' \in [Request -> Handlers]
      BY <2>1, <2>s, <2>0, ReqStep DEF LoginRead
    <3>2. token' \in Null..(MaxTime + ChallengeTtl)
      BY <2>1, Bounds DEF LoginRead, Null
    <3> QED BY <2>1, <3>1, <3>2 DEF LoginRead
  <2>2. CASE EnrollRead(r)
    <3>1. req' \in [Request -> Handlers]
      BY <2>2, <2>s, <2>0, ReqStep DEF EnrollRead
    <3> QED BY <2>2, <3>1 DEF EnrollRead
  <2>3. CASE EnrollTotp(r)
    <3>1. req' \in [Request -> Handlers]
      BY <2>3, <2>0, ReqStep DEF EnrollTotp
    <3>2. issued + 1 \in 1..MaxSecrets /\ issued + 1 \in 0..MaxSecrets
      BY <2>3, Bounds DEF EnrollTotp
    <3>3. user' \in UserRows
      BY <2>3, <2>0, <3>2, RowTypes DEF EnrollTotp
    <3>4. codes' \subseteq BackupCode
      BY <2>3, <3>2, Enrolled DEF EnrollTotp
    <3> QED BY <2>3, <3>1, <3>2, <3>3, <3>4 DEF EnrollTotp
  <2>4. ASSUME NEW c \in Code, VerifyRead(r, c) PROVE TypeOK'
    <3>1. CASE VerifyCode(user.secret, user.last, c)
      <4>1. c[3] \in Null..(MaxTime + 1)
        BY <3>1, Bounds DEF VerifyCode, Candidates, Null
      <4>2. [pc |-> "confirm", op |-> "verify", code |-> c, step |-> c[3]] \in Handlers
        BY <4>1, <2>s, HandlerTypes
      <4>3. req' \in [Request -> Handlers]
        BY <2>4, <3>1, <2>0, <4>2 DEF VerifyRead
      <4> QED BY <2>4, <4>3 DEF VerifyRead
    <3>2. CASE ~VerifyCode(user.secret, user.last, c)
      <4>1. "fail" \in Stages
        BY DEF Stages
      <4>2. req' = [req EXCEPT ![r] = [NoRequest EXCEPT !.pc = "fail", !.op = "verify"]]
        BY <2>4, <3>2 DEF VerifyRead
      <4>3. req' \in [Request -> Handlers]
        BY <4>1, <4>2, <2>0, <2>s, ReqStep
      <4> QED BY <2>4, <4>3 DEF VerifyRead
    <3> QED BY <3>1, <3>2
  <2>5. ASSUME NEW c \in Code, NEW op \in {"challenge", "disable"}, SecondFactorRead(r, c, op)
        PROVE TypeOK'
    <3>1. CASE VerifyCode(user.secret, user.last, c)
      <4>1. c[3] \in Null..(MaxTime + 1)
        BY <3>1, Bounds DEF VerifyCode, Candidates, Null
      <4>2. Proceed(op) \in Stages /\ op \in Operations
        BY <2>s DEF Proceed
      <4>3. [pc |-> Proceed(op), op |-> op, code |-> c, step |-> c[3]] \in Handlers
        BY <4>1, <4>2, HandlerTypes
      <4>4. req' \in [Request -> Handlers]
        BY <2>5, <3>1, <2>0, <4>3 DEF SecondFactorRead
      <4> QED BY <2>5, <4>4 DEF SecondFactorRead
    <3>2. CASE ~VerifyCode(user.secret, user.last, c)
      <4> DEFINE d == IF c \in BackupCode THEN c ELSE WrongCode
      <4>1. d \in Code /\ now \in Null..(MaxTime + 1)
        BY CodeShape, Bounds DEF Null
      <4>2. "backup" \in Stages /\ op \in Operations
        BY <2>s
      <4>3. [pc |-> "backup", op |-> op, step |-> now, code |-> d]
              = [pc |-> "backup", op |-> op, code |-> d, step |-> now]
        OBVIOUS
      <4>4. req' = [req EXCEPT ![r] = [pc |-> "backup", op |-> op, step |-> now, code |-> d]]
        BY <2>5, <3>2 DEF SecondFactorRead
      <4> HIDE DEF d
      <4>5. [pc |-> "backup", op |-> op, code |-> d, step |-> now] \in Handlers
        BY <4>1, <4>2, HandlerTypes
      <4>6. req' \in [Request -> Handlers]
        BY <2>0, <4>3, <4>4, <4>5
      <4> QED BY <2>5, <4>6 DEF SecondFactorRead
    <3> QED BY <3>1, <3>2
  <2>6. CASE BackupSelect(r)
    <3>1. req' \in [Request -> Handlers]
      BY <2>6, <2>s, <2>0, ReqStep DEF BackupSelect
    <3> QED BY <2>6, <3>1 DEF BackupSelect
  <2>7. CASE BackupConsume(r)
    <3>0. Proceed(req[r].op) \in Stages
      BY <2>s DEF Proceed
    <3>1. req' \in [Request -> Handlers]
      BY <2>7, <3>0, <2>0, ReqStep DEF BackupConsume
    <3> QED BY <2>7, <3>1 DEF BackupConsume
  <2>8. CASE RecordFailure(r)
    <3>1. req' \in [Request -> Handlers]
      BY <2>8, <2>0, ReqStep DEF RecordFailure
    <3> DEFINE l == IF user.failed + 1 >= Threshold THEN now + LockSteps ELSE user.locked
    <3>a. user.failed \in 0..MaxFailures /\ user.locked \in Null..(MaxTime + LockSteps)
      BY <2>0, RowTypes
    <3>b. user.failed < MaxFailures
      BY <2>8 DEF RecordFailure
    <3>c. user.failed + 1 \in 0..MaxFailures
      BY <3>a, <3>b, Bounds
    <3>d. now + LockSteps \in Null..(MaxTime + LockSteps)
      BY Bounds DEF Null
    <3>2. user.failed + 1 \in 0..MaxFailures /\ l \in Null..(MaxTime + LockSteps)
      BY <3>a, <3>c, <3>d
    <3>3. user' = [user EXCEPT !.failed = user.failed + 1, !.locked = l]
      BY <2>8 DEF RecordFailure
    <3> HIDE DEF l
    <3>4. user' \in UserRows
      BY <3>2, <3>3, <2>0, RowTypes
    <3> QED BY <2>8, <3>1, <3>4 DEF RecordFailure
  <2>9. CASE ConfirmTotp(r)
    <3>1. req' \in [Request -> Handlers]
      BY <2>9, <2>s, <2>0, ReqStep DEF ConfirmTotp
    <3>2. user' \in UserRows
      BY <2>9, <2>0, RowTypes DEF ConfirmTotp
    <3> QED BY <2>9, <3>1, <3>2 DEF ConfirmTotp
  <2>10. CASE RevokeAll(r)
    <3>1. req' \in [Request -> Handlers]
      BY <2>10, <2>s, <2>0, ReqStep DEF RevokeAll
    <3>2. sessions' \subseteq Origins
      BY <2>10, SparedTypes DEF RevokeAll, NotRevoked
    <3> QED BY <2>10, <3>1, <3>2 DEF RevokeAll
  <2>11. CASE RecordSuccess(r)
    <3>1. req' \in [Request -> Handlers]
      BY <2>11, <2>s, <2>0, ReqStep DEF RecordSuccess
    <3>2. req[r].step \in Null..(MaxTime + 1)
      BY <2>0, HandlerTypes
    <3>3. user' \in UserRows
      BY <2>11, <2>0, <3>2, RowTypes DEF RecordSuccess
    <3> QED BY <2>11, <3>1, <3>3 DEF RecordSuccess
  <2>12. CASE MintPair(r)
    <3>1. req' \in [Request -> Handlers]
      BY <2>12, <2>0, ReqStep DEF MintPair
    <3>2. accepted' \in [BackupCode -> 0..2]
      BY <2>12 DEF MintPair, Accept
    <3>3. sessions' \subseteq Origins
      BY <2>12 DEF MintPair, Origins
    <3> QED BY <2>12, <3>1, <3>2, <3>3 DEF MintPair
  <2>13. CASE DisableTotp(r)
    <3>1. req' \in [Request -> Handlers]
      BY <2>13, <2>s, <2>0, ReqStep DEF DisableTotp
    <3>2. accepted' \in [BackupCode -> 0..2]
      BY <2>13 DEF DisableTotp, Accept
    <3>3. user' \in UserRows
      BY <2>13, <2>0, RowTypes DEF DisableTotp
    <3> QED BY <2>13, <3>1, <3>2, <3>3 DEF DisableTotp
  <2>14. CASE Abort(r)
    <3>1. req' \in [Request -> Handlers]
      BY <2>14, <2>0, ReqStep DEF Abort
    <3>2. sessions' \subseteq Origins
      BY <2>14, SparedTypes DEF Abort, NotRevoked
    <3> QED BY <2>14, <3>1, <3>2 DEF Abort
  <2> QED BY <1>3, <2>1, <2>2, <2>3, <2>4, <2>5, <2>6, <2>7, <2>8, <2>9, <2>10, <2>11, <2>12,
             <2>13, <2>14 DEF HandlerStep
<1> QED BY <1>1, <1>2, <1>3 DEF Next

(* The invariant holds of an account without two-factor. *)
LEMMA InitInv == Init => TwoFactorInv
<1> SUFFICES ASSUME Init PROVE TwoFactorInv
  OBVIOUS
<1>0. \A r \in Request : req[r] = NoRequest
  BY DEF Init
<1>1. TypeOK
  <2>1. user \in UserRows
    BY Bounds DEF Init, UserRows, Null, NoSecret
  <2>2. req \in [Request -> Handlers]
    BY HandlerTypes DEF Init
  <2> QED BY <2>1, <2>2, Bounds DEF Init, TypeOK, Null
<1>2. NoRequest.code \notin BackupCode /\ NoRequest.pc = "idle"
  BY CodeShape DEF NoRequest
<1>3. SpentOnce
  BY <1>0, <1>2 DEF Init, SpentOnce, Holds
<1>4. NotBeforeIssue
  BY <1>0, <1>2 DEF Init, NotBeforeIssue
<1>5. VerifyCarriesTotp
  BY <1>0, <1>2 DEF VerifyCarriesTotp
<1>6. CodesAreCurrent /\ LockFollowsFailures
  BY Bounds DEF Init, CodesAreCurrent, LockFollowsFailures
<1>7. OnlyDisableDisables
  BY <1>0, <1>2 DEF OnlyDisableDisables
<1> QED BY <1>1, <1>3, <1>4, <1>5, <1>6, <1>7 DEF TwoFactorInv

(* Type correctness of the two-factor endpoints. *)
THEOREM TypeCorrect == Spec => []TypeOK
<1>1. Init => TypeOK
  BY InitInv DEF TwoFactorInv
<1>2. TypeOK /\ [Next]_vars => TypeOK'
  BY TypeStep
<1> QED BY <1>1, <1>2, PTL DEF Spec

(* The account locks, and stays locked, until the failures are cleared. *)
LEMMA LockStep == TypeOK /\ LockFollowsFailures /\ [Next]_vars => LockFollowsFailures'
<1> SUFFICES ASSUME TypeOK, LockFollowsFailures, [Next]_vars PROVE LockFollowsFailures'
  OBVIOUS
<1>0. user \in UserRows
  BY DEF TypeOK
<1>1. CASE user' = user
  BY <1>1 DEF LockFollowsFailures
<1>2. ASSUME NEW r \in Request, RecordFailure(r) PROVE LockFollowsFailures'
  <2>1. now + LockSteps # Null
    BY Bounds DEF TypeOK, Null
  <2>2. user'.failed = user.failed + 1
        /\ user'.locked = IF user.failed + 1 >= Threshold THEN now + LockSteps ELSE user.locked
    BY <1>0, <1>2 DEF RecordFailure, UserRows
  <2> QED BY <2>1, <2>2 DEF LockFollowsFailures
<1>3. ASSUME NEW r \in Request, RecordSuccess(r) \/ DisableTotp(r) PROVE LockFollowsFailures'
  <2>1. CASE RecordSuccess(r)
    BY <1>0, <2>1, Bounds DEF RecordSuccess, UserRows, LockFollowsFailures
  <2>2. CASE DisableTotp(r)
    BY <2>2, Bounds DEF DisableTotp, LockFollowsFailures
  <2> QED BY <1>3, <2>1, <2>2
<1>4. ASSUME NEW r \in Request, EnrollTotp(r) \/ ConfirmTotp(r) PROVE LockFollowsFailures'
  <2>1. user'.failed = user.failed /\ user'.locked = user.locked
    BY <1>0, <1>4 DEF EnrollTotp, ConfirmTotp, UserRows
  <2> QED BY <2>1 DEF LockFollowsFailures
<1>5. [Next]_vars => \/ user' = user
                     \/ \E r \in Request : \/ RecordFailure(r) \/ RecordSuccess(r) \/ DisableTotp(r)
                                           \/ EnrollTotp(r) \/ ConfirmTotp(r)
  BY DEF vars, Next, Tick, HandlerStep, LoginRead, EnrollRead, VerifyRead, SecondFactorRead,
         BackupSelect, BackupConsume, RevokeAll, MintPair, Abort
<1> QED BY <1>1, <1>2, <1>3, <1>4, <1>5

(* However the requests interleave, failures at the threshold come with a *)
(* lock (record_totp_failure, record_totp_success, disable_totp).          *)
THEOREM LockAlways == Spec => []LockFollowsFailures
<1>1. Init => TypeOK /\ LockFollowsFailures
  BY InitInv DEF TwoFactorInv
<1>2. TypeOK /\ LockFollowsFailures /\ [Next]_vars => (TypeOK /\ LockFollowsFailures)'
  BY TypeStep, LockStep
<1> QED BY <1>1, <1>2, PTL DEF Spec

(* No step brings back a backup code of another enrollment. *)
LEMMA CurrentStep == TypeOK /\ CodesAreCurrent /\ [Next]_vars => CodesAreCurrent'
<1> SUFFICES ASSUME TypeOK, CodesAreCurrent, [Next]_vars PROVE CodesAreCurrent'
  OBVIOUS
<1>0. user \in UserRows
  BY DEF TypeOK
<1>1. ASSUME NEW r \in Request, EnrollTotp(r) PROVE CodesAreCurrent'
  <2>1. user'.secret = issued + 1
    BY <1>0, <1>1 DEF EnrollTotp, UserRows
  <2>2. issued + 1 \in 1..MaxSecrets
    BY <1>1, Bounds DEF EnrollTotp, TypeOK
  <2>3. codes' = {"backup"} \X {issued + 1} \X (1..BackupCodes)
    BY <1>1 DEF EnrollTotp
  <2> QED BY <2>1, <2>2, <2>3, Enrolled DEF CodesAreCurrent
<1>2. ASSUME NEW r \in Request, DisableTotp(r) PROVE CodesAreCurrent'
  BY <1>2 DEF DisableTotp, CodesAreCurrent
<1>3. CASE user'.secret = user.secret /\ codes' \subseteq codes
  BY <1>3 DEF CodesAreCurrent
<1>4. ASSUME NEW r \in Request, RecordFailure(r) \/ ConfirmTotp(r) \/ RecordSuccess(r)
      PROVE  user'.secret = user.secret /\ codes' \subseteq codes
  BY <1>0, <1>4 DEF RecordFailure, ConfirmTotp, RecordSuccess, UserRows
<1>5. \/ user' = user /\ codes' \subseteq codes
      \/ \E r \in Request : \/ RecordFailure(r) \/ RecordSuccess(r) \/ DisableTotp(r)
                            \/ EnrollTotp(r) \/ ConfirmTotp(r)
  BY DEF vars, Next, Tick, HandlerStep, LoginRead, EnrollRead, VerifyRead, SecondFactorRead,
         BackupSelect, BackupConsume, RevokeAll, MintPair, Abort
<1> QED BY <1>1, <1>2, <1>3, <1>4, <1>5

(* No backup code outlives the enrollment that issued it (enroll_totp,     *)
(* disable_totp).                                                          *)
THEOREM CodesAlwaysCurrent == Spec => []CodesAreCurrent
<1>1. Init => TypeOK /\ CodesAreCurrent
  BY InitInv DEF TwoFactorInv
<1>2. TypeOK /\ CodesAreCurrent /\ [Next]_vars => (TypeOK /\ CodesAreCurrent)'
  BY TypeStep, CurrentStep
<1> QED BY <1>1, <1>2, PTL DEF Spec

-----------------------------------------------------------------------------
(* The parts of the invariant that follow a backup code. *)
CodeInv == SpentOnce /\ NotBeforeIssue /\ VerifyCarriesTotp

(* A handler that carries the code it had and takes none, or drops it. *)
Carries(r) ==
  /\ req'[r].code \in BackupCode => req'[r].code = req[r].code
  /\ \A c \in BackupCode : Holds(r, c)' => Holds(r, c)
  /\ req'[r].code \in BackupCode
       => ~(req'[r].pc = "confirm" \/ (req'[r].pc = "revoke" /\ req'[r].op # "disable"))

(* The others do not move. *)
Others(r) == \A q \in Request \ {r} : req'[q] = req[q]

(* A step that takes no backup code and completes with none keeps CodeInv. *)
LEMMA QuietStep ==
  ASSUME TypeOK, CodeInv, NEW r \in Request, Carries(r), Others(r),
         codes' \subseteq codes, UNCHANGED <<issued, accepted>>
  PROVE  CodeInv'
<1>1. \A q \in Request, c \in BackupCode : Holds(q, c)' => Holds(q, c)
  BY DEF Carries, Others, Holds
<1>2. SpentOnce'
  BY <1>1 DEF CodeInv, SpentOnce
<1>3. NotBeforeIssue'
  BY DEF CodeInv, NotBeforeIssue, Carries, Others
<1>4. VerifyCarriesTotp'
  BY DEF CodeInv, VerifyCarriesTotp, Carries, Others
<1> QED BY <1>2, <1>3, <1>4 DEF CodeInv

(* What Goto, Return and Fail leave of the handler that moves. *)
LEMMA Moves ==
  ASSUME TypeOK, NEW r \in Request
  PROVE  /\ \A pc : Goto(r, pc) => /\ Others(r)
                                   /\ req'[r].pc = pc /\ req'[r].op = req[r].op
                                   /\ req'[r].code = req[r].code
         /\ Return(r) \/ Fail(r) => /\ Others(r) /\ req'[r].code = WrongCode
<1>0. req \in [Request -> Handlers] /\ req[r] \in Handlers
  BY DEF TypeOK
<1>1. ASSUME NEW pc, Goto(r, pc)
      PROVE  /\ Others(r) /\ req'[r].pc = pc /\ req'[r].op = req[r].op
             /\ req'[r].code = req[r].code
  BY <1>0, <1>1 DEF Goto, Others, Handlers
<1>2. Return(r) => Others(r) /\ req'[r].code = WrongCode
  BY <1>0 DEF Return, Others, NoRequest
<1>3. Fail(r) => Others(r) /\ req'[r].code = WrongCode
  BY <1>0 DEF Fail, Others, NoRequest
<1> QED BY <1>1, <1>2, <1>3

(* A handler without a backup code carries none. *)
LEMMA CarriesNone ==
  ASSUME NEW r \in Request, req'[r].code \notin BackupCode
  PROVE  Carries(r)
BY DEF Carries, Holds

(* A handler reaches disable_totp only on behalf of a disable request. *)
LEMMA DisableStep == TypeOK /\ OnlyDisableDisables /\ [Next]_vars => OnlyDisableDisables'
<1> SUFFICES ASSUME TypeOK, OnlyDisableDisables, [Next]_vars PROVE OnlyDisableDisables'
  OBVIOUS
<1>h. req \in [Request -> Handlers]
  BY DEF TypeOK
<1>1. CASE UNCHANGED req
  BY <1>1 DEF OnlyDisableDisables
<1>2. ASSUME NEW r \in Request, Others(r), req'[r].pc = "disable" => req'[r].op = "disable"
      PROVE  OnlyDisableDisables'
  BY <1>2 DEF OnlyDisableDisables, Others
<1>3. ASSUME NEW r \in Request, Return(r) \/ Fail(r) PROVE OnlyDisableDisables'
  <2>1. Return(r) => Others(r) /\ req'[r].pc = "idle"
    BY <1>h DEF Return, Others, NoRequest
  <2>2. Fail(r) => Others(r) /\ req'[r].pc = "fail"
    BY <1>h DEF Fail, Others, NoRequest
  <2> QED BY <2>1, <2>2, <1>2, <1>3
<1>4. ASSUME NEW r \in Request, NEW pc, Goto(r, pc), pc = "disable" => req[r].op = "disable"
      PROVE  OnlyDisableDisables'
  <2>1. Others(r) /\ req'[r].pc = pc /\ req'[r].op = req[r].op
    BY <1>4, Moves
  <2> QED BY <1>2, <1>4, <2>1
<1>5. ASSUME NEW r \in Request, HandlerStep(r) PROVE OnlyDisableDisables'
  <2>1. CASE LoginRead(r) \/ EnrollRead(r)
    <3>1. UNCHANGED req \/ (Others(r) /\ req'[r].pc # "disable")
      BY <1>h, <2>1 DEF LoginRead, EnrollRead, Others, NoRequest
    <3> QED BY <1>1, <1>2, <3>1
  <2>2. ASSUME NEW c \in Code, VerifyRead(r, c) PROVE OnlyDisableDisables'
    <3>1. Others(r) /\ req'[r].pc # "disable"
      BY <1>h, <2>2 DEF VerifyRead, Others, NoRequest
    <3> QED BY <1>2, <3>1
  <2>3. ASSUME NEW c \in Code, NEW op \in {"challenge", "disable"}, SecondFactorRead(r, c, op)
        PROVE  OnlyDisableDisables'
    <3>1. Others(r) /\ (req'[r].pc = "disable" => req'[r].op = "disable")
      BY <1>h, <2>3 DEF SecondFactorRead, Others, Proceed
    <3> QED BY <1>2, <3>1
  <2>4. CASE BackupSelect(r) \/ BackupConsume(r) \/ ConfirmTotp(r) \/ RevokeAll(r)
             \/ RecordSuccess(r) \/ DisableTotp(r)
    <3>1. Return(r) \/ Fail(r) \/ \E pc : Goto(r, pc) /\ (pc = "disable" => req[r].op = "disable")
      <4>1. Proceed(req[r].op) = "disable" => req[r].op = "disable"
        BY DEF Proceed
      <4> QED BY <2>4, <4>1 DEF BackupSelect, BackupConsume, ConfirmTotp, RevokeAll,
                                RecordSuccess, DisableTotp
    <3> QED BY <3>1, <1>3, <1>4
  <2>5. CASE EnrollTotp(r) \/ RecordFailure(r) \/ MintPair(r) \/ Abort(r)
    BY <2>5, <1>3 DEF EnrollTotp, RecordFailure, MintPair, Abort
  <2> QED BY <1>5, <2>1, <2>2, <2>3, <2>4, <2>5 DEF HandlerStep
<1> QED BY <1>1, <1>5 DEF Next, Tick, vars

(* No step lets two handlers complete with one backup code. *)
LEMMA CodeStep == TypeOK /\ OnlyDisableDisables /\ CodeInv /\ [Next]_vars => CodeInv'
<1> SUFFICES ASSUME TypeOK, OnlyDisableDisables, CodeInv, [Next]_vars PROVE CodeInv'
  OBVIOUS
<1>w. WrongCode \notin BackupCode
  BY CodeShape
<1>h. req \in [Request -> Handlers]
  BY DEF TypeOK
<1>1. CASE UNCHANGED <<codes, req, issued, accepted>>
  BY <1>1 DEF CodeInv, SpentOnce, NotBeforeIssue, VerifyCarriesTotp, Holds
<1>2. ASSUME NEW r \in Request, HandlerStep(r) PROVE CodeInv'
  <2>r. ASSUME Return(r) \/ Fail(r) PROVE Carries(r) /\ Others(r)
    BY <2>r, <1>w, Moves, CarriesNone
  <2>1. CASE LoginRead(r)
    <3>1. CASE UNCHANGED req
      BY <2>1, <3>1, <1>1 DEF LoginRead
    <3>2. CASE req' = [req EXCEPT ![r] = [NoRequest EXCEPT !.pc = "mint", !.op = "login"]]
      <4>1. req'[r].code \notin BackupCode /\ Others(r)
        BY <1>h, <1>w, <3>2 DEF NoRequest, Others
      <4> QED BY <2>1, <4>1, CarriesNone, QuietStep DEF LoginRead
    <3> QED BY <2>1, <3>1, <3>2 DEF LoginRead
  <2>2. CASE EnrollRead(r)
    <3>1. req'[r].code \notin BackupCode /\ Others(r)
      BY <1>h, <1>w, <2>2 DEF EnrollRead, NoRequest, Others
    <3> QED BY <2>2, <3>1, CarriesNone, QuietStep DEF EnrollRead
  <2>3. CASE EnrollTotp(r)
    <3>1. Carries(r) /\ Others(r)
      BY <2>3, <2>r DEF EnrollTotp
    <3>2. issued \in Nat /\ issued' = issued + 1 /\ accepted' = accepted
          /\ issued + 1 \in 1..MaxSecrets
      BY <2>3, Bounds DEF EnrollTotp, TypeOK
    <3>3. \A c \in codes' : c[2] = issued + 1 /\ c \in BackupCode
      BY <2>3, <3>2, Enrolled DEF EnrollTotp
    <3>4. \A q \in Request, c \in BackupCode : Holds(q, c)' => Holds(q, c)
      BY <3>1 DEF Carries, Others, Holds
    <3>5. \A q \in Request, c \in BackupCode : Holds(q, c) => c[2] <= issued
      BY DEF CodeInv, NotBeforeIssue, Holds
    <3>6. \A c \in BackupCode : c[2] \in Nat
      BY CodeShape, Bounds
    <3>7. \A c \in codes' : accepted[c] = 0
      BY <3>2, <3>3 DEF CodeInv, NotBeforeIssue
    <3>8. \A q \in Request, c \in BackupCode : Holds(q, c) => c \notin codes'
      BY <3>2, <3>3, <3>5
    <3>9. SpentOnce'
      BY <3>2, <3>4, <3>7, <3>8 DEF CodeInv, SpentOnce
    <3>10. NotBeforeIssue'
      <4>1. \A c \in BackupCode : c[2] > issued + 1 => accepted[c] = 0 /\ c \notin codes'
        BY <3>2, <3>3, <3>6 DEF CodeInv, NotBeforeIssue
      <4>2. \A q \in Request : req'[q].code \in BackupCode
              => req[q].code = req'[q].code /\ req[q].code[2] <= issued
        BY <3>1 DEF Carries, Others, CodeInv, NotBeforeIssue
      <4>3. \A q \in Request : req'[q].code \in BackupCode => req'[q].code[2] <= issued + 1
        BY <4>2, <3>2, <3>6
      <4> QED BY <4>1, <4>3, <3>2 DEF NotBeforeIssue
    <3>11. VerifyCarriesTotp'
      BY <3>1 DEF CodeInv, VerifyCarriesTotp, Carries, Others
    <3> QED BY <3>9, <3>10, <3>11 DEF CodeInv
  <2>4. ASSUME NEW c \in Code, VerifyRead(r, c) PROVE CodeInv'
    <3>1. VerifyCode(user.secret, user.last, c) => c \notin BackupCode
      BY CodeShape DEF VerifyCode
    <3>2. req'[r].code \notin BackupCode /\ Others(r)
      BY <1>h, <1>w, <2>4, <3>1 DEF VerifyRead, NoRequest, Others
    <3> QED BY <2>4, <3>2, CarriesNone, QuietStep DEF VerifyRead
  <2>5. ASSUME NEW c \in Code, Known(c), NEW op \in {"challenge", "disable"},
               SecondFactorRead(r, c, op)
        PROVE  CodeInv'
    <3>1. CASE VerifyCode(user.secret, user.last, c)
      <4>1. c \notin BackupCode
        BY CodeShape, <3>1 DEF VerifyCode
      <4>2. req'[r].code \notin BackupCode /\ Others(r)
        BY <1>h, <2>5, <3>1, <4>1 DEF SecondFactorRead, Others
      <4> QED BY <2>5, <4>2, CarriesNone, QuietStep DEF SecondFactorRead
    <3>2. CASE ~VerifyCode(user.secret, user.last, c)
      <4>1. /\ req'[r].pc = "backup" /\ Others(r)
            /\ req'[r].code = IF c \in BackupCode THEN c ELSE WrongCode
        BY <1>h, <2>5, <3>2 DEF SecondFactorRead, Others
      <4>2. req'[r].code \in BackupCode => req'[r].code[2] <= issued
        BY <4>1, <1>w, <2>5 DEF Known
      <4>3. UNCHANGED <<codes, issued, accepted>>
        BY <2>5 DEF SecondFactorRead
      <4>4. \A q \in Request, d \in BackupCode : Holds(q, d)' => Holds(q, d)
        BY <4>1 DEF Others, Holds
      <4>5. SpentOnce'
        BY <4>3, <4>4 DEF CodeInv, SpentOnce
      <4>6. NotBeforeIssue'
        BY <4>1, <4>2, <4>3 DEF CodeInv, NotBeforeIssue, Others
      <4>7. VerifyCarriesTotp'
        BY <4>1 DEF CodeInv, VerifyCarriesTotp, Others
      <4> QED BY <4>5, <4>6, <4>7 DEF CodeInv
    <3> QED BY <3>1, <3>2
  <2>6. CASE BackupSelect(r)
    <3>1. Goto(r, "consume") => Carries(r) /\ Others(r)
      BY Moves DEF Carries, Holds
    <3> QED BY <2>6, <2>r, <3>1, QuietStep DEF BackupSelect
  <2>7. CASE BackupConsume(r)
    <3>1. CASE req[r].code \notin codes
      BY <2>7, <3>1, <2>r, QuietStep DEF BackupConsume
    <3>2. CASE req[r].code \in codes
      <4> DEFINE k == req[r].code
      <4>1. k \in BackupCode /\ accepted[k] = 0 /\ \A q \in Request : ~Holds(q, k)
        BY <3>2 DEF TypeOK, CodeInv, SpentOnce
      <4>2. codes' = codes \ {k} /\ UNCHANGED <<issued, accepted>>
        BY <2>7 DEF BackupConsume
      <4>3. Others(r) /\ req'[r].code = k /\ req'[r].pc \in {"disable", "success"}
        BY <2>7, <3>2, Moves DEF BackupConsume, Proceed
      <4>4. \A q \in Request, c \in BackupCode : Holds(q, c)' => Holds(q, c) \/ (q = r /\ c = k)
        BY <4>3 DEF Holds, Others
      <4> HIDE DEF k
      <4>5. SpentOnce'
        BY <4>1, <4>2, <4>4 DEF CodeInv, SpentOnce
      <4>6. NotBeforeIssue'
        BY <4>2, <4>3 DEF CodeInv, NotBeforeIssue, Others, k
      <4>7. VerifyCarriesTotp'
        BY <4>3 DEF CodeInv, VerifyCarriesTotp, Others
      <4> QED BY <4>5, <4>6, <4>7 DEF CodeInv
    <3> QED BY <3>1, <3>2
  <2>8. CASE RecordFailure(r)
    BY <2>8, <2>r, QuietStep DEF RecordFailure
  <2>9. CASE ConfirmTotp(r)
    <3>1. req[r].code \notin BackupCode
      BY <2>9 DEF ConfirmTotp, At, CodeInv, VerifyCarriesTotp
    <3> QED BY <2>9, <3>1, Moves, CarriesNone, QuietStep DEF ConfirmTotp
  <2>10. CASE RevokeAll(r)
    <3>1. CASE req[r].op = "disable"
      BY <2>10, <3>1, <2>r, QuietStep DEF RevokeAll
    <3>2. CASE req[r].op # "disable"
      <4>1. req[r].code \notin BackupCode
        BY <2>10, <3>2 DEF RevokeAll, At, CodeInv, VerifyCarriesTotp
      <4> QED BY <2>10, <3>2, <4>1, Moves, CarriesNone, QuietStep DEF RevokeAll
    <3> QED BY <3>1, <3>2
  <2>11. CASE RecordSuccess(r)
    <3>1. Carries(r) /\ Others(r)
      BY <2>11, Moves DEF RecordSuccess, At, Carries, Holds
    <3> QED BY <2>11, <3>1, QuietStep DEF RecordSuccess
  <2>12. ASSUME req[r].pc \in {"mint", "disable"}, Accept(req[r].code), Others(r),
                req'[r].pc = "revoke" => req'[r].op = "disable",
                \A c \in BackupCode : ~Holds(r, c)', req'[r].pc # "confirm",
                req'[r].code \in BackupCode => req'[r].code = req[r].code,
                codes' \subseteq codes, issued' = issued
         PROVE  CodeInv'
    <3> DEFINE k == req[r].code
    <3>1. k \in BackupCode => Holds(r, k)
      BY <2>12 DEF Holds
    <3>2. \A c \in BackupCode : c # k => accepted'[c] = accepted[c]
      BY <2>12 DEF Accept, TypeOK
    <3>3. k \in BackupCode => accepted[k] = 0 /\ accepted'[k] = 1 /\ k \notin codes
                              /\ \A q \in Request : Holds(q, k) => q = r
      BY <2>12, <3>1 DEF Accept, TypeOK, CodeInv, SpentOnce
    <3>4. \A q \in Request, c \in BackupCode : Holds(q, c)' => Holds(q, c) /\ q # r
      BY <2>12 DEF Holds, Others
    <3>5. k \in BackupCode => k[2] <= issued
      BY DEF CodeInv, NotBeforeIssue
    <3>6. \A c \in BackupCode : c[2] \in Nat
      BY CodeShape, Bounds
    <3> HIDE DEF k
    <3>7. SpentOnce'
      <4> SUFFICES ASSUME NEW c \in BackupCode
                   PROVE  /\ c \in codes' => accepted'[c] = 0
                          /\ accepted'[c] <= 1
                          /\ \A q \in Request : Holds(q, c)' => c \notin codes' /\ accepted'[c] = 0
                          /\ \A p, q \in Request : Holds(p, c)' /\ Holds(q, c)' => p = q
        BY DEF SpentOnce
      <4>1. CASE c = k
        BY <2>12, <3>3, <3>4, <4>1
      <4>2. CASE c # k
        BY <2>12, <3>2, <3>4, <4>2 DEF CodeInv, SpentOnce
      <4> QED BY <4>1, <4>2
    <3>8. NotBeforeIssue'
      <4>1. \A c \in BackupCode : c[2] > issued => accepted'[c] = 0 /\ c \notin codes'
        <5> SUFFICES ASSUME NEW c \in BackupCode, c[2] > issued
                     PROVE  accepted'[c] = 0 /\ c \notin codes'
          OBVIOUS
        <5>1. issued \in Nat
          BY Bounds DEF TypeOK
        <5>2. c # k
          BY <3>5, <3>6, <5>1
        <5> QED BY <5>2, <3>2, <2>12 DEF CodeInv, NotBeforeIssue
      <4>2. \A q \in Request : req'[q].code \in BackupCode => req'[q].code[2] <= issued
        BY <2>12 DEF CodeInv, NotBeforeIssue, Others
      <4> QED BY <4>1, <4>2, <2>12 DEF NotBeforeIssue
    <3>9. VerifyCarriesTotp'
      BY <2>12 DEF CodeInv, VerifyCarriesTotp, Others
    <3> QED BY <3>7, <3>8, <3>9 DEF CodeInv
  <2>13. CASE MintPair(r)
    <3>1. Carries(r) /\ Others(r) /\ req'[r].code \notin BackupCode
      BY <2>13, <2>r, <1>w, Moves DEF MintPair
    <3>2. req'[r].pc = "idle"
      BY <2>13, <1>h DEF MintPair, Return, NoRequest
    <3>3. CASE req[r].op = "login"
      BY <2>13, <3>1, <3>3, QuietStep DEF MintPair
    <3>4. CASE req[r].op # "login"
      BY <2>12, <2>13, <3>1, <3>2, <3>4 DEF MintPair, At, Holds
    <3> QED BY <3>3, <3>4
  <2>14. CASE DisableTotp(r)
    <3>1. Others(r) /\ req'[r].pc = "revoke" /\ req'[r].code = req[r].code
          /\ req'[r].op = "disable"
      BY <2>14, Moves DEF DisableTotp, At, OnlyDisableDisables
    <3> QED BY <2>12, <2>14, <3>1 DEF DisableTotp, At, Holds
  <2>15. CASE Abort(r)
    BY <2>15, <2>r, QuietStep DEF Abort
  <2> QED BY <1>2, <2>1, <2>2, <2>3, <2>4, <2>5, <2>6, <2>7, <2>8, <2>9, <2>10, <2>11, <2>13,
             <2>14, <2>15 DEF HandlerStep
<1>3. CASE Tick
  BY <1>1, <1>3 DEF Tick
<1>4. CASE UNCHANGED vars
  BY <1>1, <1>4 DEF vars
<1> QED BY <1>2, <1>3, <1>4 DEF Next

(* However many requests present a backup code at once, at most one        *)
(* completes a challenge or a disable with it (consume_backup_code).       *)
THEOREM BackupCodeSpentOnce == Spec => []BackupCodeOnce
<1>1. Init => TypeOK /\ OnlyDisableDisables /\ CodeInv
  BY InitInv DEF TwoFactorInv, CodeInv
<1>2. TypeOK /\ OnlyDisableDisables /\ CodeInv /\ [Next]_vars
        => (TypeOK /\ OnlyDisableDisables /\ CodeInv)'
  BY TypeStep, DisableStep, CodeStep
<1>3. TypeOK /\ CodeInv => BackupCodeOnce
  BY DEF CodeInv, SpentOnce, BackupCodeOnce
<1> QED BY <1>1, <1>2, <1>3, PTL DEF Spec

(***************************************************************************)
(* Sessions opened with the password alone meet a confirmed second factor   *)
(* only between confirm_totp and revoke_all_for_user of a verify.           *)
(***************************************************************************)
PasswordInv ==
  /\ \A r \in Request : At(r, "confirm") => req[r].op = "verify"
  /\ NoPasswordSession

Revoking(r) == req[r].pc = "revoke" /\ req[r].op = "verify"

(* A step of a request that does not leave the revocation of a verify keeps the invariant if it
   confirms nothing and opens no session with the password. *)
LEMMA BystanderStep ==
  ASSUME PasswordInv, NEW r \in Request, \A q \in Request \ {r} : req'[q] = req[q],
         req'[r].pc = "confirm" => req'[r].op = "verify",
         ~Revoking(r) \/ Revoking(r)',
         user'.confirmed => user.confirmed,
         "password" \in sessions' => "password" \in sessions
  PROVE  PasswordInv'
<1>1. \A q \in Request : At(q, "confirm")' => req'[q].op = "verify"
  BY DEF PasswordInv, At
<1>2. NoPasswordSession'
  <2> SUFFICES ASSUME user.confirmed, "password" \in sessions PROVE \E q \in Request : Revoking(q)'
    BY DEF NoPasswordSession, Revoking, At
  <2>1. PICK q \in Request : Revoking(q)
    BY DEF PasswordInv, NoPasswordSession, Revoking, At
  <2>2. Revoking(q)'
    BY <2>1 DEF Revoking
  <2> QED BY <2>2
<1> QED BY <1>1, <1>2 DEF PasswordInv

(* What Goto, Return and Fail make of the operation under way. *)
LEMMA MovesOp ==
  ASSUME TypeOK, NEW r \in Request
  PROVE  /\ \A pc : Goto(r, pc) => /\ req'[r].pc = pc /\ req'[r].op = req[r].op
                                   /\ \A q \in Request \ {r} : req'[q] = req[q]
         /\ Return(r) => /\ req'[r].pc = "idle" /\ req'[r].op = "none"
                         /\ \A q \in Request \ {r} : req'[q] = req[q]
         /\ Fail(r) => /\ req'[r].pc = "fail" /\ req'[r].op = req[r].op
                       /\ \A q \in Request \ {r} : req'[q] = req[q]
<1>0. req \in [Request -> Handlers] /\ req[r] \in Handlers
  BY DEF TypeOK
<1>1. Return(r) => /\ req'[r].pc = "idle" /\ req'[r].op = "none"
                   /\ \A q \in Request \ {r} : req'[q] = req[q]
  BY <1>0 DEF Return, NoRequest
<1>2. Fail(r) => /\ req'[r].pc = "fail" /\ req'[r].op = req[r].op
                 /\ \A q \in Request \ {r} : req'[q] = req[q]
  BY <1>0 DEF Fail, NoRequest
<1>3. \A pc : Goto(r, pc) => \A q \in Request \ {r} : req'[q] = req[q]
  BY <1>0 DEF Goto
<1>4. QED
  BY <1>1, <1>2, <1>3, Moves

(* The sessions a revocation that does not happen leaves are none of the password's. *)
LEMMA SparedIsNamed == "password" \notin Spared
BY DEF Spared

(* Every step keeps it, action by action. *)
LEMMA PasswordStep ==
  ASSUME TypeOK, PasswordInv, [Next]_vars
  PROVE  PasswordInv'
<1>0. req \in [Request -> Handlers] /\ user \in UserRows
  BY DEF TypeOK
<1>1. CASE UNCHANGED vars \/ Tick
  BY <1>1 DEF vars, Tick, PasswordInv, NoPasswordSession, At
<1>2. ASSUME NEW r \in Request, HandlerStep(r) PROVE PasswordInv'
  <2>1. CASE LoginRead(r) \/ EnrollRead(r)
    <3>1. /\ ~Revoking(r) /\ user' = user /\ sessions' = sessions
          /\ req'[r].pc # "confirm" /\ \A q \in Request \ {r} : req'[q] = req[q]
      BY <1>0, <2>1 DEF LoginRead, EnrollRead, At, NoRequest, Revoking
    <3> QED BY <3>1, BystanderStep
  <2>2. CASE \E c \in Code : \/ VerifyRead(r, c) \/ SecondFactorRead(r, c, "challenge")
                             \/ SecondFactorRead(r, c, "disable")
    <3>1. ~Revoking(r) /\ user' = user /\ sessions' = sessions
      BY <2>2 DEF VerifyRead, SecondFactorRead, At, Revoking
    <3>2. ASSUME NEW c \in Code, VerifyRead(r, c)
          PROVE  req'[r].op = "verify" /\ \A q \in Request \ {r} : req'[q] = req[q]
      BY <1>0, <3>2 DEF VerifyRead, NoRequest
    <3>3. ASSUME NEW c \in Code, NEW op \in {"challenge", "disable"}, SecondFactorRead(r, c, op)
          PROVE  req'[r].pc # "confirm" /\ \A q \in Request \ {r} : req'[q] = req[q]
      BY <1>0, <3>3 DEF SecondFactorRead, Proceed
    <3>4. /\ req'[r].pc = "confirm" => req'[r].op = "verify"
          /\ \A q \in Request \ {r} : req'[q] = req[q]
      BY <2>2, <3>2, <3>3
    <3> QED BY <3>1, <3>4, BystanderStep
  <2>3. CASE BackupSelect(r) \/ BackupConsume(r)
    <3>1. ~Revoking(r) /\ user' = user /\ sessions' = sessions
      BY <2>3 DEF BackupSelect, BackupConsume, At, Revoking
    <3>2. req'[r].pc # "confirm" /\ \A q \in Request \ {r} : req'[q] = req[q]
      BY <2>3, MovesOp DEF BackupSelect, BackupConsume, Proceed
    <3> QED BY <3>1, <3>2, BystanderStep
  <2>4. CASE EnrollTotp(r) \/ RecordFailure(r)
    <3>1. ~Revoking(r) /\ sessions' = sessions /\ (user'.confirmed => user.confirmed)
      BY <1>0, <2>4 DEF EnrollTotp, RecordFailure, At, UserRows, Revoking
    <3>2. req'[r].pc = "idle" /\ \A q \in Request \ {r} : req'[q] = req[q]
      BY <2>4, MovesOp DEF EnrollTotp, RecordFailure
    <3> QED BY <3>1, <3>2, BystanderStep
  <2>5. CASE ConfirmTotp(r)
    <3>1. /\ req'[r].pc = "revoke" /\ req'[r].op = req[r].op /\ req[r].pc = "confirm"
          /\ \A q \in Request \ {r} : req'[q] = req[q]
      BY <2>5, MovesOp DEF ConfirmTotp, At
    <3>2. req[r].op = "verify"
      BY <3>1 DEF PasswordInv, At
    <3> QED BY <3>1, <3>2 DEF PasswordInv, NoPasswordSession, At
  <2>6. CASE RevokeAll(r)
    <3>1. user' = user /\ req[r].pc = "revoke"
      BY <2>6 DEF RevokeAll, At
    <3>2. req'[r].pc \in {"idle", "success"} /\ \A q \in Request \ {r} : req'[q] = req[q]
      BY <2>6, MovesOp DEF RevokeAll
    <3>3. CASE "password" \notin sessions'
      BY <3>2, <3>3 DEF PasswordInv, NoPasswordSession, At
    <3>4. CASE "password" \in sessions'
      <4>1. req[r].op # "verify" /\ sessions' = sessions
        BY <2>6, <3>4, SparedIsNamed DEF RevokeAll, NotRevoked
      <4> QED BY <3>1, <3>2, <4>1, BystanderStep DEF Revoking
    <3> QED BY <3>3, <3>4
  <2>7. CASE RecordSuccess(r)
    <3>1. ~Revoking(r) /\ sessions' = sessions /\ (user'.confirmed => user.confirmed)
      BY <1>0, <2>7 DEF RecordSuccess, At, UserRows, Revoking
    <3>2. req'[r].pc = "mint" /\ \A q \in Request \ {r} : req'[q] = req[q]
      BY <2>7, MovesOp DEF RecordSuccess
    <3> QED BY <3>1, <3>2, BystanderStep
  <2>8. CASE MintPair(r)
    <3>1. /\ req'[r].pc = "idle" /\ user' = user /\ ~Revoking(r)
          /\ \A q \in Request \ {r} : req'[q] = req[q]
      BY <2>8, MovesOp DEF MintPair, At, Revoking
    <3>2. CASE user.confirmed
      <4>1. "password" \in sessions' => "password" \in sessions
        BY <2>8, <3>2 DEF MintPair
      <4> QED BY <3>1, <4>1, BystanderStep
    <3>3. CASE ~user.confirmed
      BY <3>1, <3>3 DEF PasswordInv, NoPasswordSession, At
    <3> QED BY <3>2, <3>3
  <2>9. CASE DisableTotp(r)
    <3>1. /\ ~user'.confirmed /\ req'[r].pc = "revoke" /\ \A q \in Request \ {r} : req'[q] = req[q]
      BY <2>9, MovesOp DEF DisableTotp
    <3> QED BY <3>1 DEF PasswordInv, NoPasswordSession, At
  <2>10. CASE Abort(r)
    <3>1. /\ user' = user /\ req'[r].pc = "idle" /\ \A q \in Request \ {r} : req'[q] = req[q]
      BY <2>10, MovesOp DEF Abort
    <3>2. CASE Revoking(r)
      <4>1. "password" \notin sessions'
        BY <2>10, <3>2, SparedIsNamed DEF Abort, NotRevoked, Revoking, At
      <4> QED BY <3>1, <4>1 DEF PasswordInv, NoPasswordSession, At
    <3>3. CASE ~Revoking(r)
      <4>1. sessions' = sessions
        BY <2>10, <3>3 DEF Abort, NotRevoked, Revoking, At
      <4> QED BY <3>1, <3>3, <4>1, BystanderStep
    <3> QED BY <3>2, <3>3
  <2> QED BY <1>2, <2>1, <2>2, <2>3, <2>4, <2>5, <2>6, <2>7, <2>8, <2>9, <2>10 DEF HandlerStep
<1> QED BY <1>1, <1>2 DEF Next

(* However many logins, enrollments, verifies and disables run at once, and whichever of them stop:  *)
(* a session opened with the password alone outlives the confirmation of the second factor only      *)
(* until the verify's revoke_all_for_user has run, or was ignored when it failed.                     *)
THEOREM PasswordSessionsEnd == Spec => []NoPasswordSession
<1>1. Init => TypeOK /\ PasswordInv
  <2> SUFFICES ASSUME Init PROVE PasswordInv
    BY InitInv DEF TwoFactorInv
  <2> QED BY DEF Init, PasswordInv, NoPasswordSession, NoRequest, At
<1>2. TypeOK /\ PasswordInv /\ [Next]_vars => (TypeOK /\ PasswordInv)'
  BY TypeStep, PasswordStep
<1>3. PasswordInv => NoPasswordSession
  BY DEF PasswordInv
<1> QED BY <1>1, <1>2, <1>3, PTL DEF Spec

(***************************************************************************)
(* Reports: the paged request list.                                         *)
(***************************************************************************)
LRow == {ListRow(e) : e \in Event}
Places == [at : Nat, id : Nat]

(* Rows and places have a second and an id. *)
LEMMA RowsArePlaced ==
  /\ \A x \in LRow \cup Places : x.at \in Nat /\ x.id \in Nat
  /\ \A x \in LRow : Place(x) \in Places /\ Place(x).at = x.at /\ Place(x).id = x.id
<1>1. \A x \in LRow : x.at \in Nat /\ x.id \in Nat
  BY ReportsAssumption DEF LRow, ListRow
<1> QED BY <1>1 DEF Places, Place

(* The order of the list: a strict one, in which rows are equal when they have one second and id. *)
LEMMA NewerIsOrder ==
  ASSUME NEW a \in LRow \cup Places, NEW b \in LRow \cup Places, NEW c \in LRow \cup Places
  PROVE  /\ ~Newer(a, a)
         /\ Newer(a, b) => ~Newer(b, a)
         /\ Newer(c, b) /\ ~Newer(c, a) => Newer(a, b)
         /\ ~Newer(a, b) /\ ~Newer(b, a) => Place(a) = Place(b)
<1>1. PICK s \in Nat, t \in Nat, u \in Nat : s = a.at /\ t = b.at /\ u = c.at
  BY RowsArePlaced
<1>2. PICK i \in Nat, j \in Nat, k \in Nat : i = a.id /\ j = b.id /\ k = c.id
  BY RowsArePlaced
<1> QED BY <1>1, <1>2 DEF Newer, Place

(* A place stands for the rows on it. *)
LEMMA NewerByPlace ==
  ASSUME NEW a \in LRow, NEW b \in LRow
  PROVE  (Newer(Place(a), b) <=> Newer(a, b)) /\ (Newer(a, Place(b)) <=> Newer(a, b))
BY RowsArePlaced DEF Newer

(* A sequence of rows in the order of the list. *)
InListOrder(s) == \A i, j \in DOMAIN s : i < j => s[i] # s[j] /\ ~Newer(s[j], s[i])

(* A page is in order.  Without a page to follow it holds all the rows, and otherwise every row
   that does not come after its last one, but for those on the last one's place. *)
LEMMA PageHolds ==
  ASSUME NEW R \in SUBSET LRow, IsFiniteSet(R), NEW limit \in Nat, NEW s \in Pages(R, limit)
  PROVE  /\ s \in Seq(R) /\ InListOrder(s) /\ Elements(s) \subseteq R
         /\ ~(Cardinality(R) > limit) => R \subseteq Elements(s)
         /\ (Cardinality(R) > limit /\ limit > 0) =>
              /\ s # <<>> /\ s[Len(s)] \in R
              /\ \A l \in R : l \in Elements(s) \/ Place(l) = Place(s[Len(s)]) \/ Newer(s[Len(s)], l)
<1> DEFINE N == Cardinality(R)
           size == IF N > limit THEN limit ELSE N
<1>1. N \in Nat
  BY FS_CardinalityType
<1>2. /\ s \in [1..size -> R]
      /\ \A i, j \in 1..size : i < j => s[i] # s[j] /\ ~Newer(s[j], s[i])
      /\ \A l \in R, i \in 1..size : Newer(l, s[i]) => \E j \in 1..size : s[j] = l
  BY DEF Pages
<1> HIDE DEF N
<1>3. size \in Nat /\ (N > limit => size = limit) /\ (~(N > limit) => size = N)
  BY <1>1
<1> HIDE DEF size
<1>4. s \in Seq(R) /\ Len(s) = size /\ DOMAIN s = 1..size
  <2>1. s \in Seq(R)
    BY <1>2, <1>3
  <2> QED BY <1>2, <1>3, <2>1, LenProperties
<1>5. InListOrder(s) /\ Elements(s) \subseteq R
  BY <1>2, <1>4 DEF InListOrder, Elements
<1>6. ASSUME ~(N > limit) PROVE R \subseteq Elements(s)
  <2> DEFINE I == 1..size
  <2>1. IsFiniteSet(I) /\ Cardinality(I) = size
    BY <1>3, FS_Interval, SMTT(20)
  <2>2. \A i, j \in I : s[i] = s[j] => i = j
    <3> SUFFICES ASSUME NEW i \in I, NEW j \in I, s[i] = s[j] PROVE i = j
      OBVIOUS
    <3>1. ~(i < j) /\ ~(j < i)
      BY <1>2
    <3> QED BY <1>3, <3>1
  <2>3. s \in [I -> R]
    BY <1>2
  <2> HIDE DEF I
  <2>4. s \in Injection(I, R)
    BY <2>2, <2>3 DEF Injection, IsInjective
  <2>5. Cardinality(I) = Cardinality(R)
    BY <1>3, <1>6, <2>1 DEF N
  <2>6. s \in Surjection(I, R)
    BY <2>1, <2>4, <2>5, FS_Injection
  <2> QED BY <1>4, <2>6 DEF Surjection, Elements, I
<1>7. ASSUME N > limit, limit > 0
      PROVE  /\ s # <<>> /\ s[Len(s)] \in R
             /\ \A l \in R : l \in Elements(s) \/ Place(l) = Place(s[Len(s)]) \/ Newer(s[Len(s)], l)
  <2>1. size \in 1..size /\ size # 0
    BY <1>3, <1>7
  <2>2. s[size] \in R /\ s # <<>>
    BY <1>2, <1>4, <2>1, EmptySeq
  <2>3. ASSUME NEW l \in R PROVE l \in Elements(s) \/ Place(l) = Place(s[size]) \/ Newer(s[size], l)
    <3>1. CASE Newer(l, s[size])
      BY <1>2, <1>4, <2>1, <3>1 DEF Elements
    <3>2. CASE ~Newer(l, s[size])
      BY <2>2, <3>2, NewerIsOrder
    <3> QED BY <3>1, <3>2
  <2> QED BY <1>4, <2>2, <2>3
<1> QED BY <1>4, <1>5, <1>6, <1>7 DEF N

(* The rows of a query: those of the events it lists, behind the cursor. *)
LEMMA RowsOfQuery ==
  ASSUME NEW q
  PROVE  /\ ListRows(q) \in SUBSET LRow /\ IsFiniteSet(ListRows(q))
         /\ \A l \in ListRows(q) : AfterCursor(q.cursor, l) /\ \E e \in Event : l = ListRow(e) /\ Listed(table, q, e)
         /\ \A e \in Event : Listed(table, q, e) /\ AfterCursor(q.cursor, ListRow(e)) => ListRow(e) \in ListRows(q)
<1>1. ListRows(q) \in SUBSET LRow
  BY DEF ListRows, LRow
<1>2. IsFiniteSet(LRow)
  <2> DEFINE of == [e \in Event |-> ListRow(e)]
  <2>1. LRow = {of[e] : e \in Event}
    BY DEF LRow
  <2> HIDE DEF of
  <2> QED BY <2>1, ReportsAssumption, ImageFinite
<1>3. IsFiniteSet(ListRows(q))
  BY <1>1, <1>2, FS_Subset
<1> QED BY <1>1, <1>3 DEF ListRows

Lists == [kind : {"list"}, caller : Caller, from : Nat, to : Nat, model : Model \cup {Unset},
          violation : BOOLEAN, limit : Nat, cursor : Places \cup {Unset}, cuts : SUBSET Places,
          items : Seq(LRow), kept : SUBSET Event, pc : {"next", "refused", "done"}]

(* A row of what a caller asked for. *)
Wanted(q, l) == \E e \in Event : ListRow(e) = l /\ InScope(q.caller, e) /\ Made[e].at \in q.from .. q.to

(* A row that was shown, or that a page may have ended beside. *)
Past(q, l) == l \in Elements(q.items) \/ Place(l) \in q.cuts

(* A walk along the pages: what was there at its start and stayed is past or still to come, after
   the cursor, and no row so far comes after the cursor. *)
Walked(q) ==
  /\ \A e \in q.kept : Listed(table, q, e)
  /\ InListOrder(q.items)
  /\ \A l \in Elements(q.items) : Wanted(q, l)
  /\ q.pc = "next" =>
       /\ q.cursor = Unset => q.items = <<>>
       /\ q.cursor # Unset => \A l \in Elements(q.items) : ~Newer(q.cursor, l)
       /\ \A e \in q.kept : Past(q, ListRow(e)) \/ AfterCursor(q.cursor, ListRow(e))
  /\ q.pc = "done" => \A e \in q.kept : Past(q, ListRow(e))

TablesOK == table \in [Table -> SUBSET Event]

ListOK == reader.kind = "list" => reader \in Lists /\ (reader.limit > 0 => Walked(reader))

(* A page appended to a walk, which a cursor parts. *)
LEMMA Appended ==
  ASSUME NEW s \in Seq(LRow), NEW t \in Seq(LRow), InListOrder(s), InListOrder(t),
         s = <<>> \/ \E k \in Places : /\ \A l \in Elements(s) : ~Newer(k, l)
                                       /\ \A l \in Elements(t) : Newer(k, l)
  PROVE  s \o t \in Seq(LRow) /\ InListOrder(s \o t) /\ Elements(s \o t) = Elements(s) \cup Elements(t)
<1> DEFINE n == Len(s)
           m == Len(t)
           u == s \o t
<1>1. n \in Nat /\ m \in Nat /\ DOMAIN s = 1..n /\ DOMAIN t = 1..m
  BY LenProperties
<1>2. u \in Seq(LRow) /\ Len(u) = n + m
      /\ \A p \in 1..(n + m) : u[p] = IF p <= n THEN s[p] ELSE t[p - n]
  BY ConcatProperties
<1>3. DOMAIN u = 1..(n + m)
  BY <1>2, LenProperties
<1>4. \A p \in 1..n : s[p] \in LRow /\ s[p] \in Elements(s)
  BY <1>1, ElementOfSeq DEF Elements
<1>5. \A p \in 1..m : t[p] \in LRow /\ t[p] \in Elements(t)
  BY <1>1, ElementOfSeq DEF Elements
<1>6. s = <<>> => n = 0
  BY EmptySeq
<1> HIDE DEF n, m, u
<1>10. InListOrder(u)
  <2> SUFFICES ASSUME NEW i \in 1..(n + m), NEW j \in 1..(n + m), i < j
               PROVE  u[i] # u[j] /\ ~Newer(u[j], u[i])
    BY <1>3 DEF InListOrder
  <2>1. CASE j <= n
    <3>1. i \in 1..n /\ j \in 1..n /\ u[i] = s[i] /\ u[j] = s[j]
      BY <1>1, <1>2, <2>1
    <3> QED BY <1>1, <3>1 DEF InListOrder
  <2>2. CASE i > n
    <3> DEFINE a == i - n
               b == j - n
    <3>1. a \in 1..m /\ b \in 1..m /\ a < b /\ ~(i <= n) /\ ~(j <= n)
      BY <1>1, <2>2
    <3>2. u[i] = t[a] /\ u[j] = t[b]
      BY <1>2, <3>1
    <3> HIDE DEF a, b
    <3> QED BY <1>1, <3>1, <3>2 DEF InListOrder
  <2>3. CASE i <= n /\ ~(j <= n)
    <3> DEFINE b == j - n
    <3>1. i \in 1..n /\ n # 0 /\ b \in 1..m
      BY <1>1, <2>3
    <3>2. u[i] = s[i] /\ u[j] = t[b]
      BY <1>2, <2>3
    <3> HIDE DEF b
    <3>3. PICK k \in Places : ~Newer(k, s[i]) /\ Newer(k, t[b])
      BY <1>4, <1>5, <1>6, <3>1
    <3>4. s[i] \in LRow /\ t[b] \in LRow
      BY <1>4, <1>5, <3>1
    <3>5. Newer(s[i], t[b])
      BY <3>3, <3>4, NewerIsOrder
    <3>6. ~Newer(t[b], s[i]) /\ s[i] # t[b]
      BY <3>4, <3>5, NewerIsOrder
    <3> QED BY <3>2, <3>6
  <2> QED BY <1>1, <2>1, <2>2, <2>3
<1>11. Elements(u) = Elements(s) \cup Elements(t)
  <2>1. ASSUME NEW p \in 1..(n + m) PROVE u[p] \in Elements(s) \cup Elements(t)
    <3>1. CASE p <= n
      <4>1. p \in 1..n /\ u[p] = s[p]
        BY <1>1, <1>2, <3>1
      <4> QED BY <1>4, <4>1
    <3>2. CASE ~(p <= n)
      <4> DEFINE a == p - n
      <4>1. a \in 1..m /\ u[p] = t[a]
        BY <1>1, <1>2, <3>2
      <4> HIDE DEF a
      <4> QED BY <1>5, <4>1
    <3> QED BY <3>1, <3>2
  <2>2. ASSUME NEW p \in 1..n PROVE s[p] \in Elements(u)
    <3>1. p \in 1..(n + m) /\ u[p] = s[p]
      BY <1>1, <1>2
    <3> QED BY <1>3, <3>1 DEF Elements
  <2>3. ASSUME NEW p \in 1..m PROVE t[p] \in Elements(u)
    <3> DEFINE a == n + p
    <3>1. a \in 1..(n + m) /\ ~(a <= n) /\ a - n = p
      BY <1>1
    <3> HIDE DEF a
    <3>2. u[a] = t[p]
      BY <1>2, <3>1
    <3> QED BY <1>3, <3>1, <3>2 DEF Elements
  <2>4. Elements(u) \subseteq Elements(s) \cup Elements(t)
    BY <1>3, <2>1 DEF Elements
  <2>5. Elements(s) \subseteq Elements(u) /\ Elements(t) \subseteq Elements(u)
    BY <1>1, <2>2, <2>3 DEF Elements
  <2> QED BY <2>4, <2>5
<1> QED BY <1>2, <1>10, <1>11 DEF u

(* A walk begins with nothing seen. *)
LEMMA WalkBegins ==
  ASSUME NEW c \in Caller, NEW asked, NEW from \in Seconds, NEW to \in Seconds, NEW m \in Model \cup {Unset},
         NEW v \in BOOLEAN, NEW n \in Limits, ListBegin(c, asked, from, to, m, v, n)
  PROVE  ListOK'
<1> DEFINE limit == IF n < MaxLimit THEN n ELSE MaxLimit
           start == IF Guarded(c, asked) /\ from >= Oldest THEN "next" ELSE "refused"
           q == [kind |-> "list", caller |-> c, from |-> from, to |-> to, model |-> m,
                 violation |-> v, limit |-> limit, cursor |-> Unset, cuts |-> {}, items |-> <<>>, kept |-> {},
                 pc |-> start]
           kept == {e \in Event : Listed(table, q, e)}
<1>1. limit \in Nat /\ start \in {"next", "refused"} /\ from \in Nat /\ to \in Nat
  BY ReportsAssumption
<1>2. reader' = [q EXCEPT !.kept = kept] /\ table' = table
  BY DEF ListBegin
<1>e. PICK none \in Seq(LRow) : none = <<>>
  BY EmptySeq
<1> HIDE DEF limit, start
<1>3. q \in Lists /\ q.pc = start /\ q.cursor = Unset /\ q.items = <<>>
  <2>1. q = [kind |-> "list", caller |-> c, from |-> from, to |-> to, model |-> m,
             violation |-> v, limit |-> limit, cursor |-> Unset, cuts |-> {}, items |-> none, kept |-> {},
             pc |-> start]
    BY <1>e
  <2>2. /\ start \in {"next", "refused", "done"} /\ {} \in SUBSET Event /\ Unset \in Places \cup {Unset}
        /\ {} \in SUBSET Places
    BY <1>1
  <2> QED BY <1>1, <1>e, <2>1, <2>2 DEF Lists
<1> HIDE DEF q
<1>4. kept \in SUBSET Event
  OBVIOUS
<1>5. \A e \in kept : Listed(table, q, e)
  OBVIOUS
<1> HIDE DEF kept
<1>6. PICK z \in Lists : z = [q EXCEPT !.kept = kept]
  BY <1>3, <1>4 DEF Lists
<1>7. /\ z.caller = q.caller /\ z.from = q.from /\ z.to = q.to /\ z.model = q.model /\ z.violation = q.violation
      /\ z.kept = kept /\ z.pc = start /\ z.cursor = Unset /\ z.items = <<>>
  BY <1>3, <1>6 DEF Lists
<1>8. \A e \in kept : Listed(table', z, e)
  BY <1>2, <1>5, <1>7 DEF Listed
<1>9. InListOrder(z.items) /\ Elements(z.items) = {}
  BY <1>7 DEF InListOrder, Elements
<1>10. Walked(z)'
  BY <1>1, <1>7, <1>8, <1>9 DEF Walked, AfterCursor
<1>11. reader' = z
  BY <1>2, <1>6
<1> QED BY <1>10, <1>11 DEF ListOK

(* A page more: the walk goes on behind it, or ends with everything past. *)
LEMMA WalkGoesOn ==
  ASSUME TablesOK, ListOK, list_requests
  PROVE  ListOK' /\ reader'.kind = "list"
<1>1. PICK q \in Lists : q = reader
  BY DEF ListOK, list_requests
<1>2. /\ q.pc = "next" /\ table' = table /\ q.limit \in Nat /\ q.items \in Seq(LRow)
      /\ q.cursor \in Places \cup {Unset} /\ q.cuts \subseteq Places /\ q.kept \subseteq Event
  BY <1>1 DEF list_requests, Lists
<1> DEFINE R == ListRows(q)
<1>3. PICK page \in Pages(R, q.limit) :
        reader' = IF Cardinality(R) > q.limit /\ page # <<>>
                  THEN [q EXCEPT !.items = @ \o page, !.cursor = Place(page[Len(page)]),
                                 !.cuts = @ \cup {Place(page[Len(page)])}]
                  ELSE [q EXCEPT !.items = @ \o page, !.cursor = Unset, !.pc = "done"]
  BY <1>1 DEF list_requests
<1>4. /\ R \in SUBSET LRow /\ IsFiniteSet(R)
      /\ \A l \in R : AfterCursor(q.cursor, l) /\ \E e \in Event : l = ListRow(e) /\ Listed(table, q, e)
      /\ \A e \in Event : Listed(table, q, e) /\ AfterCursor(q.cursor, ListRow(e)) => ListRow(e) \in R
  BY RowsOfQuery
<1> HIDE DEF R
<1>5. /\ page \in Seq(R) /\ InListOrder(page) /\ Elements(page) \subseteq R
      /\ ~(Cardinality(R) > q.limit) => R \subseteq Elements(page)
      /\ (Cardinality(R) > q.limit /\ q.limit > 0) =>
           /\ page # <<>> /\ page[Len(page)] \in R
           /\ \A l \in R : \/ l \in Elements(page) \/ Place(l) = Place(page[Len(page)])
                           \/ Newer(page[Len(page)], l)
  BY <1>2, <1>3, <1>4, PageHolds
<1>6. page \in Seq(LRow) /\ q.items \o page \in Seq(LRow)
  BY <1>2, <1>4, <1>5, ConcatProperties
<1> DEFINE all == q.items \o page
           last == page[Len(page)]
<1>7. all \in Seq(LRow)
  BY <1>6
<1>8. page # <<>> => last \in LRow /\ last \in Elements(page) /\ \A l \in Elements(page) : ~Newer(last, l)
  <2> SUFFICES ASSUME page # <<>>
               PROVE  last \in LRow /\ last \in Elements(page) /\ \A l \in Elements(page) : ~Newer(last, l)
    OBVIOUS
  <2>1. PICK k \in Nat : k = Len(page)
    BY <1>6, LenProperties
  <2>2. k # 0 /\ DOMAIN page = 1..k
    BY <1>6, <2>1, LenProperties, EmptySeq
  <2>3. k \in 1..k
    BY <2>1, <2>2
  <2>4. page[k] \in LRow
    BY <1>6, <2>1, <2>3, ElementOfSeq
  <2>5. \A i \in 1..k : i = k \/ i < k
    BY <2>1
  <2>6. \A i \in 1..k : ~Newer(page[k], page[i])
    BY <1>5, <2>2, <2>3, <2>4, <2>5, NewerIsOrder DEF InListOrder
  <2> QED BY <2>1, <2>2, <2>3, <2>4, <2>6 DEF Elements
<1> HIDE DEF all, last
<1>9. ASSUME q.limit > 0
      PROVE  /\ InListOrder(all) /\ Elements(all) = Elements(q.items) \cup Elements(page)
             /\ \A l \in Elements(all) : Wanted(q, l)
             /\ \A e \in q.kept : Past(q, ListRow(e)) \/ ListRow(e) \in R
             /\ page # <<>> => \A l \in Elements(all) : ~Newer(last, l)
  <2>1. Walked(q)
    BY <1>1, <1>9 DEF ListOK, Lists
  <2>2. CASE q.cursor = Unset
    <3>1. q.items = <<>>
      BY <1>2, <2>1, <2>2 DEF Walked
    <3>2. Elements(q.items) = {}
      BY <3>1 DEF Elements
    <3>3. InListOrder(all) /\ Elements(all) = Elements(q.items) \cup Elements(page)
      BY <1>2, <1>5, <1>6, <2>1, <3>1, Appended DEF Walked, all
    <3>4. \A l \in Elements(page) : Wanted(q, l)
      BY <1>4, <1>5 DEF Wanted, Listed
    <3>5. \A e \in q.kept : Past(q, ListRow(e)) \/ ListRow(e) \in R
      BY <1>2, <1>4, <2>1 DEF Walked
    <3> QED BY <1>8, <3>2, <3>3, <3>4, <3>5
  <2>3. CASE q.cursor # Unset
    <3>1. q.cursor \in Places /\ \A l \in Elements(q.items) : ~Newer(q.cursor, l)
      BY <1>2, <2>1, <2>3 DEF Walked
    <3>2. \A l \in Elements(page) : Newer(q.cursor, l)
      BY <1>4, <1>5, <2>3 DEF AfterCursor
    <3>3. InListOrder(all) /\ Elements(all) = Elements(q.items) \cup Elements(page)
      <4>1. InListOrder(q.items)
        BY <2>1 DEF Walked
      <4> QED BY <1>2, <1>5, <1>6, <3>1, <3>2, <4>1, Appended DEF all
    <3>4. \A l \in Elements(page) : Wanted(q, l)
      BY <1>4, <1>5 DEF Wanted, Listed
    <3>5. \A e \in q.kept : Past(q, ListRow(e)) \/ ListRow(e) \in R
      BY <1>2, <1>4, <2>1 DEF Walked
    <3>6. \A l \in Elements(q.items) : Wanted(q, l)
      BY <2>1 DEF Walked
    <3>7. \A l \in Elements(q.items) : l \in LRow
      BY <1>2, ElementOfSeq, LenProperties DEF Elements
    <3>8. ASSUME page # <<>>, NEW l \in Elements(q.items) PROVE ~Newer(last, l)
      <4>1. Newer(q.cursor, last) /\ ~Newer(q.cursor, l) /\ last \in LRow /\ l \in LRow
        BY <1>8, <3>1, <3>2, <3>7, <3>8
      <4>2. Newer(l, last)
        BY <3>1, <4>1, NewerIsOrder
      <4> QED BY <4>1, <4>2, NewerIsOrder
    <3> QED BY <1>8, <3>3, <3>4, <3>5, <3>6, <3>8
  <2> QED BY <2>2, <2>3
<1>10. CASE Cardinality(R) > q.limit /\ page # <<>>
  <2> DEFINE cut == Place(last)
             cuts == q.cuts \cup {cut}
  <2>1. cut \in Places /\ cuts \in SUBSET Places
    BY <1>2, <1>8, <1>10, RowsArePlaced
  <2>2. reader' = [q EXCEPT !.items = all, !.cursor = cut, !.cuts = cuts]
    BY <1>3, <1>10 DEF all, last
  <2>3. \A l \in LRow : Newer(cut, l) <=> Newer(last, l)
    BY <1>8, <1>10, NewerByPlace
  <2>4. cut \in cuts /\ q.cuts \subseteq cuts
    OBVIOUS
  <2>c. cut = Place(last)
    OBVIOUS
  <2> HIDE DEF cut, cuts
  <2>5. PICK z \in Lists : z = [q EXCEPT !.items = all, !.cursor = cut, !.cuts = cuts]
    BY <1>7, <2>1 DEF Lists
  <2>6. /\ z.caller = q.caller /\ z.from = q.from /\ z.to = q.to /\ z.model = q.model /\ z.violation = q.violation
        /\ z.limit = q.limit /\ z.kept = q.kept /\ z.pc = "next" /\ z.cursor = cut /\ z.items = all /\ z.cuts = cuts
        /\ z.kind = "list"
    BY <1>2, <2>5 DEF Lists
  <2>7. ASSUME q.limit > 0 PROVE Walked(z)'
    <3>1. Walked(q)
      BY <1>1, <2>7 DEF ListOK, Lists
    <3>2. \A e \in z.kept : Listed(table', z, e)
      BY <1>2, <2>6, <3>1 DEF Walked, Listed
    <3>3. \A l \in Elements(z.items) : Wanted(z, l)
      BY <1>9, <2>6, <2>7 DEF Wanted
    <3>4. z.cursor # Unset
      BY <2>1, <2>6, ReportsAssumption DEF Places
    <3>5. \A l \in Elements(all) : l \in LRow
      BY <1>7, ElementOfSeq, LenProperties DEF Elements
    <3>6. \A l \in Elements(z.items) : ~Newer(z.cursor, l)
      BY <1>9, <1>10, <2>3, <2>6, <2>7, <3>5
    <3>7. ASSUME NEW e \in z.kept PROVE Past(z, ListRow(e)) \/ AfterCursor(z.cursor, ListRow(e))
      <4> DEFINE l == ListRow(e)
      <4> HIDE DEF l
      <4>1. CASE Past(q, l)
        BY <1>9, <2>4, <2>6, <2>7, <4>1 DEF Past, l
      <4>2. CASE l \in R
        <5>1. l \in Elements(page) \/ Place(l) = cut \/ Newer(last, l)
          BY <1>5, <1>10, <2>7, <2>c, <4>2 DEF last
        <5>2. l \in LRow
          BY <1>4, <4>2
        <5> QED BY <1>9, <2>3, <2>4, <2>6, <2>7, <5>1, <5>2 DEF Past, AfterCursor, l
      <4> QED BY <1>9, <2>6, <2>7, <4>1, <4>2 DEF l
    <3> QED BY <1>9, <2>6, <2>7, <3>2, <3>3, <3>4, <3>6, <3>7 DEF Walked
  <2>8. reader' = z
    BY <2>2, <2>5
  <2> QED BY <2>6, <2>7, <2>8 DEF ListOK
<1>11. CASE ~(Cardinality(R) > q.limit /\ page # <<>>)
  <2>1. reader' = [q EXCEPT !.items = all, !.cursor = Unset, !.pc = "done"]
    BY <1>3, <1>11 DEF all
  <2>2. PICK z \in Lists : z = [q EXCEPT !.items = all, !.cursor = Unset, !.pc = "done"]
    BY <1>7 DEF Lists
  <2>3. /\ z.caller = q.caller /\ z.from = q.from /\ z.to = q.to /\ z.model = q.model /\ z.violation = q.violation
        /\ z.limit = q.limit /\ z.kept = q.kept /\ z.pc = "done" /\ z.items = all /\ z.cuts = q.cuts
        /\ z.kind = "list"
    BY <2>2 DEF Lists
  <2>4. ASSUME q.limit > 0 PROVE Walked(z)'
    <3>1. Walked(q)
      BY <1>1, <2>4 DEF ListOK, Lists
    <3>2. \A e \in z.kept : Listed(table', z, e)
      BY <1>2, <2>3, <3>1 DEF Walked, Listed
    <3>3. \A l \in Elements(z.items) : Wanted(z, l)
      BY <1>9, <2>3, <2>4 DEF Wanted
    <3>4. R \subseteq Elements(page)
      BY <1>5, <1>11, <2>4
    <3>5. \A e \in z.kept : Past(z, ListRow(e))
      BY <1>9, <2>3, <2>4, <3>4 DEF Past
    <3> QED BY <1>9, <2>3, <2>4, <3>2, <3>3, <3>5 DEF Walked
  <2>5. reader' = z
    BY <2>1, <2>2
  <2> QED BY <2>3, <2>4, <2>5 DEF ListOK
<1> QED BY <1>10, <1>11

(* The walk goes on when rows come, and when rows it no longer answers for go. *)
LEMMA WalkIsDisturbed ==
  ASSUME TablesOK, ListOK, NEW raw, Tables(raw), reader.kind = "list"
  PROVE  ListOK' /\ reader'.kind = "list"
<1>1. PICK q \in Lists : q = reader
  BY DEF ListOK
<1> DEFINE kept == {e \in q.kept : Listed(raw, q, e)}
<1>2. kept \in SUBSET Event /\ kept \subseteq q.kept /\ \A e \in kept : Listed(raw, q, e)
  BY DEF Lists
<1>3. reader' = [q EXCEPT !.kept = kept] /\ table' = raw
  BY <1>1 DEF Tables
<1> HIDE DEF kept
<1>4. PICK z \in Lists : z = [q EXCEPT !.kept = kept]
  BY <1>2 DEF Lists
<1>5. /\ z.caller = q.caller /\ z.from = q.from /\ z.to = q.to /\ z.model = q.model /\ z.violation = q.violation
      /\ z.limit = q.limit /\ z.kept = kept /\ z.pc = q.pc /\ z.cursor = q.cursor /\ z.items = q.items
      /\ z.cuts = q.cuts /\ z.kind = "list"
  BY <1>4 DEF Lists
<1>6. ASSUME q.limit > 0 PROVE Walked(z)'
  <2>1. Walked(q)
    BY <1>1, <1>6 DEF ListOK, Lists
  <2>2. \A e \in kept : Listed(table', z, e)
    BY <1>2, <1>3, <1>5 DEF Listed
  <2> QED BY <1>2, <1>5, <2>1, <2>2 DEF Walked, Past, Wanted
<1>7. reader' = z
  BY <1>3, <1>4
<1> QED BY <1>5, <1>6, <1>7 DEF ListOK

(***************************************************************************)
(* Reports: the leak report.                                                *)
(***************************************************************************)

EntitiesOf(f) == [k \in DOMAIN f |-> f[k].entities]
RequestsOf(f) == [k \in DOMAIN f |-> f[k].requests]

(* Rows of a count table: finitely many, each with a number of entities. *)
CountOfEntities(R) == IsFiniteSet(R) /\ \A x \in R : x.n \in Nat

(* Grouping by any key keeps the number of entities. *)
LEMMA GroupedEntities ==
  ASSUME NEW R, CountOfEntities(R), NEW key
  PROVE  LET G == Grouped(R, key)
         IN /\ DOMAIN G = {key[x] : x \in R} /\ IsFiniteSet(DOMAIN G)
            /\ \A k \in DOMAIN G : G[k].entities \in Int
            /\ SumOver(EntitiesOf(G), DOMAIN G) = Figures(R).entities
<1> DEFINE G == Grouped(R, key)
           K == {key[x] : x \in R}
           n == [x \in R |-> x.n]
<1>1. IsFiniteSet(R) /\ \A x \in R : x.n \in Nat
  BY DEF CountOfEntities
<1>2. DOMAIN G = K /\ \A k \in K : G[k] = Figures({x \in R : key[x] = k})
  BY DEF Grouped
<1>3. IsFiniteSet(K)
  BY <1>1, ImageFinite
<1>4. \A x \in R : n[x] \in Int /\ key[x] \in K
  BY <1>1
<1> HIDE DEF G
<1>5. ASSUME NEW k \in K PROVE G[k].entities = FibreSums(n, R, key, K)[k]
  <2> DEFINE F == Fibre(R, key, k)
  <2>1. F = {x \in R : key[x] = k} /\ F \subseteq R /\ IsFiniteSet(F)
    BY <1>1, FS_Subset DEF Fibre
  <2> HIDE DEF F
  <2>2. G[k].entities = SumOver([x \in F |-> x.n], F)
    <3>1. G[k] = Figures(F)
      BY <1>2, <2>1
    <3> QED BY <3>1 DEF Figures
  <2>3. \A x \in F : [z \in F |-> z.n][x] = n[x]
    BY <2>1
  <2>4. SumOver([x \in F |-> x.n], F) = SumOver(n, F)
    BY <2>1, <2>3, SumCongruence
  <2> QED BY <2>2, <2>4 DEF FibreSums, F
<1> HIDE DEF K, n
<1>6. \A k \in K : FibreSums(n, R, key, K)[k] \in Int
  BY <1>1, <1>3, <1>4, SumFibres
<1>7. SumOver(FibreSums(n, R, key, K), K) = SumOver(n, R)
  BY <1>1, <1>3, <1>4, SumFibres
<1>8. \A k \in K : EntitiesOf(G)[k] = FibreSums(n, R, key, K)[k]
  BY <1>2, <1>5 DEF EntitiesOf
<1>9. SumOver(EntitiesOf(G), K) = SumOver(n, R)
  BY <1>3, <1>7, <1>8, SumCongruence
<1>10. SumOver(n, R) = Figures(R).entities
  BY DEF Figures, n
<1> QED BY <1>2, <1>3, <1>5, <1>6, <1>9, <1>10 DEF G, K

(* Grouping by a key counts every request id once for each key it has rows of. *)
LEMMA GroupedRequests ==
  ASSUME NEW R, CountOfEntities(R), NEW key
  PROVE  LET G == Grouped(R, key)
         IN /\ \A k \in DOMAIN G : G[k].requests \in Int
            /\ SumOver(RequestsOf(G), DOMAIN G) = Cardinality({<<x.id, key[x]>> : x \in R})
<1> DEFINE G == Grouped(R, key)
           K == {key[x] : x \in R}
           pair == [x \in R |-> <<x.id, key[x]>>]
           P == {pair[x] : x \in R}
           of == [p \in P |-> p[2]]
           one == [p \in P |-> 1]
<1>1. IsFiniteSet(R)
  BY DEF CountOfEntities
<1>2. DOMAIN G = K /\ \A k \in K : G[k] = Figures({x \in R : key[x] = k})
  BY DEF Grouped
<1>3. P = {<<x.id, key[x]>> : x \in R}
  OBVIOUS
<1>4. IsFiniteSet(K) /\ IsFiniteSet(P)
  <2> HIDE DEF pair
  <2> QED BY <1>1, ImageFinite
<1>5. \A p \in P : of[p] \in K /\ of[p] = p[2] /\ one[p] = 1 /\ one[p] \in Int
  OBVIOUS
<1> HIDE DEF G, of, one, P, pair
<1>6. ASSUME NEW k \in K PROVE G[k].requests = FibreSums(one, P, of, K)[k]
  <2> DEFINE F == Fibre(P, of, k)
             E == {y \in R : key[y] = k}
             I == {x.id : x \in E}
             id == [x \in E |-> x.id]
             with == [i \in I |-> <<i, k>>]
  <2>1. F \subseteq P /\ IsFiniteSet(F)
    BY <1>4, FS_Subset DEF Fibre
  <2>2. F = {<<x.id, k>> : x \in E}
    BY <1>3, <1>5 DEF Fibre
  <2>3. G[k].requests = Cardinality(I)
    <3>1. G[k] = Figures(E)
      BY <1>2
    <3> HIDE DEF E
    <3> QED BY <3>1 DEF Figures
  <2>4. IsFiniteSet(E) /\ I = {id[x] : x \in E}
    BY <1>1, FS_Subset
  <2>5. IsFiniteSet(I)
    <3> HIDE DEF E, I, id
    <3> QED BY <2>4, ImageFinite
  <2>6. with \in Bijection(I, F)
    <3>1. \A i \in I : with[i] = <<i, k>> /\ with[i] \in F
      BY <2>2
    <3>2. \A f \in F : \E i \in I : with[i] = f
      <4> SUFFICES ASSUME NEW f \in F PROVE \E i \in I : with[i] = f
        OBVIOUS
      <4>1. PICK x \in E : f = <<x.id, k>>
        BY <2>2
      <4>2. x.id \in I /\ with[x.id] = f
        BY <4>1
      <4> HIDE DEF I, with
      <4> QED BY <4>2
    <3>3. \A i, j \in I : with[i] = with[j] => i = j
      OBVIOUS
    <3>4. with \in [I -> F]
      BY <3>1
    <3> HIDE DEF with, I, F
    <3> QED BY <3>2, <3>3, <3>4 DEF Bijection, Injection, Surjection, IsInjective
  <2>7. Cardinality(F) = Cardinality(I)
    <3>1. ExistsBijection(I, F)
      BY <2>6 DEF ExistsBijection
    <3> HIDE DEF I, F
    <3> QED BY <2>5, <3>1, FS_Bijection
  <2> HIDE DEF F, I
  <2>8. SumOver(one, F) = Cardinality(F)
    BY <1>5, <2>1, SumOnes
  <2> QED BY <2>3, <2>7, <2>8 DEF FibreSums, F
<1> HIDE DEF K
<1>8. \A k \in K : FibreSums(one, P, of, K)[k] \in Int
  BY <1>4, <1>5, SumFibres
<1>9. SumOver(FibreSums(one, P, of, K), K) = SumOver(one, P)
  BY <1>4, <1>5, SumFibres
<1>10. SumOver(one, P) = Cardinality(P)
  BY <1>4, <1>5, SumOnes
<1>11. \A k \in K : RequestsOf(G)[k] = FibreSums(one, P, of, K)[k]
  BY <1>2, <1>6 DEF RequestsOf
<1>12. SumOver(RequestsOf(G), K) = Cardinality(P)
  BY <1>4, <1>9, <1>10, <1>11, SumCongruence
<1> QED BY <1>2, <1>3, <1>6, <1>8, <1>12 DEF G

(* Adding groups up keeps both figures. *)
LEMMA CollapseSums ==
  ASSUME NEW G, IsFiniteSet(DOMAIN G), NEW bucket,
         \A g \in DOMAIN G : G[g].entities \in Int /\ G[g].requests \in Int
  PROVE  LET C == Collapse(G, bucket)
         IN /\ DOMAIN C = {bucket[g] : g \in DOMAIN G}
            /\ SumOver(EntitiesOf(C), DOMAIN C) = SumOver(EntitiesOf(G), DOMAIN G)
            /\ SumOver(RequestsOf(C), DOMAIN C) = SumOver(RequestsOf(G), DOMAIN G)
<1> DEFINE C == Collapse(G, bucket)
           D == DOMAIN G
           K == {bucket[g] : g \in D}
           Same(k) == {g \in D : bucket[g] = k}
<1>1. DOMAIN C = K
  BY DEF Collapse
<1>2. \A k \in K : /\ C[k].entities = SumOver([g \in Same(k) |-> G[g].entities], Same(k))
                   /\ C[k].requests = SumOver([g \in Same(k) |-> G[g].requests], Same(k))
  BY DEF Collapse
<1>3. IsFiniteSet(K) /\ \A g \in D : bucket[g] \in K
  BY ImageFinite
<1>4. \A k \in K : Same(k) = Fibre(D, bucket, k) /\ Same(k) \subseteq D /\ IsFiniteSet(Same(k))
  BY FS_Subset DEF Fibre
<1>5. \A g \in D : /\ EntitiesOf(G)[g] = G[g].entities /\ RequestsOf(G)[g] = G[g].requests
                   /\ EntitiesOf(G)[g] \in Int /\ RequestsOf(G)[g] \in Int
  BY DEF EntitiesOf, RequestsOf
<1> HIDE DEF C, D, K, Same
<1>6. ASSUME NEW k \in K
      PROVE  /\ C[k].entities = FibreSums(EntitiesOf(G), D, bucket, K)[k]
             /\ C[k].requests = FibreSums(RequestsOf(G), D, bucket, K)[k]
  <2> DEFINE S == Same(k)
             e == [g \in S |-> G[g].entities]
             r == [g \in S |-> G[g].requests]
  <2>1. IsFiniteSet(S) /\ S \subseteq D
    BY <1>4
  <2>2. \A g \in S : e[g] = EntitiesOf(G)[g] /\ r[g] = RequestsOf(G)[g]
    BY <1>5, <2>1
  <2>3. C[k].entities = SumOver(e, S) /\ C[k].requests = SumOver(r, S)
    BY <1>2
  <2> HIDE DEF S, e, r
  <2>4. SumOver(e, S) = SumOver(EntitiesOf(G), S)
    BY <2>1, <2>2, SumCongruence
  <2>5. SumOver(r, S) = SumOver(RequestsOf(G), S)
    BY <2>1, <2>2, SumCongruence
  <2>6. S = Fibre(D, bucket, k)
    BY <1>4 DEF S
  <2> QED BY <2>3, <2>4, <2>5, <2>6 DEF FibreSums
<1>7. IsFiniteSet(D)
  BY DEF D
<1>8. SumOver(FibreSums(EntitiesOf(G), D, bucket, K), K) = SumOver(EntitiesOf(G), D)
  BY <1>3, <1>5, <1>7, SumFibres
<1>9. SumOver(FibreSums(RequestsOf(G), D, bucket, K), K) = SumOver(RequestsOf(G), D)
  BY <1>3, <1>5, <1>7, SumFibres
<1>10. \A k \in K : EntitiesOf(C)[k] = C[k].entities /\ RequestsOf(C)[k] = C[k].requests
  BY <1>1 DEF EntitiesOf, RequestsOf
<1>11. SumOver(EntitiesOf(C), K) = SumOver(EntitiesOf(G), D)
  BY <1>3, <1>6, <1>8, <1>10, SumCongruence
<1>12. SumOver(RequestsOf(C), K) = SumOver(RequestsOf(G), D)
  BY <1>3, <1>6, <1>9, <1>10, SumCongruence
<1> QED BY <1>1, <1>11, <1>12 DEF C, D, K

(* What is counted of one event: finitely many classes, and one at least when anything was found. *)
LEMMA CountsPerClass ==
  ASSUME NEW ev \in Event
  PROVE  LET n == per_class(Made[ev].found)
         IN /\ IsFiniteSet(DOMAIN n) /\ \A c \in DOMAIN n : n[c] \in Nat
            /\ DOMAIN n # {} <=> Made[ev].found # <<>>
<1>1. PICK found \in Seq(STRING \X STRING) : found = Made[ev].found
  BY ReportsAssumption
<1> DEFINE n == per_class(found)
           pair == [i \in DOMAIN found |-> <<canonicalize(found[i][1]), found[i][2]>>]
           pairs == {pair[i] : i \in DOMAIN found}
           class == [p \in pairs |-> p[1]]
           classes == {class[p] : p \in pairs}
<1>2. n = [c \in classes |-> Cardinality({p \in pairs : p[1] = c})]
  BY DEF per_class
<1>3. Len(found) \in Nat /\ DOMAIN found = 1..Len(found) /\ (found = <<>> <=> Len(found) = 0)
  BY LenProperties, EmptySeq
<1>4. IsFiniteSet(DOMAIN found)
  BY <1>3, FS_Interval
<1> HIDE DEF pair, n
<1>5. IsFiniteSet(pairs)
  BY <1>4, ImageFinite
<1>6. pairs # {} <=> found # <<>>
  <2>1. DOMAIN found # {} <=> found # <<>>
    <3>1. PICK k \in Nat : k = Len(found)
      BY <1>3
    <3>2. DOMAIN found = 1..k /\ (found = <<>> <=> k = 0)
      BY <1>3, <3>1
    <3>3. k # 0 => 1 \in 1..k
      OBVIOUS
    <3>4. k = 0 => \A i \in 1..k : FALSE
      OBVIOUS
    <3> QED BY <3>2, <3>3, <3>4
  <2> QED BY <2>1
<1> HIDE DEF pairs, class
<1>7. IsFiniteSet(classes) /\ (classes # {} <=> pairs # {})
  BY <1>5, ImageFinite
<1> HIDE DEF classes
<1>8. DOMAIN n = classes /\ \A c \in classes : n[c] \in Nat
  <2>1. \A c \in classes : IsFiniteSet({p \in pairs : p[1] = c})
    BY <1>5, FS_Subset
  <2>2. \A c \in classes : Cardinality({p \in pairs : p[1] = c}) \in Nat
    BY <2>1, FS_CardinalityType
  <2> QED BY <1>2, <2>2
<1> QED BY <1>1, <1>6, <1>7, <1>8 DEF n

(* Whole days: a second lies on the days of a window when it lies between its bounds. *)
LEMMA DaysAreSeconds ==
  ASSUME NEW a \in Nat, NEW from \in Nat, NEW to \in Nat
  PROVE  a \div DaySeconds \in from .. to <=>
           a >= WindowBounds(from, to).start /\ a < WindowBounds(from, to).end
<1>1. PICK D \in Nat \ {0} : D = DaySeconds
  BY ReportsAssumption
<1>2. WindowBounds(from, to).start = from * D /\ WindowBounds(from, to).end = (to + 1) * D
  BY <1>1 DEF WindowBounds
<1>3. PICK q \in Nat : q = a \div D
  OBVIOUS
<1>4. q * D <= a /\ a < (q + 1) * D
  BY <1>3
<1>5. from <= q => from * D <= q * D
  OBVIOUS
<1>6. q <= to => (q + 1) * D <= (to + 1) * D
  OBVIOUS
<1>7. from * D < (q + 1) * D => from < q + 1
  OBVIOUS
<1>8. q * D < (to + 1) * D => q < to + 1
  OBVIOUS
<1>9. PICK s \in Int, e \in Int, x \in Int, y \in Int :
        s = from * D /\ e = (to + 1) * D /\ x = q * D /\ y = (q + 1) * D
  OBVIOUS
<1>10. q \in from .. to <=> a >= s /\ a < e
  BY <1>4, <1>5, <1>6, <1>7, <1>8, <1>9
<1> QED BY <1>1, <1>2, <1>3, <1>9, <1>10

(* The rows a report counts: those of the events on its days, each with what it tells of its event. *)
LEMMA WindowRows ==
  ASSUME TablesOK, NEW q, q.from \in Nat, q.to \in Nat
  PROVE  /\ CountOfEntities(InWindow(q))
         /\ \A x \in InWindow(q) :
              x.id = Made[x.e].id /\ x.model = StoredModel(x.e) /\ x.user = Made[x.e].user
         /\ {x.e : x \in InWindow(q)} = InDays(q)
<1> DEFINE T == table["detection_class_counts"]
           classes(r) == DOMAIN per_class(Made[r].found)
           row(r, c) == [e |-> r, id |-> Made[r].id, class |-> c, n |-> per_class(Made[r].found)[c],
                         model |-> StoredModel(r), user |-> Made[r].user]
<1>1. T \subseteq Event /\ IsFiniteSet(T)
  BY ReportsAssumption, FS_Subset DEF TablesOK, Table
<1>2. \A r \in T : /\ IsFiniteSet(classes(r)) /\ \A c \in classes(r) : per_class(Made[r].found)[c] \in Nat
                   /\ classes(r) # {} <=> Made[r].found # <<>>
  BY <1>1, CountsPerClass
<1>3. \A x : x \in CountRows <=> \E r \in T : \E c \in classes(r) : x = row(r, c)
  BY DEF CountRows
<1>4. IsFiniteSet(CountRows)
  <2> DEFINE parts == [r \in T |-> {row(r, c) : c \in classes(r)}]
             all == {parts[r] : r \in T}
  <2>1. CountRows = UNION all
    <3>1. CountRows = UNION {{row(r, c) : c \in classes(r)} : r \in T}
      BY DEF CountRows
    <3>2. \A r \in T : parts[r] = {row(r, c) : c \in classes(r)}
      OBVIOUS
    <3> HIDE DEF row, classes, T, parts
    <3> QED BY <3>1, <3>2
  <2>2. ASSUME NEW r \in T PROVE IsFiniteSet(parts[r])
    <3> DEFINE of == [c \in classes(r) |-> row(r, c)]
    <3>1. parts[r] = {of[c] : c \in classes(r)}
      OBVIOUS
    <3>2. IsFiniteSet(classes(r))
      BY <1>2
    <3> HIDE DEF of, classes, parts
    <3> QED BY <3>1, <3>2, ImageFinite
  <2> HIDE DEF parts
  <2>3. IsFiniteSet(all)
    BY <1>1, ImageFinite
  <2>4. \A U \in all : IsFiniteSet(U)
    BY <2>2
  <2> HIDE DEF all
  <2> QED BY <2>1, <2>3, <2>4, FS_UNION
<1>5. \A x \in CountRows : /\ x.n \in Nat /\ x.e \in T /\ Made[x.e].found # <<>>
                           /\ x.id = Made[x.e].id /\ x.model = StoredModel(x.e) /\ x.user = Made[x.e].user
  <2> SUFFICES ASSUME NEW x \in CountRows
               PROVE  /\ x.n \in Nat /\ x.e \in T /\ Made[x.e].found # <<>>
                      /\ x.id = Made[x.e].id /\ x.model = StoredModel(x.e) /\ x.user = Made[x.e].user
    OBVIOUS
  <2>0. PICK r \in T : \E c \in classes(r) : x = row(r, c)
    BY <1>3
  <2>1. PICK c \in classes(r) : x = row(r, c)
    BY <2>0
  <2>2. /\ x.e = r /\ x.n = per_class(Made[r].found)[c] /\ x.id = Made[r].id /\ x.model = StoredModel(r)
        /\ x.user = Made[r].user
    BY <2>1
  <2>3. x.n \in Nat /\ Made[r].found # <<>>
    BY <1>2, <2>1, <2>2
  <2> QED BY <2>2, <2>3
<1>6. \A r \in T : Made[r].found # <<>> => \E x \in CountRows : x.e = r
  <2> SUFFICES ASSUME NEW r \in T, Made[r].found # <<>> PROVE \E x \in CountRows : x.e = r
    OBVIOUS
  <2>1. PICK c \in classes(r) : TRUE
    BY <1>2
  <2>2. row(r, c) \in CountRows /\ row(r, c).e = r
    BY <1>3
  <2> QED BY <2>2
<1> HIDE DEF T, classes, row
<1>7. \A r \in T : Scope(q, r) <=> Made[r].ws = q.caller.ws /\ Made[r].at \div DaySeconds \in q.from .. q.to
  <2> SUFFICES ASSUME NEW r \in T
               PROVE  Scope(q, r) <=> Made[r].ws = q.caller.ws /\ Made[r].at \div DaySeconds \in q.from .. q.to
    OBVIOUS
  <2>1. Made[r].at \in Nat
    BY <1>1, ReportsAssumption
  <2> QED BY <2>1, DaysAreSeconds DEF Scope
<1>8. InWindow(q) = {x \in CountRows : Scope(q, x.e)}
  BY DEF InWindow
<1>9. CountOfEntities(InWindow(q))
  BY <1>4, <1>5, <1>8, FS_Subset DEF CountOfEntities
<1>10. \A x \in InWindow(q) : x.id = Made[x.e].id /\ x.model = StoredModel(x.e) /\ x.user = Made[x.e].user
  BY <1>5, <1>8
<1>11. \A r : (\E x \in InWindow(q) : x.e = r) <=> r \in InDays(q)
  BY <1>5, <1>6, <1>7, <1>8 DEF InDays, T
<1>12. {x.e : x \in InWindow(q)} = InDays(q)
  BY <1>11
<1> QED BY <1>9, <1>10, <1>12

(* The stages whose answers come from the tables of the writer. *)
FromTables == StageNames \ {"registered"}

(* What a report shows when its answers are all of one state of the tables. *)
LEMMA ReportAddsUp ==
  ASSUME TablesOK, NEW q, q.from \in Nat, q.to \in Nat, NEW got,
         \A s \in FromTables : got[s] = Answer(q, s)
  PROVE  LET days == InDays(q)
             all == got["totals"].entities
         IN /\ got["totals"].requests = Cardinality({Made[e].id : e \in days})
            /\ SumOver(RequestsOf(ByModel(got)), DOMAIN ByModel(got))
                 = Cardinality({<<Made[e].id, StoredModel(e)>> : e \in days})
            /\ SumOver(RequestsOf(ByActor(got)), DOMAIN ByActor(got))
                 = Cardinality({<<Made[e].id, Made[e].user>> : e \in days})
            /\ SumOver(EntitiesOf(ByModel(got)), DOMAIN ByModel(got)) = all
            /\ SumOver(EntitiesOf(ByActor(got)), DOMAIN ByActor(got)) = all
            /\ SumOver(EntitiesOf(got["by_class"]), DOMAIN got["by_class"]) = all
<1> DEFINE R == InWindow(q)
           model == [x \in R |-> x.model]
           actor == [x \in R |-> x.user]
           class == [x \in R |-> x.class]
           M == Grouped(R, model)
           U == Grouped(R, actor)
           reg == got["registered"]
           bucket == [g \in DOMAIN M |-> bound_model(g, reg)]
           C == Collapse(M, bucket)
<1>1. /\ CountOfEntities(R) /\ {x.e : x \in R} = InDays(q)
      /\ \A x \in R : x.id = Made[x.e].id /\ x.model = StoredModel(x.e) /\ x.user = Made[x.e].user
  BY WindowRows
<1>2. {"totals", "by_class", "model_rows", "actor_rows", "model_totals", "actor_totals"} \subseteq FromTables
  <2>1. /\ ReportStages[1] = "totals" /\ ReportStages[3] = "by_class" /\ ReportStages[4] = "model_rows"
        /\ ReportStages[5] = "actor_rows" /\ ReportStages[7] = "model_totals"
        /\ ReportStages[8] = "actor_totals" /\ DOMAIN ReportStages = 1..8
    BY DEF ReportStages
  <2>2. {"totals", "by_class", "model_rows", "actor_rows", "model_totals", "actor_totals"} \subseteq StageNames
    BY <2>1 DEF StageNames
  <2> QED BY <2>2 DEF FromTables
<1>3. /\ got["totals"] = Figures(R) /\ got["by_class"] = Grouped(R, class)
      /\ got["model_totals"] = M /\ got["actor_totals"] = U
  BY <1>2 DEF Answer, group_totals
<1>4. /\ got["model_rows"] = Grouped(R, [x \in R |-> <<x.model, x.class>>])
      /\ got["actor_rows"] = Grouped(R, [x \in R |-> <<x.user, x.class>>])
  BY <1>2 DEF Answer
<1>5. /\ DOMAIN got["model_rows"] = {<<x.model, x.class>> : x \in R}
      /\ DOMAIN got["actor_rows"] = {<<x.user, x.class>> : x \in R}
  BY <1>4 DEF Grouped
<1>6. \A x \in R : model[x] = x.model /\ actor[x] = x.user
  OBVIOUS
<1> HIDE DEF R, model, actor, class
<1>7. /\ DOMAIN M = {model[x] : x \in R} /\ IsFiniteSet(DOMAIN M) /\ \A k \in DOMAIN M : M[k].entities \in Int
      /\ SumOver(EntitiesOf(M), DOMAIN M) = Figures(R).entities
  BY <1>1, GroupedEntities
<1>8. /\ \A k \in DOMAIN M : M[k].requests \in Int
      /\ SumOver(RequestsOf(M), DOMAIN M) = Cardinality({<<x.id, model[x]>> : x \in R})
  BY <1>1, GroupedRequests
<1>9. /\ DOMAIN U = {actor[x] : x \in R}
      /\ SumOver(EntitiesOf(U), DOMAIN U) = Figures(R).entities
  BY <1>1, GroupedEntities
<1>10. SumOver(RequestsOf(U), DOMAIN U) = Cardinality({<<x.id, actor[x]>> : x \in R})
  BY <1>1, GroupedRequests
<1>11. SumOver(EntitiesOf(got["by_class"]), DOMAIN got["by_class"]) = Figures(R).entities
  BY <1>1, <1>3, GroupedEntities
<1>12. /\ Figures(R).requests = Cardinality({Made[e].id : e \in InDays(q)})
       /\ {<<x.id, model[x]>> : x \in R} = {<<Made[e].id, StoredModel(e)>> : e \in InDays(q)}
       /\ {<<x.id, actor[x]>> : x \in R} = {<<Made[e].id, Made[e].user>> : e \in InDays(q)}
  <2>1. \A x \in R : x.e \in InDays(q)
    BY <1>1
  <2>2. \A e \in InDays(q) : \E x \in R : x.e = e
    BY <1>1
  <2>3. {x.id : x \in R} = {Made[e].id : e \in InDays(q)}
    BY <1>1, <2>1, <2>2
  <2>4. Figures(R).requests = Cardinality({x.id : x \in R})
    BY DEF Figures
  <2>5. {<<x.id, model[x]>> : x \in R} = {<<Made[e].id, StoredModel(e)>> : e \in InDays(q)}
    BY <1>1, <1>6, <2>1, <2>2
  <2>6. {<<x.id, actor[x]>> : x \in R} = {<<Made[e].id, Made[e].user>> : e \in InDays(q)}
    BY <1>1, <1>6, <2>1, <2>2
  <2> QED BY <2>3, <2>4, <2>5, <2>6
<1> HIDE DEF M, U
<1>13. ByActor(got) = U
  <2>1. {g[1] : g \in DOMAIN got["actor_rows"]} = DOMAIN U
    <3> DEFINE A == DOMAIN got["actor_rows"]
    <3>1. \A g \in A : \E x \in R : g[1] = x.user
      BY <1>5
    <3>2. \A x \in R : \E g \in A : g[1] = x.user
      <4> SUFFICES ASSUME NEW x \in R PROVE \E g \in A : g[1] = x.user
        OBVIOUS
      <4>1. <<x.user, x.class>> \in A /\ <<x.user, x.class>>[1] = x.user
        BY <1>5
      <4> HIDE DEF A
      <4> QED BY <4>1
    <3> HIDE DEF A
    <3>3. \A x \in R : x.user \in DOMAIN U
      BY <1>6, <1>9
    <3>4. \A k \in DOMAIN U : \E x \in R : k = x.user
      BY <1>6, <1>9
    <3>5. \A k : k \in {g[1] : g \in A} <=> k \in DOMAIN U
      BY <3>1, <3>2, <3>3, <3>4
    <3> QED BY <3>5 DEF A
  <2>2. U = [a \in DOMAIN U |-> U[a]]
    BY DEF U, Grouped
  <2>3. ByActor(got) = [a \in DOMAIN U |-> IF a \in DOMAIN U THEN U[a] ELSE Zero]
    BY <1>3, <2>1 DEF ByActor
  <2> QED BY <2>2, <2>3
<1>14. /\ DOMAIN C = {bucket[g] : g \in DOMAIN M}
       /\ SumOver(EntitiesOf(C), DOMAIN C) = SumOver(EntitiesOf(M), DOMAIN M)
       /\ SumOver(RequestsOf(C), DOMAIN C) = SumOver(RequestsOf(M), DOMAIN M)
  <2> HIDE DEF bucket
  <2> QED BY <1>7, <1>8, CollapseSums
<1>15. ByModel(got) = C
  <2>1. {bound_model(g[1], reg) : g \in DOMAIN got["model_rows"]} = DOMAIN C
    <3>1. \A g \in DOMAIN M : bucket[g] = bound_model(g, reg)
      OBVIOUS
    <3> HIDE DEF bucket, C, reg
    <3>2. \A k : k \in DOMAIN C <=> \E x \in R : k = bound_model(x.model, reg)
      BY <1>6, <1>7, <1>14, <3>1
    <3> DEFINE A == DOMAIN got["model_rows"]
    <3>3. \A g \in A : \E x \in R : g[1] = x.model
      BY <1>5
    <3>4. \A x \in R : \E g \in A : g[1] = x.model
      <4> SUFFICES ASSUME NEW x \in R PROVE \E g \in A : g[1] = x.model
        OBVIOUS
      <4>1. <<x.model, x.class>> \in A /\ <<x.model, x.class>>[1] = x.model
        BY <1>5
      <4> HIDE DEF A
      <4> QED BY <4>1
    <3> HIDE DEF A
    <3>5. \A k : k \in {bound_model(g[1], reg) : g \in A} <=> \E x \in R : k = bound_model(x.model, reg)
      BY <3>3, <3>4
    <3> QED BY <3>2, <3>5 DEF A
  <2>2. C = [m \in DOMAIN C |-> C[m]]
    BY DEF Collapse
  <2>3. ByModel(got) = [m \in DOMAIN C |-> IF m \in DOMAIN C THEN C[m] ELSE Zero]
    BY <1>3, <2>1 DEF ByModel
  <2> HIDE DEF C
  <2> QED BY <2>2, <2>3
<1> HIDE DEF C
<1> QED BY <1>3, <1>7, <1>8, <1>9, <1>10, <1>11, <1>12, <1>13, <1>14, <1>15

(* A report under way. *)
Reading(q) ==
  /\ q = [kind |-> "report", caller |-> q.caller, from |-> q.from, to |-> q.to, step |-> q.step,
          got |-> q.got, quiet |-> q.quiet]
  /\ q.from \in Nat /\ q.to \in Nat /\ q.step \in 0..9 /\ q.quiet \in BOOLEAN
  /\ q.got = [s \in StageNames |-> q.got[s]]

(* While the tables stand still, every answer of theirs so far is the one they would give now. *)
Asked(q, s) == \E i \in 1..8 : i < q.step /\ ReportStages[i] = s
AnswersHold(q) == q.quiet => \A s \in FromTables : Asked(q, s) => q.got[s] = Answer(q, s)

ReportOK == reader.kind = "report" => Reading(reader) /\ AnswersHold(reader)

ReaderInv == TablesOK /\ ListOK /\ ReportOK

(* The stages by number. *)
LEMMA StagesNamed ==
  /\ \A i \in 1..8 : ReportStages[i] \in StageNames
  /\ \A s \in StageNames : \E i \in 1..8 : ReportStages[i] = s
  /\ Len(ReportStages) = 8
  /\ ReportStages[6] = "registered"
<1>1. DOMAIN ReportStages = 1..8 /\ Len(ReportStages) = 8 /\ ReportStages[6] = "registered"
  BY DEF ReportStages
<1> QED BY <1>1 DEF StageNames

(* Tables that stand still answer as they did. *)
LEMMA AnswerKept ==
  ASSUME table' = table, NEW q, NEW z, z.caller = q.caller, z.from = q.from, z.to = q.to
  PROVE  \A s \in FromTables : Answer(z, s)' = Answer(q, s)
<1>1. CountRows' = CountRows
  BY DEF CountRows
<1>2. \A r : Scope(z, r) = Scope(q, r)
  BY DEF Scope
<1>3. InWindow(z)' = InWindow(q)
  BY <1>1, <1>2 DEF InWindow
<1>4. {Made[e].id : e \in {x \in table'["request_events"] : Scope(z, x)}}
        = {Made[e].id : e \in {x \in table["request_events"] : Scope(q, x)}}
  BY <1>2
<1>5. \A s \in FromTables : s \in {"totals", "denominator", "by_class", "model_rows", "actor_rows",
                                   "model_totals", "actor_totals"}
  <2>1. \A i \in 1..8 : ReportStages[i] \in {"totals", "denominator", "by_class", "model_rows", "actor_rows",
                                             "registered", "model_totals", "actor_totals"}
    BY DEF ReportStages
  <2> QED BY <2>1, StagesNamed DEF FromTables
<1> SUFFICES ASSUME NEW s \in FromTables PROVE Answer(z, s)' = Answer(q, s)
  OBVIOUS
<1> DEFINE R == InWindow(q)
<1>6. R = InWindow(z)'
  BY <1>3
<1>7. CASE s = "totals"
  BY <1>3, <1>7 DEF Answer
<1>8. CASE s = "denominator"
  BY <1>4, <1>8 DEF Answer
<1>9. CASE s = "by_class"
  BY <1>3, <1>9 DEF Answer
<1>10. CASE s = "model_rows"
  BY <1>3, <1>10 DEF Answer
<1>11. CASE s = "actor_rows"
  BY <1>3, <1>11 DEF Answer
<1>12. CASE s = "model_totals"
  BY <1>3, <1>12 DEF Answer
<1>13. CASE s = "actor_totals"
  BY <1>3, <1>13 DEF Answer
<1> QED BY <1>5, <1>7, <1>8, <1>9, <1>10, <1>11, <1>12, <1>13

(* A report begins with nothing read. *)
LEMMA ReportBegins ==
  ASSUME NEW c \in Caller, NEW from \in {s \div DaySeconds : s \in Seconds},
         NEW to \in {s \div DaySeconds : s \in Seconds}, ReportBegin(c, from, to)
  PROVE  ReportOK' /\ reader'.kind = "report"
<1>1. from \in Nat /\ to \in Nat
  <2>1. DaySeconds \in Nat \ {0} /\ Seconds \subseteq Nat
    BY ReportsAssumption
  <2>2. \A n \in Nat, d \in Nat \ {0} : n \div d \in Nat
    OBVIOUS
  <2> QED BY <2>1, <2>2
<1> DEFINE first == IF c.admin /\ validate_window(from, to) THEN 1 ELSE 0
           none == [s \in StageNames |-> Unset]
<1>2. PICK yes \in BOOLEAN : yes = TRUE
  OBVIOUS
<1>3. first \in 0..1
  OBVIOUS
<1>4. none = [s \in StageNames |-> none[s]]
  OBVIOUS
<1> HIDE DEF first, none
<1> DEFINE q == [kind |-> "report", caller |-> c, from |-> from, to |-> to, step |-> first, got |-> none,
                 quiet |-> yes]
<1>5. reader' = q
  BY <1>2 DEF ReportBegin, first, none
<1>6. Reading(q) /\ q.kind = "report" /\ q.step = first
  BY <1>1, <1>3, <1>4 DEF Reading
<1> HIDE DEF q
<1>7. \A s : ~Asked(q, s)
  BY <1>3, <1>6 DEF Asked
<1>8. AnswersHold(q)'
  BY <1>7 DEF AnswersHold
<1> QED BY <1>5, <1>6, <1>8 DEF ReportOK

(* One read more. *)
LEMMA ReportGoesOn ==
  ASSUME TablesOK, ReportOK, ReportRead
  PROVE  ReportOK' /\ reader'.kind = "report"
<1>1. PICK q : q = reader
  OBVIOUS
<1>2. Reading(q) /\ AnswersHold(q) /\ q.step \in 1..8 /\ table' = table
  BY <1>1, StagesNamed DEF ReportOK, ReportRead
<1>3. PICK k \in 1..8 : k = q.step
  BY <1>2
<1>a. PICK c, got : c = q.caller /\ got = q.got
  OBVIOUS
<1>b. PICK from \in Nat, to \in Nat, b \in BOOLEAN : from = q.from /\ to = q.to /\ b = q.quiet
  BY <1>2 DEF Reading
<1>4. /\ c = q.caller /\ from = q.from /\ to = q.to /\ got = q.got /\ b = q.quiet
      /\ q = [kind |-> "report", caller |-> c, from |-> from, to |-> to, step |-> k, got |-> got, quiet |-> b]
  BY <1>2, <1>3, <1>a, <1>b DEF Reading
<1> DEFINE stage == ReportStages[k]
           more == [got EXCEPT ![stage] = Answer(q, stage)]
<1>5. stage \in StageNames /\ DOMAIN got = StageNames /\ got = [s \in StageNames |-> got[s]]
  BY <1>2, <1>4, StagesNamed DEF Reading
<1>6. more = [s \in StageNames |-> more[s]] /\ more[stage] = Answer(q, stage)
      /\ \A s \in StageNames : s # stage => more[s] = got[s]
  BY <1>5
<1>7. \/ reader' = [q EXCEPT !.got[stage] = Answer(q, stage), !.step = @ + 1]
      \/ reader' = [q EXCEPT !.step = 0]
  BY <1>1, <1>3 DEF ReportRead
<1>8. \/ reader' = [kind |-> "report", caller |-> c, from |-> from, to |-> to, step |-> k + 1, got |-> more, quiet |-> b]
      \/ reader' = [kind |-> "report", caller |-> c, from |-> from, to |-> to, step |-> 0, got |-> got, quiet |-> b]
  <2>1. CASE reader' = [q EXCEPT !.got[stage] = Answer(q, stage), !.step = @ + 1]
    <3>1. PICK a : a = Answer(q, stage)
      OBVIOUS
    <3>2. reader' = [q EXCEPT !.got[stage] = a, !.step = @ + 1] /\ more = [got EXCEPT ![stage] = a]
      BY <2>1, <3>1
    <3> HIDE DEF stage, more
    <3>3. reader' = [kind |-> "report", caller |-> c, from |-> from, to |-> to, step |-> k + 1,
                     got |-> [got EXCEPT ![stage] = a], quiet |-> b]
      <4>1. q = [kind |-> "report", caller |-> c, from |-> from, to |-> to, step |-> k, got |-> got, quiet |-> b]
        BY <1>4
      <4>2. DOMAIN q = {"kind", "caller", "from", "to", "step", "got", "quiet"}
        BY <4>1
      <4>3. /\ q.kind = "report" /\ q.caller = c /\ q.from = from /\ q.to = to /\ q.step = k /\ q.got = got
            /\ q.quiet = b
        BY <4>1
      <4>4. [q EXCEPT !.got[stage] = a, !.step = @ + 1]
              = [f \in DOMAIN q |-> IF f = "step" THEN k + 1 ELSE IF f = "got" THEN [got EXCEPT ![stage] = a] ELSE q[f]]
        BY <4>2, <4>3
      <4> QED BY <3>2, <4>2, <4>3, <4>4
    <3> QED BY <3>2, <3>3
  <2>2. CASE reader' = [q EXCEPT !.step = 0]
    BY <1>4, <2>2
  <2> QED BY <1>7, <2>1, <2>2
<1> HIDE DEF more, stage
<1>9. CASE reader' = [kind |-> "report", caller |-> c, from |-> from, to |-> to, step |-> k + 1, got |-> more,
                      quiet |-> b]
  <2>1. PICK z : z = [kind |-> "report", caller |-> c, from |-> from, to |-> to, step |-> k + 1, got |-> more,
                      quiet |-> b]
    OBVIOUS
  <2>2. /\ z.kind = "report" /\ z.caller = c /\ z.from = from /\ z.to = to /\ z.step = k + 1 /\ z.got = more
        /\ z.quiet = b
    BY <2>1
  <2>3. Reading(z)
    BY <1>6, <2>1, <2>2 DEF Reading
  <2>4. \A s \in FromTables : Answer(z, s)' = Answer(q, s)
    BY <1>2, <1>4, <2>2, AnswerKept
  <2>5. ASSUME b, NEW s \in FromTables, Asked(z, s) PROVE z.got[s] = Answer(z, s)'
    <3>1. s \in StageNames
      BY DEF FromTables
    <3>2. CASE s = stage
      BY <1>6, <2>2, <2>4, <3>2
    <3>3. CASE s # stage
      <4>1. PICK i \in 1..8 : i < k + 1 /\ ReportStages[i] = s
        BY <2>2, <2>5 DEF Asked
      <4>2. i < k
        BY <3>3, <4>1 DEF stage
      <4>3. Asked(q, s)
        BY <1>3, <4>1, <4>2 DEF Asked
      <4>4. got[s] = Answer(q, s)
        BY <1>2, <1>4, <2>5, <4>3 DEF AnswersHold
      <4> QED BY <1>6, <2>2, <2>4, <3>1, <3>3, <4>4
    <3> QED BY <3>2, <3>3
  <2>6. AnswersHold(z)'
    BY <2>2, <2>5 DEF AnswersHold, Asked
  <2> QED BY <1>9, <2>1, <2>2, <2>3, <2>6 DEF ReportOK
<1>10. CASE reader' = [kind |-> "report", caller |-> c, from |-> from, to |-> to, step |-> 0, got |-> got,
                       quiet |-> b]
  <2>1. PICK zero \in 0..9 : zero = 0
    OBVIOUS
  <2>2. PICK z : z = [kind |-> "report", caller |-> c, from |-> from, to |-> to, step |-> zero, got |-> got,
                      quiet |-> b]
    OBVIOUS
  <2>3. /\ z.kind = "report" /\ z.step = zero
    BY <2>2
  <2>4. Reading(z)
    BY <1>5, <2>2 DEF Reading
  <2>5. \A s : ~Asked(z, s)
    BY <2>1, <2>3 DEF Asked
  <2>6. AnswersHold(z)'
    BY <2>5 DEF AnswersHold
  <2> QED BY <1>10, <2>1, <2>2, <2>3, <2>4, <2>6 DEF ReportOK
<1> QED BY <1>8, <1>9, <1>10

(* A report goes on when the tables stand still, whatever else changes. *)
LEMMA ReportStands ==
  ASSUME ReportOK, reader' = reader, table' = table
  PROVE  ReportOK'
<1> SUFFICES ASSUME reader.kind = "report" PROVE ReportOK'
  BY DEF ReportOK
<1>1. PICK q : q = reader
  OBVIOUS
<1>2. Reading(q) /\ AnswersHold(q)
  BY <1>1 DEF ReportOK
<1>3. \A s \in FromTables : Answer(q, s)' = Answer(q, s)
  BY AnswerKept
<1>4. AnswersHold(q)'
  BY <1>2, <1>3 DEF AnswersHold
<1>5. reader' = q
  BY <1>1
<1> QED BY <1>2, <1>4, <1>5 DEF ReportOK

(* A report that is disturbed knows it. *)
LEMMA ReportIsDisturbed ==
  ASSUME ReportOK, NEW raw, Tables(raw), reader.kind = "report"
  PROVE  ReportOK' /\ reader'.kind = "report"
<1>1. PICK q : q = reader
  OBVIOUS
<1>2. Reading(q) /\ q.kind = "report"
  BY <1>1 DEF ReportOK
<1>3. PICK no \in BOOLEAN : no = FALSE
  OBVIOUS
<1>4. PICK z : z = [q EXCEPT !.quiet = no]
  OBVIOUS
<1>5. reader' = z
  BY <1>1, <1>3, <1>4 DEF Tables
<1>6. z = [kind |-> "report", caller |-> q.caller, from |-> q.from, to |-> q.to, step |-> q.step,
           got |-> q.got, quiet |-> no]
  BY <1>2, <1>4 DEF Reading
<1>7. Reading(z) /\ z.quiet = no /\ z.kind = "report"
  BY <1>2, <1>6 DEF Reading
<1>8. AnswersHold(z)'
  BY <1>3, <1>7 DEF AnswersHold
<1> QED BY <1>5, <1>7, <1>8 DEF ReportOK

(* Of a list a report says nothing, and of a report a list. *)
LEMMA OtherKinds ==
  /\ reader'.kind # "report" => ReportOK'
  /\ reader'.kind # "list" => ListOK'
BY DEF ReportOK, ListOK

(* Rows that come or go disturb a list and a report alone. *)
LEMMA ReaderIsDisturbed ==
  ASSUME TablesOK, ListOK, ReportOK, NEW raw \in [Table -> SUBSET Event], Tables(raw)
  PROVE  ReaderInv'
<1>1. TablesOK'
  BY DEF Tables, TablesOK
<1>2. CASE reader.kind = "list"
  BY <1>1, <1>2, WalkIsDisturbed, OtherKinds DEF ReaderInv
<1>3. CASE reader.kind = "report"
  BY <1>1, <1>3, ReportIsDisturbed, OtherKinds DEF ReaderInv
<1>4. CASE reader.kind \notin {"list", "report"}
  <2>1. reader' = reader
    BY <1>4 DEF Tables
  <2> QED BY <1>1, <1>4, <2>1, OtherKinds DEF ReaderInv
<1> QED BY <1>2, <1>3, <1>4

(* Every step of a reader, and of what goes on around it, keeps the invariant. *)
LEMMA ReaderSteps == ReaderInv /\ [ReportsNext]_reportVars => ReaderInv'
<1> SUFFICES ASSUME ReaderInv, [ReportsNext]_reportVars PROVE ReaderInv'
  OBVIOUS
<1>0. TablesOK /\ ListOK /\ ReportOK
  BY DEF ReaderInv
<1>1. ASSUME NEW c \in Caller, NEW asked \in Workspaces \cup {Unset}, NEW from \in Seconds, NEW to \in Seconds,
             NEW m \in Model \cup {Unset}, NEW v \in BOOLEAN, NEW n \in Limits,
             ListBegin(c, asked, from, to, m, v, n)
      PROVE  ReaderInv'
  <2>1. ListOK'
    BY <1>1, WalkBegins
  <2>2. reader'.kind = "list" /\ table' = table
    BY <1>1 DEF ListBegin
  <2> QED BY <1>0, <2>1, <2>2, OtherKinds DEF ReaderInv, TablesOK
<1>2. ASSUME NEW c \in Caller, NEW from \in {s \div DaySeconds : s \in Seconds},
             NEW to \in {s \div DaySeconds : s \in Seconds}, ReportBegin(c, from, to)
      PROVE  ReaderInv'
  <2>1. ReportOK' /\ reader'.kind = "report"
    BY <1>2, ReportBegins
  <2>2. table' = table
    BY <1>2 DEF ReportBegin
  <2> QED BY <1>0, <2>1, <2>2, OtherKinds DEF ReaderInv, TablesOK
<1>3. CASE list_requests
  <2>1. ListOK' /\ reader'.kind = "list"
    BY <1>0, <1>3, WalkGoesOn
  <2>2. table' = table
    BY <1>3 DEF list_requests
  <2> QED BY <1>0, <2>1, <2>2, OtherKinds DEF ReaderInv, TablesOK
<1>4. CASE ReportRead
  <2>1. ReportOK' /\ reader'.kind = "report"
    BY <1>0, <1>4, ReportGoesOn
  <2>2. table' = table
    BY <1>4 DEF ReportRead
  <2> QED BY <1>0, <2>1, <2>2, OtherKinds DEF ReaderInv, TablesOK
<1>5. ASSUME NEW t \in Table, NEW e \in Event, Flush(t, e) PROVE ReaderInv'
  <2>1. [table EXCEPT ![t] = @ \cup {e}] \in [Table -> SUBSET Event]
    BY <1>0 DEF TablesOK
  <2> QED BY <1>0, <1>5, <2>1, ReaderIsDisturbed DEF Flush
<1>6. ASSUME NEW t \in Table, NEW e \in Event, Expire(t, e) PROVE ReaderInv'
  <2>1. [table EXCEPT ![t] = @ \ {e}] \in [Table -> SUBSET Event]
    BY <1>0 DEF TablesOK
  <2> QED BY <1>0, <1>6, <2>1, ReaderIsDisturbed DEF Expire
<1>7. ASSUME UNCHANGED <<table, reader>> PROVE ReaderInv'
  <2>1. ReportOK'
    BY <1>0, <1>7, ReportStands
  <2>2. ListOK'
    BY <1>0, <1>7 DEF ListOK, Walked
  <2> QED BY <1>0, <1>7, <2>1, <2>2 DEF ReaderInv, TablesOK
<1>8. ASSUME NEW w \in Workspaces, NEW m \in Model, ChangeCatalogue(w, m) PROVE ReaderInv'
  BY <1>7, <1>8 DEF ChangeCatalogue
<1>9. CASE UNCHANGED reportVars
  BY <1>7, <1>9 DEF reportVars
<1> QED BY <1>1, <1>2, <1>3, <1>4, <1>5, <1>6, <1>8, <1>9 DEF ReportsNext

(* Nobody reads at first. *)
LEMMA ReaderBegins == ReportsInit => ReaderInv
<1> SUFFICES ASSUME ReportsInit PROVE ReaderInv
  OBVIOUS
<1>1. reader = [kind |-> "none"] /\ TablesOK
  BY DEF ReportsInit, TablesOK
<1>2. reader.kind = "none"
  BY <1>1
<1> QED BY <1>1, <1>2 DEF ReaderInv, ListOK, ReportOK

(* GET /v1/requests: whatever the writer appends and the time to live removes between two pages,  *)
(* a list walked to its end with list_requests' cursor has every row that was there at its start  *)
(* and stayed, each once, newest first, and none out of the caller's scope, but for rows of the   *)
(* very second and request id on which a page ended: for any number of events, any ids and times, *)
(* any page size and any number of changes.                                                       *)
THEOREM ListIsComplete == ReportsSpec => []PagesCoverTheWindow
<1>1. ReaderInv => PagesCoverTheWindow
  BY DEF ReaderInv, ListOK, Walked, Past, Wanted, InListOrder, PagesCoverTheWindow
<1> QED BY <1>1, ReaderBegins, ReaderSteps, PTL DEF ReportsSpec

(* GET /v1/leak-report: a finished report names registered destinations alone, and if the tables  *)
(* stood still during its eight reads it counts each request id of the window's days once in the  *)
(* totals, once for each destination and once for each actor it was used with, and destinations,  *)
(* actors and classes each add up to the entities found.                                          *)
THEOREM ReportAddsUpExactly == ReportsSpec => []ReportIsExact
<1>1. ReaderInv => ReportIsExact
  <2> SUFFICES ASSUME ReaderInv, Reported PROVE ReportIsExact
    BY DEF ReportIsExact
  <2>1. PICK q : q = reader
    OBVIOUS
  <2>2. Reading(q) /\ AnswersHold(q) /\ TablesOK /\ q.step = 9
    BY <2>1, StagesNamed DEF ReaderInv, ReportOK, Reported
  <2>3. PICK got : got = q.got
    OBVIOUS
  <2>4. DOMAIN ByModel(got) \subseteq got["registered"] \cup {UNREGISTERED_MODEL}
    BY DEF ByModel, bound_model
  <2>5. q.quiet => \A s \in FromTables : got[s] = Answer(q, s)
    <3>1. \A s \in FromTables : Asked(q, s)
      BY <2>2, StagesNamed DEF Asked, FromTables
    <3> QED BY <2>2, <2>3, <3>1 DEF AnswersHold
  <2>6. q.from \in Nat /\ q.to \in Nat
    BY <2>2 DEF Reading
  <2> DEFINE days == InDays(q)
  <2>7. \A f : SumRequests(f) = SumOver(RequestsOf(f), DOMAIN f) /\ SumEntities(f) = SumOver(EntitiesOf(f), DOMAIN f)
    BY DEF SumRequests, SumEntities, RequestsOf, EntitiesOf
  <2>8. ASSUME q.quiet
        PROVE  /\ got["totals"].requests = Cardinality({Made[e].id : e \in days})
               /\ SumRequests(ByModel(got)) = Cardinality({<<Made[e].id, StoredModel(e)>> : e \in days})
               /\ SumRequests(ByActor(got)) = Cardinality({<<Made[e].id, Made[e].user>> : e \in days})
               /\ SumEntities(ByModel(got)) = got["totals"].entities
               /\ SumEntities(ByActor(got)) = got["totals"].entities
               /\ SumEntities(got["by_class"]) = got["totals"].entities
    <3>1. \A s \in FromTables : got[s] = Answer(q, s)
      BY <2>5, <2>8
    <3> HIDE DEF days
    <3>2. /\ got["totals"].requests = Cardinality({Made[e].id : e \in days})
          /\ SumOver(RequestsOf(ByModel(got)), DOMAIN ByModel(got))
               = Cardinality({<<Made[e].id, StoredModel(e)>> : e \in days})
          /\ SumOver(RequestsOf(ByActor(got)), DOMAIN ByActor(got))
               = Cardinality({<<Made[e].id, Made[e].user>> : e \in days})
          /\ SumOver(EntitiesOf(ByModel(got)), DOMAIN ByModel(got)) = got["totals"].entities
          /\ SumOver(EntitiesOf(ByActor(got)), DOMAIN ByActor(got)) = got["totals"].entities
          /\ SumOver(EntitiesOf(got["by_class"]), DOMAIN got["by_class"]) = got["totals"].entities
      BY <2>2, <2>6, <3>1, ReportAddsUp DEF days
    <3> QED BY <2>7, <3>2
  <2> QED BY <2>1, <2>3, <2>4, <2>8 DEF ReportIsExact
<1> QED BY <1>1, ReaderBegins, ReaderSteps, PTL DEF ReportsSpec
=============================================================================
