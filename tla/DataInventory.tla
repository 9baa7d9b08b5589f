--------------------------- MODULE DataInventory ---------------------------
(***************************************************************************)
(* GET /v1/data-inventory: what a workspace has stored, class by class, how   *)
(* many rows, and whether they are protected at rest.  The handler asks one   *)
(* store after another while writers, expiry and outages go on.  Of a row     *)
(* only its shape is kept: it has the envelope (or is a hash) that its class  *)
(* promises, it has not, or it carries no payload at all.                     *)
(***************************************************************************)
EXTENDS Naturals, FiniteSets, DataCatalogue

CONSTANTS
  Class,        \* the classes of the instance, some of Catalogue
  MaxRows,      \* bound on the rows of one class and shape
  MaxChanges,   \* bound on what happens to a class while one request is answered
  ProviderKey,  \* SECUREPROMPT_PROVIDER_KEY: "set", "zero" (the default) or "malformed"
  Nothing

ASSUME InventoryAssumption ==
  /\ Class \subseteq Catalogue
  /\ Nothing \notin Nat

VARIABLES
  rows,         \* per class, how many rows of each shape
  up,           \* the stores that answer
  kms,          \* "ok", "down", or "lossy": it answers with other bytes
  request,      \* the handler
  seen,         \* history: what each class went through since the request began
  reply

inventoryVars == <<rows, up, kms, request, seen, reply>>

Shape == {"good", "bad", "bare"}

(* A capture or a provider may carry no payload; a class that promises nothing has plain rows. *)
Shapes(c) ==
  {"good"} \cup (IF c.rest \in {"sealed", "hashed"} THEN {"bad"} ELSE {})
           \cup (IF c \in {Captures, Providers} THEN {"bare"} ELSE {})

Countable == {c \in Class : c.store # "nobody"}
Stores == {c.store : c \in Countable}
NoReply == [c \in {} |-> Nothing]
Idle == [pc |-> "idle", todo |-> {}, read |-> NoReply, kms |-> Nothing]

(***************************************************************************)
(* What one query sees.  Totals and shapes come from one statement.          *)
(***************************************************************************)
Total(r) == r["good"] + r["bad"] + r["bare"]

(* Mutant: ch_sealed answers true for NULL, and the presence gate is forgotten. *)
ShapeCountVacuous(c) ==
  [total |-> Total(rows[c]), payload |-> Total(rows[c]), matching |-> rows[c]["good"] + rows[c]["bare"]]

(* ch_capture_shape and the c_ and v_ columns of postgres_counts.  A row without a content column
   is no evidence. *)
ShapeCount(c) ==
  [total |-> Total(rows[c]), payload |-> rows[c]["good"] + rows[c]["bad"],
   matching |-> rows[c]["good"]]

(* Encryption::sealed and Encryption::hashed. *)
Verdict(s, protected, none) ==
  IF s.payload = 0 THEN "empty"
  ELSE IF s.matching = s.payload THEN protected
  ELSE IF s.matching = 0 THEN none ELSE "mixed"

SealedVerdict(s) == Verdict(s, "ciphertext", "plaintext")
HashedVerdict(s) == Verdict(s, "hashed", "mixed")

(* users holds fields in several states at once. *)
UsersVerdict(s) == IF s.total > 0 THEN "mixed" ELSE HashedVerdict(s)

AtRest(c, s) ==
  CASE c = Users -> UsersVerdict(s)
    [] c.rest = "sealed" -> SealedVerdict(s)
    [] c.rest = "hashed" /\ c # Users -> HashedVerdict(s)
    [] OTHER -> c.rest

Counted(c, s) == [count |-> s.total, verdict |-> AtRest(c, s)]

(* counted, unavailable: a store that does not answer is a gap in the report, never a zero. *)
Unavailable(c) == [count |-> Nothing, verdict |-> IF c = Captures THEN "unknown" ELSE c.rest]

(* The encrypt and decrypt round trips.  A backend that returns other bytes has failed. *)
KmsSelfTest == IF kms = "ok" THEN "ok" ELSE "failed"
ProviderKeySelfTest == IF ProviderKey = "set" THEN "ok" ELSE "failed"

(***************************************************************************)
(* The handler, for an administrator.                                        *)
(***************************************************************************)
Begin ==
  /\ request.pc = "idle"
  /\ request' = [Idle EXCEPT !.pc = "postgres", !.kms = KmsSelfTest]
  /\ seen' = [c \in Countable |-> {rows[c]}]
  /\ reply' = NoReply
  /\ UNCHANGED <<rows, up, kms>>

(* One statement in a transaction whose scope is read back.  Without its Postgres half there is no
   inventory at all. *)
PostgresCounts ==
  /\ request.pc = "postgres"
  /\ request' = IF "postgres" \in up
                THEN [request EXCEPT !.pc = "count", !.todo = {c \in Countable : c.store # "postgres"},
                        !.read = [c \in {k \in Class : k.store = "postgres"} |->
                                    Counted(c, ShapeCount(c))]]
                ELSE Idle
  /\ UNCHANGED <<rows, up, kms, seen, reply>>

(* ch_count, ch_capture_shape and live_budget_keys, one query each; their order is left open. *)
CountOne ==
  /\ request.pc = "count"
  /\ \E c \in request.todo :
       request' = [request EXCEPT
         !.todo = @ \ {c},
         !.read = [k \in DOMAIN @ \cup {c} |->
                     IF k # c THEN @[k]
                     ELSE IF c.store \in up THEN Counted(c, ShapeCount(c)) ELSE Unavailable(c)]]
  /\ UNCHANGED <<rows, up, kms, seen, reply>>

(* The self-test a verdict rests on.  Provider credentials are sealed under a key of their own. *)
SelfTest(c) == IF c = Providers THEN ProviderKeySelfTest ELSE request.kms

(* The classes that cannot be counted are in every answer. *)
Declared(c) == [count |-> Nothing, verdict |-> c.rest]

Respond ==
  /\ request.pc = "count" /\ request.todo = {}
  /\ reply' = [c \in Class |-> [line |-> IF c \in Countable THEN request.read[c] ELSE Declared(c),
                                test |-> SelfTest(c)]]
  /\ request' = Idle
  /\ UNCHANGED <<rows, up, kms, seen>>

(***************************************************************************)
(* Everybody else.                                                          *)
(***************************************************************************)
Happens(c, r) ==
  /\ rows' = [rows EXCEPT ![c] = r]
  /\ reply' = NoReply
  /\ IF request.pc = "idle" THEN seen' = NoReply
     ELSE /\ Cardinality(seen[c]) <= MaxChanges
          /\ seen' = [seen EXCEPT ![c] = @ \cup {r}]
  /\ UNCHANGED <<up, kms, request>>

(* Writers that seal through the KMS write nothing when it is down. *)
Written ==
  \E c \in Countable : \E s \in Shapes(c) \ {"bad"} :
    /\ c.rest = "sealed" /\ s = "good" => kms # "down"
    /\ rows[c][s] < MaxRows
    /\ Happens(c, [rows[c] EXCEPT ![s] = @ + 1])

(* A TTL, the nightly purge, or a delete. *)
Removed ==
  \E c \in Countable : \E s \in Shapes(c) :
    /\ rows[c][s] > 0
    /\ Happens(c, [rows[c] EXCEPT ![s] = @ - 1])

StoreChanges ==
  /\ \E s \in Stores : up' = IF s \in up THEN up \ {s} ELSE up \cup {s}
  /\ UNCHANGED <<rows, kms, request, seen, reply>>

KmsChanges ==
  /\ kms' \in {"ok", "down", "lossy"} \ {kms}
  /\ UNCHANGED <<rows, up, request, seen, reply>>

(* Rows of an older release may be there without the envelope. *)
InventoryInit ==
  /\ rows \in [Countable -> {[s \in Shape |-> IF s \in some THEN 1 ELSE 0] : some \in SUBSET {"good", "bad"}}]
  /\ \A c \in Countable, s \in Shape : s \notin Shapes(c) => rows[c][s] = 0
  /\ up = Stores
  /\ kms = "ok"
  /\ request = Idle
  /\ seen = NoReply
  /\ reply = NoReply

InventoryNext ==
  \/ Begin \/ PostgresCounts \/ CountOne \/ Respond
  \/ Written \/ Removed \/ StoreChanges \/ KmsChanges

InventorySpec == InventoryInit /\ [][InventoryNext]_inventoryVars

(***************************************************************************)
(* Properties.                                                              *)
(***************************************************************************)

(* Every row with a payload in a state of the class has the promised shape. *)
Protected(r) == r["bad"] = 0 /\ r["good"] > 0
Unprotected(r) == r["bad"] > 0

(* A published line was true while the request was answered: the count was the number of rows, a
   protective verdict rests on at least one payload and on all of them, "empty" on none, and an
   exposed row is not glossed over.  A credential sealed under the published zero key is not vouched
   for by a self-test.  A store that was asked in vain gives neither a number nor a
   verdict.  Writers, expiry and outages may come between any two of the queries. *)
AttestationHolds ==
  \A c \in DOMAIN reply :
    LET line == reply[c].line IN
    /\ c \notin Countable => line.count = Nothing
    /\ line.count # Nothing =>
         \E r \in seen[c] :
           /\ line.count = Total(r)
           /\ line.verdict \in {"ciphertext", "hashed"} => Protected(r)
           /\ line.verdict = "empty" => r["good"] + r["bad"] = 0
           /\ line.verdict = "plaintext" => Unprotected(r) /\ r["good"] = 0
           /\ c.rest \in {"sealed", "hashed"} /\ Unprotected(r)
                => line.verdict \in {"plaintext", "mixed"}
    /\ c = Providers /\ ProviderKey # "set" => reply[c].test = "failed"
    /\ c = Captures /\ line.count = Nothing => line.verdict = "unknown"

=============================================================================
