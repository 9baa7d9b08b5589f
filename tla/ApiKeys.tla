------------------------------ MODULE ApiKeys ------------------------------
(***************************************************************************)
(* The keys of the gateway: how they are issued, revoked and rotated, the   *)
(* in-process cache that answers for them, and the nightly sweep that       *)
(* closes the rotated ones.  A key is its own secret, hash and row id.      *)
(***************************************************************************)
EXTENDS Naturals, FiniteSets, Sequences

CONSTANTS
  Key, Workspace, Member,
  KeyCaller,    \* requests authenticating at the same time
  KeyAdmin,     \* administrators' requests at the same time
  Nobody,       \* the owner of a workspace-wide key, the holder of a free row lock
  Grace,        \* rotation_grace_secs
  KeyTtl,       \* CACHE_TTL
  LookupStall   \* how long a request may take from its lookup to the cache, or to its commit;
                \* at most Grace

ASSUME KeysAssumption ==
  /\ Grace \in Nat /\ KeyTtl \in Nat
  /\ LookupStall \in 0..Grace
  /\ Nobody \notin KeyAdmin /\ "no_key" \notin Key

VARIABLES
  row,          \* api_keys
  lock,         \* who holds each row FOR UPDATE
  keyTrail,     \* admin_audit entries of each key
  keyCache,     \* ConfigCache.api_keys: the instant each entry was filled
  lookup,       \* the callers' requests
  rotation,     \* the administrators' requests
  sweep         \* the worker's rotation cleanup

keyVars == <<row, lock, keyTrail, keyCache, lookup, rotation, sweep>>

NoKey == "no_key"

(* Instants are ages.  A rotated key's age counts from rotated_at; a key that died otherwise
   continues from Grace, so that age - Grace is how long a key has been dead. *)
OldestKey == Grace + LookupStall + KeyTtl + 1
Uncached == KeyTtl + 1

NoRow == [status |-> "none", home |-> Nobody, owner |-> Nobody, born |-> 0, age |-> 0,
          successor |-> NoKey]

NoLookup == [pc |-> "idle", key |-> NoKey, age |-> 0]
NoRotation == [key |-> NoKey, age |-> 0]
NoSweep == [pc |-> "idle", todo |-> {}, enumerated |-> 0, swept |-> 0, failures |-> 0, due |-> {}]

(***************************************************************************)
(* ApiKeyRepository.                                                        *)
(***************************************************************************)
Unused(k) == row[k].status = "none"

(* created_at orders the keys. *)
Issued(w, u) ==
  [NoRow EXCEPT !.status = "active", !.home = w, !.owner = u,
                !.born = Cardinality({k \in Key : ~Unused(k)})]

(* Out of grace: the boundary of authenticate_api_key, and its complement in SWEEP_SQL. *)
InGrace(k) == row[k].status = "rotating" /\ row[k].age < Grace
Expired(k) == row[k].status = "rotating" /\ row[k].age >= Grace
Closed(k) == [row[k] EXCEPT !.status = "revoked", !.age = IF Expired(k) THEN @ ELSE Grace]

(* INSERT with its audit row.  Members' keys are stored encrypted as well. *)
Create(k, w, u) ==
  /\ row' = [row EXCEPT ![k] = Issued(w, u)]
  /\ keyTrail' = [keyTrail EXCEPT ![k] = Append(@, "created")]

(* One UPDATE ... WHERE status IN ('active', 'rotating') and its audit row. *)
RevokeRow(k) ==
  /\ row[k].status \in {"active", "rotating"}
  /\ row' = [row EXCEPT ![k] = Closed(k)]
  /\ keyTrail' = [keyTrail EXCEPT ![k] = Append(@, "revoked")]

(* The successor inherits the workspace and the name, not the member.  NOW() is the instant the
   transaction began. *)
Succeed(k, new, age) ==
  /\ row' = [row EXCEPT ![new] = Issued(row[k].home, Nobody),
                        ![k].status = "rotating", ![k].age = age, ![k].successor = new]
  /\ keyTrail' = [keyTrail EXCEPT ![k] = Append(@, "rotated")]

(* The predicate of authenticate_api_key. *)
Usable(k) == row[k].status = "active" \/ InGrace(k)

(* The most recent active key of a member that has its plaintext stored. *)
FetchPlaintext(u) ==
  LET mine == {k \in Key : row[k].status = "active" /\ row[k].owner = u}
  IN {k \in mine : \A other \in mine : row[other].born <= row[k].born}

(***************************************************************************)
(* The handlers of /v1/keys, for administrators.                            *)
(***************************************************************************)
CreateKey ==
  \E k \in Key, w \in Workspace, u \in Member \cup {Nobody} :
    /\ Unused(k)
    /\ Create(k, w, u)
    /\ UNCHANGED <<lock, keyCache, lookup, rotation, sweep>>

(* The UPDATE waits for a rotation that holds the row and then looks again. *)
RevokeKey ==
  \E k \in Key :
    /\ lock[k] = Nobody
    /\ RevokeRow(k)
    /\ UNCHANGED <<lock, keyCache, lookup, rotation, sweep>>

(* SELECT ... FOR UPDATE.  A rotation in progress is reported, not repeated. *)
RotateKey(a) ==
  /\ rotation[a].key = NoKey
  /\ \E k \in Key :
       /\ lock[k] = Nobody
       /\ row[k].status = "active"
       /\ lock' = [lock EXCEPT ![k] = a]
       /\ rotation' = [rotation EXCEPT ![a] = [key |-> k, age |-> 0]]
  /\ UNCHANGED <<row, keyTrail, keyCache, lookup, sweep>>

RotateCommit(a) ==
  /\ rotation[a].key # NoKey
  /\ \E new \in Key : Unused(new) /\ Succeed(rotation[a].key, new, rotation[a].age)
  /\ lock' = [lock EXCEPT ![rotation[a].key] = Nobody]
  /\ rotation' = [rotation EXCEPT ![a] = NoRotation]
  /\ UNCHANGED <<keyCache, lookup, sweep>>

(* A statement fails or the handler is dropped: the transaction rolls back. *)
RotateAbort(a) ==
  /\ rotation[a].key # NoKey
  /\ lock' = [lock EXCEPT ![rotation[a].key] = Nobody]
  /\ rotation' = [rotation EXCEPT ![a] = NoRotation]
  /\ UNCHANGED <<row, keyTrail, keyCache, lookup, sweep>>

(***************************************************************************)
(* authenticate_request.                                                    *)
(***************************************************************************)
KeyCached(k) == keyCache[k] <= KeyTtl

(* A client presents a key it was given. *)
PresentKey(c) ==
  /\ lookup[c].pc = "idle"
  /\ \E k \in Key :
       /\ ~Unused(k)
       /\ lookup' = [lookup EXCEPT ![c] = [pc |-> "present", key |-> k, age |-> 0]]
  /\ UNCHANGED <<row, lock, keyTrail, keyCache, rotation, sweep>>

(* GET /v1/me/api-key for a member, who then presents what it returns. *)
FetchMine(c) ==
  /\ lookup[c].pc = "idle"
  /\ \E u \in Member : \E k \in FetchPlaintext(u) :
       lookup' = [lookup EXCEPT ![c] = [pc |-> "present", key |-> k, age |-> 0]]
  /\ UNCHANGED <<row, lock, keyTrail, keyCache, rotation, sweep>>

(* Mutant: a hit renews the entry. *)
CacheHitRenews(c) ==
  /\ lookup[c].pc = "present"
  /\ KeyCached(lookup[c].key)
  /\ lookup' = [lookup EXCEPT ![c] = NoLookup]
  /\ keyCache' = [keyCache EXCEPT ![lookup[c].key] = 0]
  /\ UNCHANGED <<row, lock, keyTrail, rotation, sweep>>

CacheHit(c) ==
  /\ lookup[c].pc = "present"
  /\ KeyCached(lookup[c].key)
  /\ lookup' = [lookup EXCEPT ![c] = NoLookup]
  /\ UNCHANGED <<row, lock, keyTrail, keyCache, rotation, sweep>>

(* The walk over the workspaces reads the row once, in the key's own. *)
LookUp(c) ==
  /\ lookup[c].pc = "present"
  /\ ~KeyCached(lookup[c].key)
  /\ Usable(lookup[c].key)
  /\ lookup' = [lookup EXCEPT ![c].pc = "found"]
  /\ UNCHANGED <<row, lock, keyTrail, keyCache, rotation, sweep>>

Refuse(c) ==
  /\ lookup[c].pc = "present"
  /\ ~KeyCached(lookup[c].key)
  /\ ~Usable(lookup[c].key)
  /\ lookup' = [lookup EXCEPT ![c] = NoLookup]
  /\ UNCHANGED <<row, lock, keyTrail, keyCache, rotation, sweep>>

(* cache_api_key stamps the entry when it is filled, not when it was read. *)
FillCache(c) ==
  /\ lookup[c].pc = "found"
  /\ keyCache' = [keyCache EXCEPT ![lookup[c].key] = 0]
  /\ lookup' = [lookup EXCEPT ![c] = NoLookup]
  /\ UNCHANGED <<row, lock, keyTrail, rotation, sweep>>

(* The client leaves, or the lookup fails. *)
Leave(c) ==
  /\ lookup[c].pc # "idle"
  /\ lookup' = [lookup EXCEPT ![c] = NoLookup]
  /\ UNCHANGED <<row, lock, keyTrail, keyCache, rotation, sweep>>

(***************************************************************************)
(* api_key_rotation::run in the worker.                                     *)
(***************************************************************************)
(* Mutant: an enumeration that row security empties is taken for an empty deployment. *)
EnumerateQuiet(blind) == [ok |-> TRUE, ids |-> IF blind THEN {} ELSE Workspace]

(* enumerate_workspaces: refused when row security would hide some of them. *)
Enumerate(blind) == IF blind THEN [ok |-> FALSE, ids |-> {}] ELSE [ok |-> TRUE, ids |-> Workspace]

SweepStart ==
  /\ sweep.pc = "idle"
  /\ \E blind \in BOOLEAN :
       LET seen == Enumerate(blind) IN
       sweep' = [pc |-> "sweeping", todo |-> seen.ids, enumerated |-> Cardinality(seen.ids),
                 swept |-> 0, failures |-> IF seen.ok THEN 0 ELSE 1,
                 due |-> {k \in Key : Expired(k)}]
  /\ UNCHANGED <<row, lock, keyTrail, keyCache, lookup, rotation>>

(* SWEEP_SQL in a transaction scoped to the workspace.  It writes no audit row. *)
SweepOne ==
  \E w \in sweep.todo :
    LET closed == {k \in Key : row[k].home = w /\ Expired(k)} IN
    /\ \A k \in closed : lock[k] = Nobody
    /\ row' = [k \in Key |-> IF k \in closed
                             THEN Closed(k) ELSE row[k]]
    /\ sweep' = [sweep EXCEPT !.todo = @ \ {w}, !.swept = @ + 1]
    /\ UNCHANGED <<lock, keyTrail, keyCache, lookup, rotation>>

SweepFails ==
  \E w \in sweep.todo :
    /\ sweep' = [sweep EXCEPT !.todo = @ \ {w}, !.failures = @ + 1]
    /\ UNCHANGED <<row, lock, keyTrail, keyCache, lookup, rotation>>

AllOk(o) == o.failures = 0 /\ o.swept = o.enumerated

SweepDone ==
  /\ sweep.pc = "sweeping"
  /\ sweep.todo = {}
  /\ sweep' = NoSweep
  /\ UNCHANGED <<row, lock, keyTrail, keyCache, lookup, rotation>>

(* A lookup reaches the cache, and a rotation its commit, within Stall. *)
Ageing(k) == row[k].status \in {"rotating", "revoked"} /\ row[k].age < OldestKey

KeysAge ==
  /\ \A c \in KeyCaller : lookup[c].pc = "found" => lookup[c].age < LookupStall
  /\ \A a \in KeyAdmin : rotation[a].key # NoKey => rotation[a].age < LookupStall
  /\ row' = [k \in Key |-> IF Ageing(k) THEN [row[k] EXCEPT !.age = @ + 1] ELSE row[k]]
  /\ keyCache' = [k \in Key |-> IF KeyCached(k) THEN keyCache[k] + 1 ELSE Uncached]
  /\ lookup' = [c \in KeyCaller |->
                  [lookup[c] EXCEPT !.age = IF lookup[c].pc = "found" THEN @ + 1 ELSE 0]]
  /\ rotation' = [a \in KeyAdmin |->
                    [rotation[a] EXCEPT !.age = IF rotation[a].key # NoKey THEN @ + 1 ELSE 0]]
  /\ UNCHANGED <<lock, keyTrail, sweep>>

KeysInit ==
  /\ row = [k \in Key |-> NoRow]
  /\ lock = [k \in Key |-> Nobody]
  /\ keyTrail = [k \in Key |-> <<>>]
  /\ keyCache = [k \in Key |-> Uncached]
  /\ lookup = [c \in KeyCaller |-> NoLookup]
  /\ rotation = [a \in KeyAdmin |-> NoRotation]
  /\ sweep = NoSweep

KeysNext ==
  \/ CreateKey \/ RevokeKey \/ SweepStart \/ SweepOne \/ SweepFails \/ SweepDone \/ KeysAge
  \/ \E a \in KeyAdmin : RotateKey(a) \/ RotateCommit(a) \/ RotateAbort(a)
  \/ \E c \in KeyCaller : \/ PresentKey(c) \/ FetchMine(c) \/ CacheHit(c) \/ LookUp(c)
                       \/ Refuse(c) \/ FillCache(c) \/ Leave(c)

KeysSpec == KeysInit /\ [][KeysNext]_keyVars

(***************************************************************************)
(* Properties.                                                              *)
(***************************************************************************)

(* How long a key has been dead: revoked, or rotated and out of grace. *)
DeadFor(k) == IF Usable(k) THEN 0 ELSE row[k].age - Grace

(* The cache outlives a revocation by its TTL and by the time between the lookup that filled it
   and the filling, and by nothing else: get_api_key never renews an entry, whoever uses it. *)
ServedInTime ==
  \A c \in KeyCaller : CacheHit(c) \/ FillCache(c) => DeadFor(lookup[c].key) <= LookupStall + KeyTtl

RevokedStopsInTime == [][ServedInTime]_keyVars

(* A sweep that reports success has closed every key that was out of grace when it began, in every
   workspace: all_ok is not vacuous when the enumeration sees nothing. *)
SweepIsComplete ==
  SweepDone /\ AllOk(sweep) => \A k \in sweep.due : row[k].status = "revoked"

CleanSweepIsComplete == [][SweepIsComplete]_keyVars

=============================================================================
