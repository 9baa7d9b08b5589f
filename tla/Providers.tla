----------------------------- MODULE Providers -----------------------------
(***************************************************************************)
(* The catalogue of one workspace: provider credentials, the models          *)
(* registered for them by hand and by syncing with the upstream, and the      *)
(* resolution cache the request path reads them through.  A credential is a   *)
(* version number; models has no unique constraint, so a name may have        *)
(* several rows.                                                              *)
(***************************************************************************)
EXTENDS Naturals, FiniteSets, FiniteSetsExt

CONSTANTS
  Provider, Model,
  Editor,       \* administrators' requests at the same time
  Resolver,     \* requests resolving a model at the same time
  Absent,
  ModelTtl,     \* CACHE_TTL
  ResolveStall, \* how long a resolution may take from its read to the cache
  MaxRows,      \* rows in models at a time
  MaxCredential \* credentials ever stored

ASSUME CatalogueAssumption ==
  /\ ModelTtl \in Nat /\ ResolveStall \in Nat /\ MaxCredential \in Nat
  /\ Absent \notin Nat

VARIABLES
  credential,   \* providers: the stored credential, Absent, or NoProvider
  retired,      \* how long each credential has not been the stored one
  models,       \* models rows
  catalogueTrail, \* the newest audit row of each provider
  edit,         \* the administrators' requests
  resolution,   \* the requests resolving a model
  modelCache    \* ConfigCache.models: the targets of each name and their age

catalogueVars == <<credential, retired, models, catalogueTrail, edit, resolution, modelCache>>

NoProvider == 0
Credential == 1..MaxCredential
NoEdit == [pc |-> "idle", provider |-> Absent, todo |-> {}, existing |-> {}, excluded |-> {},
           name |-> Absent, found |-> Absent, kept |-> Absent]
NoResolution == [pc |-> "idle", model |-> Absent, targets |-> {}, age |-> 0]
Unfilled == [targets |-> {}, age |-> ModelTtl + 1]

Exists(p) == credential[p] # NoProvider
Listed(p) == {r.name : r \in {m \in models : m.provider = p /\ ~m.excluded}}
Excluded(p) == {r.name : r \in {m \in models : m.provider = p /\ m.excluded}}
NewestCredential == Cardinality({c \in Credential : retired[c] # Absent})

(***************************************************************************)
(* ProviderRepository.                                                      *)
(***************************************************************************)
(* The credential a provider is given, if any, was encrypted by the handler first. *)
Store(p, c) ==
  /\ credential' = [credential EXCEPT ![p] = c]
  /\ retired' = [v \in Credential |-> IF v = c THEN 0 ELSE retired[v]]

CreateRow(p, c) ==
  /\ Store(p, c)
  /\ catalogueTrail' = [catalogueTrail EXCEPT ![p] = "created"]

(* UPDATE ... RETURNING: a provider that is gone by now is an error and nothing is written. *)
UpdateRow(p, c) ==
  /\ Store(p, c)
  /\ catalogueTrail' = [catalogueTrail EXCEPT ![p] = "updated"]

(* The models go with the provider (ON DELETE CASCADE). *)
DeleteRow(p) ==
  /\ credential' = [credential EXCEPT ![p] = NoProvider]
  /\ models' = {m \in models : m.provider # p}
  /\ catalogueTrail' = [catalogueTrail EXCEPT ![p] = "deleted"]

(* create_model before its write: the row it found, or Absent. *)
FindModel(p, n) ==
  LET rows == {m \in models : m.provider = p /\ m.name = n} IN IF rows = {} THEN {Absent} ELSE rows

FreeIds == 1..MaxRows \ {m.id : m \in models}

(* It revives the row it found, or inserts one. *)
ReviveOrInsert(p, n, found) ==
  IF found = Absent
  THEN models' = models \cup {[id |-> Min(FreeIds), provider |-> p, name |-> n, excluded |-> FALSE]}
  ELSE models' = {IF m.id = found.id /\ found.excluded THEN [m EXCEPT !.excluded = FALSE] ELSE m :
                    m \in models}

ExcludeModels(p, names) ==
  models' = {IF m.provider = p /\ m.name \in names THEN [m EXCEPT !.excluded = TRUE] ELSE m :
               m \in models}

(* resolve_model_targets: the providers of every row with the name, whether excluded or not.  Their
   order is that of the fallback chain in Pipeline. *)
ResolveTargets(n) == {p \in Provider : \E m \in models : m.name = n /\ m.provider = p}

(***************************************************************************)
(* The provider handlers.  A credential in the body starts a sync after the  *)
(* write (auto_sync_models); its failure is only logged.                     *)
(***************************************************************************)
StartSync(a, p) == edit' = [edit EXCEPT ![a] = [NoEdit EXCEPT !.pc = "upstream", !.provider = p]]

NewCredential == {c \in Credential : c = NewestCredential + 1}

CreateProvider(a) ==
  /\ edit[a].pc = "idle"
  /\ \E p \in Provider, c \in NewCredential \cup {Absent} :
       /\ ~Exists(p)
       /\ CreateRow(p, c)
       /\ IF c = Absent THEN UNCHANGED edit ELSE StartSync(a, p)
  /\ UNCHANGED <<models, resolution, modelCache>>

(* The row is read without a lock; what the body leaves out is written back as it was read. *)
UpdateRead(a) ==
  /\ edit[a].pc = "idle"
  /\ \E p \in Provider, rotates \in BOOLEAN :
       /\ Exists(p)
       /\ edit' = [edit EXCEPT ![a] = [NoEdit EXCEPT !.provider = p,
                    !.pc = IF rotates THEN "rotate" ELSE "rename", !.kept = credential[p]]]
  /\ UNCHANGED <<credential, retired, models, catalogueTrail, resolution, modelCache>>

UpdateWrite(a) ==
  /\ edit[a].pc \in {"rotate", "rename"}
  /\ Exists(edit[a].provider)
  /\ \/ /\ edit[a].pc = "rename"
        /\ UpdateRow(edit[a].provider, edit[a].kept)
        /\ edit' = [edit EXCEPT ![a] = NoEdit]
     \/ /\ edit[a].pc = "rotate"
        /\ \E c \in NewCredential : UpdateRow(edit[a].provider, c)
        /\ StartSync(a, edit[a].provider)
  /\ UNCHANGED <<models, resolution, modelCache>>

DeleteProvider ==
  \E p \in Provider :
    /\ Exists(p)
    /\ DeleteRow(p)
    /\ UNCHANGED <<retired, edit, resolution, modelCache>>

(***************************************************************************)
(* The model handlers.                                                      *)
(***************************************************************************)
DeleteModels ==
  \E p \in Provider, names \in SUBSET Model :
    /\ names \cap Listed(p) # {}
    /\ ExcludeModels(p, names)
    /\ UNCHANGED <<credential, retired, catalogueTrail, edit, resolution, modelCache>>

(* delete_model marks the rows that were still listed; there is an error when there was none. *)
DeleteModel ==
  \E p \in Provider : \E n \in Listed(p) :
    /\ ExcludeModels(p, {n})
    /\ UNCHANGED <<credential, retired, catalogueTrail, edit, resolution, modelCache>>

AddModel(a) ==
  /\ edit[a].pc = "idle"
  /\ \E p \in Provider, n \in Model : \E found \in FindModel(p, n) :
       /\ Exists(p)
       /\ edit' = [edit EXCEPT ![a] = [NoEdit EXCEPT !.pc = "add", !.provider = p, !.name = n,
                                                     !.found = found]]
  /\ UNCHANGED <<credential, retired, models, catalogueTrail, resolution, modelCache>>

(* sync_provider_models reads the provider with its credential first. *)
SyncProvider(a) ==
  /\ edit[a].pc = "idle"
  /\ \E p \in Provider : credential[p] \in Credential /\ StartSync(a, p)
  /\ UNCHANGED <<credential, retired, models, catalogueTrail, resolution, modelCache>>

(* The upstream answers with the models it serves now. *)
ListUpstream(a) ==
  /\ edit[a].pc = "upstream"
  /\ \E names \in SUBSET Model : edit' = [edit EXCEPT ![a].pc = "existing", ![a].todo = names]
  /\ UNCHANGED <<credential, retired, models, catalogueTrail, resolution, modelCache>>

ReadExisting(a) ==
  /\ edit[a].pc = "existing"
  /\ edit' = [edit EXCEPT ![a].pc = "excluded", ![a].existing = Listed(edit[a].provider)]
  /\ UNCHANGED <<credential, retired, models, catalogueTrail, resolution, modelCache>>

ReadExcluded(a) ==
  /\ edit[a].pc = "excluded"
  /\ edit' = [edit EXCEPT ![a].pc = "each", ![a].excluded = Excluded(edit[a].provider)]
  /\ UNCHANGED <<credential, retired, models, catalogueTrail, resolution, modelCache>>

(* A model the administrator removed is left out, one already listed is kept. *)
ToAdd(a) == edit[a].todo \ (edit[a].excluded \cup edit[a].existing)

SyncEach(a) ==
  /\ edit[a].pc = "each"
  /\ \E n \in ToAdd(a) :
       /\ Exists(edit[a].provider)
       /\ \E found \in FindModel(edit[a].provider, n) :
            edit' = [edit EXCEPT ![a].pc = "create", ![a].name = n, ![a].found = found]
  /\ UNCHANGED <<credential, retired, models, catalogueTrail, resolution, modelCache>>

Continue(a) ==
  edit' = [edit EXCEPT ![a] = IF edit[a].pc = "add" THEN NoEdit
                            ELSE [edit[a] EXCEPT !.pc = "each", !.todo = @ \ {edit[a].name},
                                                !.found = Absent]]

(* The write of create_model. *)
CreateModel(a) ==
  /\ edit[a].pc \in {"add", "create"}
  /\ edit[a].found = Absent => Exists(edit[a].provider) /\ FreeIds # {}
  /\ ReviveOrInsert(edit[a].provider, edit[a].name, edit[a].found)
  /\ Continue(a)
  /\ UNCHANGED <<credential, retired, catalogueTrail, resolution, modelCache>>

(* The request ends, on an error or with its answer; a sync goes on past a model it cannot insert. *)
EndJob(a) ==
  /\ edit[a].pc # "idle"
  /\ \/ edit' = [edit EXCEPT ![a] = NoEdit]
     \/ edit[a].pc = "create" /\ Continue(a)
  /\ UNCHANGED <<credential, retired, models, catalogueTrail, resolution, modelCache>>

(***************************************************************************)
(* resolve_model.                                                           *)
(***************************************************************************)
(* Mutant: an entry is believed for one tick too many. *)
ModelCachedPastTtl(n) == modelCache[n].age <= ModelTtl + 1

(* get_model: entries are not evicted, they are no longer believed. *)
ModelCached(n) == modelCache[n].age <= ModelTtl
Target(p) == [provider |-> p, credential |-> credential[p]]
Targets(n) == {Target(p) : p \in ResolveTargets(n)}

(* A name no row has falls back to the newest provider, and that answer is not cached. *)
ResolveRead(c) ==
  /\ resolution[c].pc = "idle"
  /\ \E n \in Model :
       /\ ~ModelCached(n) /\ ResolveTargets(n) # {}
       /\ resolution' = [resolution EXCEPT ![c] =
                           [pc |-> "read", model |-> n, targets |-> Targets(n), age |-> 0]]
  /\ UNCHANGED <<credential, retired, models, catalogueTrail, edit, modelCache>>

ResolveFill(c) ==
  /\ resolution[c].pc = "read"
  /\ modelCache' = [modelCache EXCEPT ![resolution[c].model] =
                      [targets |-> resolution[c].targets, age |-> 0]]
  /\ resolution' = [resolution EXCEPT ![c] = NoResolution]
  /\ UNCHANGED <<credential, retired, models, catalogueTrail, edit>>

Current(v) == \E p \in Provider : credential[p] = v
OldestRetired == ModelTtl + ResolveStall + 1

CatalogueAges ==
  /\ \A c \in Resolver : resolution[c].pc = "read" => resolution[c].age < ResolveStall
  /\ retired' = [v \in Credential |-> IF retired[v] = Absent THEN Absent
                   ELSE IF Current(v) THEN 0
                   ELSE IF retired[v] < OldestRetired THEN retired[v] + 1 ELSE OldestRetired]
  /\ modelCache' = [n \in Model |-> IF ModelCached(n) THEN [modelCache[n] EXCEPT !.age = @ + 1]
                                    ELSE modelCache[n]]
  /\ resolution' = [c \in Resolver |-> IF resolution[c].pc = "read"
                                       THEN [resolution[c] EXCEPT !.age = @ + 1] ELSE resolution[c]]
  /\ UNCHANGED <<credential, models, catalogueTrail, edit>>

CatalogueInit ==
  /\ credential = [p \in Provider |-> NoProvider]
  /\ retired = [v \in Credential |-> Absent]
  /\ models = {}
  /\ catalogueTrail = [p \in Provider |-> Absent]
  /\ edit = [a \in Editor |-> NoEdit]
  /\ resolution = [c \in Resolver |-> NoResolution]
  /\ modelCache = [n \in Model |-> Unfilled]

CatalogueNext ==
  \/ DeleteProvider \/ DeleteModel \/ DeleteModels \/ CatalogueAges
  \/ \E a \in Editor :
       \/ CreateProvider(a) \/ UpdateRead(a) \/ UpdateWrite(a) \/ AddModel(a) \/ SyncProvider(a)
       \/ ListUpstream(a) \/ ReadExisting(a) \/ ReadExcluded(a) \/ SyncEach(a) \/ CreateModel(a)
       \/ EndJob(a)
  \/ \E c \in Resolver : ResolveRead(c) \/ ResolveFill(c)

CatalogueSpec == CatalogueInit /\ [][CatalogueNext]_catalogueVars

(***************************************************************************)
(* Properties.                                                              *)
(***************************************************************************)

(* A credential that was rotated away, or went with its provider, serves for at most the TTL of the
   resolution cache and the time between a resolution's read and its entry. *)
RotatedInTime ==
  \A n \in Model : ModelCached(n) =>
    \A t \in modelCache[n].targets :
      t.credential \in Credential => retired[t.credential] <= ModelTtl + ResolveStall

=============================================================================
