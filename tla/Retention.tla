----------------------------- MODULE Retention -----------------------------
(***************************************************************************)
(* What the gateway keeps of its users and for how long: the token vault of  *)
(* /tokenize, the captured content of opted-in workspaces, the device        *)
(* context of the sessions, and the nightly retention.purge of the worker    *)
(* that removes them.                                                        *)
(***************************************************************************)
EXTENDS Naturals, FiniteSets

CONSTANTS
  Workspace,
  Entry, Capture, Session,   \* rows that may come to exist
  VaultTtl,                  \* lifetime of a vault entry
  Days,                      \* the retentions an administrator may choose
  MaxLag,                    \* how long a run may take
  None

ASSUME RetentionAssumption ==
  /\ VaultTtl \in Nat /\ MaxLag \in Nat
  /\ Days \subseteq Nat /\ \E d \in Days : \A other \in Days : other <= d
  /\ None \notin Workspace /\ None # Workspace
  /\ None \notin [home : Workspace, age : Nat]
  /\ None \notin [enabled : BOOLEAN, days : Days]
  /\ None \notin [home : Workspace, pc : {"decided", "stored"}, age : Nat]
  /\ None \notin [home : Workspace, state : {"fresh", "rotated", "revoked", "expired"}, device : BOOLEAN]

VARIABLES
  vault,        \* token_vault_entries
  setting,      \* workspace_raw_capture
  captured,     \* request_content_captures, and the requests on their way there
  session,      \* the refresh_tokens chains, with the context of the sign-in row
  purge         \* the run in progress, and the scopes whose global audit row will say ok

retentionVars == <<vault, setting, captured, session, purge>>

MaxDays == CHOOSE d \in Days : \A other \in Days : other <= d
OldestEntry == MaxLag + VaultTtl
OldestCapture == MaxLag + MaxDays + 1

NoDue == [vault |-> {}, captures |-> {}, device |-> {}]
NoPurge == [pc |-> "idle", lag |-> 0, todo |-> {}, home |-> None, days |-> None,
            bad |-> {}, census |-> {}, over |-> {}, due |-> NoDue]

(***************************************************************************)
(* The requests that leave something behind.                                *)
(***************************************************************************)
(* sidecar_coverage::enforce: lost coverage blocks unless the workspace opted out. *)
Enforce(covered, policy) == covered \/ policy = "degrade_with_alert"

(* POST /v1/secure-mode/tokenize.  A request that is blocked, or whose mapping the KMS does not
   seal, leaves no row. *)
Tokenize ==
  \E e \in Entry, w \in Workspace :
    /\ vault[e] = None /\ e \notin purge.due.vault   \* a fresh id
    /\ \E covered, sealed \in BOOLEAN, policy \in {"block", "degrade_with_alert"} :
         Enforce(covered, policy) /\ sealed
    /\ vault' = [vault EXCEPT ![e] = [home |-> w, age |-> 0]]
    /\ UNCHANGED <<setting, captured, session, purge>>

(* What detokenize finds: the caller's own entry, before it expires. *)
Detokenizes(e, w) == vault[e] # None /\ vault[e].home = w /\ vault[e].age < VaultTtl

(* PUT /v1/secure-mode, as far as capture goes. *)
SetCapture ==
  \E w \in Workspace, on \in BOOLEAN, d \in Days :
    /\ setting' = [setting EXCEPT ![w] = [enabled |-> on, days |-> d]]
    /\ purge' = [purge EXCEPT !.due.captures =
                   {c \in @ : captured[c] # None /\ captured[c].home = w => captured[c].age > d + purge.lag}]
    /\ UNCHANGED <<vault, captured, session>>

(* CaptureDecision: read once, at the top of the request.  No row, or a failed read, is off. *)
Decide ==
  \E c \in Capture, w \in Workspace :
    /\ captured[c] = None /\ c \notin purge.due.captures   \* a fresh id
    /\ setting[w] # None /\ setting[w].enabled
    /\ captured' = [captured EXCEPT ![c] = [home |-> w, pc |-> "decided", age |-> 0]]
    /\ UNCHANGED <<vault, setting, session, purge>>

(* capture::seal and the analytics writer, which stamps created_at.  If the KMS refuses a field
   nothing is stored. *)
Store ==
  \E c \in Capture, sealed \in BOOLEAN :
    /\ captured[c] # None
    /\ captured[c].pc = "decided"
    /\ captured' = [captured EXCEPT ![c] = IF sealed THEN [@ EXCEPT !.pc = "stored"] ELSE None]
    /\ UNCHANGED <<vault, setting, session, purge>>

(* A sign-in writes the device context on its row; a rotation revokes that row and adds one that
   has none; a logout revokes the chain, and so does time. *)
SignIn ==
  \E s \in Session, w \in Workspace :
    /\ session[s] = None
    /\ session' = [session EXCEPT ![s] = [home |-> w, state |-> "fresh", device |-> TRUE]]
    /\ UNCHANGED <<vault, setting, captured, purge>>

ChainMoves(from, to) ==
  \E s \in Session :
    /\ session[s] # None
    /\ session[s].state \in from
    /\ session' = [session EXCEPT ![s].state = to]
    /\ UNCHANGED <<vault, setting, captured, purge>>

Rotate == ChainMoves({"fresh"}, "rotated")
EndSession == ChainMoves({"fresh", "rotated"}, "revoked")
SessionExpires == ChainMoves({"fresh", "rotated"}, "expired")

(***************************************************************************)
(* retention_purge::run.  Its clock is read once, at the start: what          *)
(* happened since is lag younger.                                            *)
(***************************************************************************)
(* Mutant: a blind enumeration answers the empty set. *)
EnumerateQuiet(blind) == IF blind THEN {} ELSE Workspace

(* enumerate_workspaces refuses to answer when row security would hide some of them. *)
Enumerate(blind) == IF blind THEN None ELSE Workspace

(* A record of status error anywhere makes all_ok false. *)
AllOk(p) == p.bad = {}

(* census_record: a failure when the enumeration failed or a workspace could not be reached. *)
CensusRecord(scope, seen) == [bad |-> IF seen = None THEN {scope} ELSE {},
                              todo |-> IF seen = None THEN {} ELSE seen]

(* What a run that starts now has to remove. *)
Due ==
  [vault |-> {e \in Entry : vault[e] # None /\ vault[e].age >= VaultTtl},
   captures |-> {c \in Capture :
                   /\ captured[c] # None /\ captured[c].pc = "stored"
                   /\ LET now == setting[captured[c].home] IN now # None /\ captured[c].age > now.days},
   device |-> {s \in Session : /\ session[s] # None /\ session[s].device
                               /\ session[s].state \in {"revoked", "expired"}}]

RunPurge ==
  /\ purge.pc = "idle"
  /\ purge' = [NoPurge EXCEPT !.pc = "vault", !.due = Due,
                 !.over = {s \in Session : session[s] # None /\ session[s].state = "expired"}]
  /\ UNCHANGED <<vault, setting, captured, session>>

ExpiredAtStart(e) == vault[e] # None /\ vault[e].age >= VaultTtl + purge.lag

(* One statement deletes and counts, a second recounts: a failure of either is the error record,
   a failure of the second after the rows are gone. *)
PurgeTokenVault ==
  /\ purge.pc = "vault"
  /\ \E deleted, recounted, blind \in BOOLEAN :
       LET sweep == CensusRecord("captures", Enumerate(blind)) IN
       /\ vault' = IF deleted THEN [e \in Entry |-> IF ExpiredAtStart(e) THEN None ELSE vault[e]]
                   ELSE vault
       /\ purge' = [purge EXCEPT !.pc = "captures", !.todo = sweep.todo,
                      !.bad = (IF deleted /\ recounted THEN {} ELSE {"vault"}) \cup sweep.bad,
                      !.census = (IF deleted /\ recounted THEN {"vault"} ELSE {})
                                 \cup ({"captures"} \ sweep.bad)]
  /\ UNCHANGED <<setting, captured, session>>

(* read_capture_retention, in a transaction whose scope is read back.  A workspace without a row
   is passed over; one that cannot be read is skipped, not purged with a default. *)
ReadRetention ==
  /\ purge.pc = "captures" /\ purge.home = None
  /\ \E w \in purge.todo, readable \in BOOLEAN :
       LET settled == ~readable \/ setting[w] = None IN
       purge' = [purge EXCEPT !.todo = @ \ {w},
                   !.home = IF settled THEN None ELSE w,
                   !.days = IF settled THEN None ELSE setting[w].days,
                   !.bad = IF readable THEN @ ELSE @ \cup {"captures"},
                   !.census = IF readable THEN @ ELSE @ \ {"captures"}]
  /\ UNCHANGED <<vault, setting, captured, session>>

PastCutoff(c) ==
  /\ captured[c] # None
  /\ captured[c].pc = "stored"
  /\ captured[c].home = purge.home
  /\ captured[c].age > purge.days + purge.lag

(* purge_one_workspace_captures: count, delete, recount.  Its failure is not the census's. *)
PurgeOneWorkspace ==
  /\ purge.pc = "captures" /\ purge.home # None
  /\ \E counted, deleted, recounted \in BOOLEAN :
       /\ captured' = IF counted /\ deleted
                      THEN [c \in Capture |-> IF PastCutoff(c) THEN None ELSE captured[c]]
                      ELSE captured
       /\ purge' = [purge EXCEPT !.home = None, !.days = None,
                      !.bad = IF counted /\ deleted /\ recounted THEN @ ELSE @ \cup {"captures"}]
  /\ UNCHANGED <<vault, setting, session>>

CapturesDone ==
  /\ purge.pc = "captures" /\ purge.home = None /\ purge.todo = {}
  /\ \E blind \in BOOLEAN :
       LET sweep == CensusRecord("device", Enumerate(blind)) IN
       purge' = [purge EXCEPT !.pc = "device", !.todo = sweep.todo, !.bad = @ \cup sweep.bad,
                              !.census = @ \cup ({"device"} \ sweep.bad)]
  /\ UNCHANGED <<vault, setting, captured, session>>

(* Mutant: the predicate applied to the row instead of the chain. *)
OverPerRow(s) == session[s].state \in {"rotated", "revoked"} \/ s \in purge.over

(* NOT EXISTS a live row in the chain, for the clock of the run.  A chain and not a row: the row
   with the context is revoked by the first rotation. *)
Over(s) == session[s].state = "revoked" \/ s \in purge.over

(* One transaction erases, a second recounts; the loss of either is that workspace's error. *)
ScrubOneWorkspace ==
  /\ purge.pc = "device"
  /\ \E w \in purge.todo, erased, recounted \in BOOLEAN :
       /\ session' = [s \in Session |->
                        IF erased /\ session[s] # None /\ session[s].home = w /\ Over(s)
                        THEN [session[s] EXCEPT !.device = FALSE] ELSE session[s]]
       /\ purge' = [purge EXCEPT !.todo = @ \ {w},
                      !.bad = IF erased /\ recounted THEN @ ELSE @ \cup {"device"},
                      !.census = IF erased /\ recounted THEN @ ELSE @ \ {"device"}]
  /\ UNCHANGED <<vault, setting, captured>>

(* write_audit, once per record: the rows are only ever read by an auditor, and one that cannot
   be written is logged and the run goes on. *)
FinishPurge ==
  /\ purge.pc = "device" /\ purge.todo = {}
  /\ purge' = NoPurge
  /\ UNCHANGED <<vault, setting, captured, session>>

(* The worker dies: the task was taken off the queue and nobody repeats it before the next night. *)
WorkerDies ==
  /\ purge.pc # "idle"
  /\ purge' = NoPurge
  /\ UNCHANGED <<vault, setting, captured, session>>

Older(row, limit) == IF row # None /\ row.age < limit THEN [row EXCEPT !.age = @ + 1] ELSE row

TimePasses ==
  /\ purge.pc # "idle" => purge.lag < MaxLag
  /\ vault' = [e \in Entry |-> Older(vault[e], OldestEntry)]
  /\ captured' = [c \in Capture |->
                    IF captured[c] # None /\ captured[c].pc = "stored"
                    THEN Older(captured[c], OldestCapture) ELSE captured[c]]
  /\ purge' = IF purge.pc = "idle" THEN purge ELSE [purge EXCEPT !.lag = @ + 1]
  /\ UNCHANGED <<setting, session>>

RetentionInit ==
  /\ vault = [e \in Entry |-> None]
  /\ setting = [w \in Workspace |-> None]
  /\ captured = [c \in Capture |-> None]
  /\ session = [s \in Session |-> None]
  /\ purge = NoPurge

RetentionNext ==
  \/ Tokenize \/ SetCapture \/ Decide \/ Store \/ SignIn \/ Rotate \/ EndSession \/ SessionExpires
  \/ RunPurge \/ PurgeTokenVault \/ ReadRetention \/ PurgeOneWorkspace \/ CapturesDone
  \/ ScrubOneWorkspace \/ FinishPurge \/ WorkerDies \/ TimePasses

RetentionSpec == RetentionInit /\ [][RetentionNext]_retentionVars

(***************************************************************************)
(* Properties.                                                              *)
(***************************************************************************)

(* A run whose records are all ok has removed everything that was due when it began, in every
   workspace, except captures whose retention was raised meanwhile; and a global row that says ok
   for the vault or the device context says so of every workspace on its own.  The audit row must
   not look the same when the job saw nothing as when there was nothing to see. *)
RunIsClean ==
  FinishPurge =>
    /\ AllOk(purge) => \A c \in purge.due.captures : captured[c] = None
    /\ "vault" \in purge.census => \A e \in purge.due.vault : vault[e] = None
    /\ "device" \in purge.census => \A s \in purge.due.device : ~session[s].device

CleanRunIsClean == [][RunIsClean]_retentionVars

(* The purge takes nothing anybody can still use, whatever happens while it runs: an entry its
   caller can still restore from, the context by which a live session is told apart in the
   listing.  The scrub decides per chain, and every cutoff is the clock of the run's start. *)
LivingSpared ==
  /\ \A e \in Entry, w \in Workspace : Detokenizes(e, w) => vault'[e] # None
  /\ \A s \in Session :
       session[s] # None /\ session'[s].state \in {"fresh", "rotated"} => session'[s].device

PurgeSparesTheLiving == [][LivingSpared]_retentionVars

=============================================================================
