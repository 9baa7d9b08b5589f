----------------------------- MODULE RateLimit -----------------------------
(***************************************************************************)
(* The in-process sliding window: a bucket of instants per API key and one  *)
(* per workspace.  Instants are ages; one older than the window is kept     *)
(* until its bucket is looked at again.                                     *)
(***************************************************************************)
EXTENDS Naturals, Sequences, FiniteSets

CONSTANTS
  LimitedKey,       \* API keys of one workspace
  Shared,           \* the workspace's bucket
  Arrival,          \* requests being limited at the same time
  MaxRequests, Window,
  Capacity          \* the number of buckets beyond which requests are refused

(* AppState::new limits to 60 requests a minute, and registrations to 10 an hour. *)
ASSUME LimitsAssumption ==
  /\ MaxRequests \in Nat \ {0} /\ Window \in Nat

Bucket == LimitedKey \cup {Shared}

VARIABLES
  entry,            \* the instants of each bucket; <<>> where there is none
  turn,             \* what each caller checks next
  passed            \* the instants of the requests a bucket let through, recorded or not

limitVars == <<entry, turn, passed>>

NotStarted == [pc |-> "idle", key |-> Shared]

(* retain: the instants were pushed in the order of time, so that those past the window stand first. *)
Recent(instants) ==
  SubSeq(instants, Cardinality({i \in DOMAIN instants : instants[i] > Window}) + 1, Len(instants))

Tracked == {b \in Bucket : entry[b] # <<>>}

(* Mutant: the bucket is full only when it is beyond its limit. *)
VerdictLate(b) ==
  LET left == Recent(entry[b]) IN
  IF entry[b] # <<>> /\ left = <<>> THEN [ok |-> TRUE, keep |-> <<>>]
  ELSE IF Cardinality(Tracked) > Capacity \/ Len(left) > MaxRequests THEN [ok |-> FALSE, keep |-> left]
  ELSE [ok |-> TRUE, keep |-> Append(left, 0)]

(* RateLimiter::check: trim; drop a bucket that has run empty and let the request pass without
   recording it; refuse at capacity or at the limit; otherwise record. *)
Verdict(b) ==
  LET left == Recent(entry[b]) IN
  IF entry[b] # <<>> /\ left = <<>> THEN [ok |-> TRUE, keep |-> <<>>]
  ELSE IF Cardinality(Tracked) > Capacity \/ Len(left) >= MaxRequests THEN [ok |-> FALSE, keep |-> left]
  ELSE [ok |-> TRUE, keep |-> Append(left, 0)]

Check(b) ==
  /\ entry' = [entry EXCEPT ![b] = Verdict(b).keep]
  /\ passed' = IF Verdict(b).ok THEN [passed EXCEPT ![b] = Append(@, 0)] ELSE passed

(* enforce_rate_limit: the key's bucket, then the workspace's; a request the second one refuses
   stays in the first. *)
Arrive(c) ==
  /\ turn[c].pc = "idle"
  /\ \E k \in LimitedKey : turn' = [turn EXCEPT ![c] = [pc |-> "key", key |-> k]]
  /\ UNCHANGED <<entry, passed>>

CheckKey(c) ==
  /\ turn[c].pc = "key"
  /\ Check(turn[c].key)
  /\ turn' = [turn EXCEPT ![c] = IF Verdict(turn[c].key).ok THEN [@ EXCEPT !.pc = "workspace"]
                                                            ELSE NotStarted]

CheckWorkspace(c) ==
  /\ turn[c].pc = "workspace"
  /\ Check(Shared)
  /\ turn' = [turn EXCEPT ![c] = NotStarted]

Older(instants) == [i \in DOMAIN instants |-> IF instants[i] <= Window THEN instants[i] + 1 ELSE Window + 1]

Tick ==
  /\ entry' = [b \in Bucket |-> Older(entry[b])]
  /\ passed' = [b \in Bucket |-> Recent(Older(passed[b]))]
  /\ UNCHANGED turn

LimitsInit ==
  /\ entry = [b \in Bucket |-> <<>>]
  /\ turn = [c \in Arrival |-> NotStarted]
  /\ passed = [b \in Bucket |-> <<>>]

LimitsNext == Tick \/ \E c \in Arrival : Arrive(c) \/ CheckKey(c) \/ CheckWorkspace(c)

LimitsSpec == LimitsInit /\ [][LimitsNext]_limitVars

(* No window holds more than one request above the limit: the request that finds its bucket run
   empty is not recorded, and that can happen once in a window only. *)
RateBound == \A b \in Bucket : Len(passed[b]) <= MaxRequests + 1

=============================================================================
