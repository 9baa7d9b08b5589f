--------------------------- MODULE SidecarBreaker ---------------------------
(***************************************************************************)
(* The circuit breaker in front of the ML sidecar and the calls that go    *)
(* through it (ml_sidecar/client.rs): AtomicCircuit is two relaxed atomics *)
(* that every request of the gateway shares, and each load, store or       *)
(* fetch_add on them is a step of its own.  A call is a detection, which   *)
(* sends its chunks one after another, an injection check or a rag check.  *)
(*                                                                         *)
(* open_since is kept as the time that has passed since, up to             *)
(* OpenDuration.  consecutive_failures stops at FailureThreshold + 1: the  *)
(* code only asks whether it becomes equal to the threshold.               *)
(***************************************************************************)
EXTENDS Integers, FiniteSets

CONSTANTS Caller,            \* requests in flight
          FailureThreshold,
          OpenDuration,
          MaxChunks          \* bound on the chunks of a prompt

ASSUME BreakerAssumption ==
  /\ FailureThreshold \in Nat \ {0} /\ OpenDuration \in Nat \ {0} /\ MaxChunks \in Nat \ {0}

VARIABLES
  failures,   \* consecutive_failures
  openFor,    \* open_since, as an age; Closed for 0
  call,       \* the calls in flight
  down        \* the sidecar has failed for good

breakerVars == <<failures, openFor, call, down>>

Closed == -1

Op == {"detect", "injection", "rag"}

Idle == [pc |-> "idle", op |-> "none", total |-> 0, chunk |-> 0, attempted |-> 0,
         covered |-> {}, outcome |-> "none"]

BreakerInit ==
  /\ failures = 0 /\ openFor = Closed
  /\ call = [c \in Caller |-> Idle]
  /\ down = FALSE

Goto(c, to) == call' = [call EXCEPT ![c].pc = to]

Bump(n) == IF n > FailureThreshold THEN n ELSE n + 1

(* A prompt is cut into chunks; the other checks send it whole. *)
Start(c) ==
  /\ call[c].pc = "idle"
  /\ \E op \in Op : \E total \in IF op = "detect" THEN 1..MaxChunks ELSE {1} :
       call' = [call EXCEPT ![c] = [Idle EXCEPT !.pc = "gate", !.op = op, !.total = total]]
  /\ UNCHANGED <<failures, openFor, down>>

-----------------------------------------------------------------------------
(* AtomicCircuit::is_open, before the call ("gate") and, for a detection,   *)
(* again before each chunk ("chunk")                                        *)

LoadOpenSince(c) ==
  /\ call[c].pc \in {"gate", "chunk"}
  /\ Goto(c, IF openFor = OpenDuration
             THEN IF call[c].pc = "gate" THEN "reset_gate" ELSE "reset_chunk"
             ELSE IF openFor # Closed THEN "refused"
             ELSE IF call[c].pc = "gate" /\ call[c].op = "detect" THEN "chunk" ELSE "send")
  /\ UNCHANGED <<failures, openFor, down>>

(* The half-open reset: two stores. *)
ResetOpenSince(c) ==
  /\ call[c].pc \in {"reset_gate", "reset_chunk"}
  /\ openFor' = Closed
  /\ Goto(c, IF call[c].pc = "reset_gate" THEN "zero_gate" ELSE "zero_chunk")
  /\ UNCHANGED <<failures, down>>

ResetFailures(c) ==
  /\ call[c].pc \in {"zero_gate", "zero_chunk"}
  /\ failures' = 0
  /\ Goto(c, IF call[c].pc = "zero_gate" /\ call[c].op = "detect" THEN "chunk" ELSE "send")
  /\ UNCHANGED <<openFor, down>>

-----------------------------------------------------------------------------
(* The calls *)

(* The aggregate budget runs out between two chunks: the loop ends. *)
OutOfBudget(c) ==
  /\ call[c].pc = "send" /\ call[c].chunk > 0
  /\ Goto(c, "refused")
  /\ UNCHANGED <<failures, openFor, down>>

Sent(c) == [call[c] EXCEPT !.chunk = @ + 1, !.attempted = @ + 1]

(* The sidecar answers. *)
Succeeds(c) ==
  /\ call[c].pc = "send" /\ ~down
  /\ call' = [call EXCEPT ![c] = [Sent(c) EXCEPT !.pc = "success",
                                                 !.covered = @ \cup {call[c].chunk + 1}]]
  /\ UNCHANGED <<failures, openFor, down>>

(* A 429 or another 4xx (for an injection check a 5xx too) says nothing of  *)
(* the sidecar's health.  A rag check does not look at the status.          *)
Rejected(c) ==
  /\ call[c].pc = "send" /\ ~down /\ call[c].op # "rag"
  /\ call' = [call EXCEPT ![c] = [Sent(c) EXCEPT !.pc = "next"]]
  /\ UNCHANGED <<failures, openFor, down>>

(* Mutant: a failure is taken for a rejection. *)
FailsUncounted(c) ==
  /\ call[c].pc = "send"
  /\ call' = [call EXCEPT ![c] = [Sent(c) EXCEPT !.pc = "next"]]
  /\ UNCHANGED <<failures, openFor, down>>

(* A timeout, a refused connection or a body that does not parse, up to     *)
(* record_failure's fetch_add.                                              *)
Fails(c) ==
  /\ call[c].pc = "send"
  /\ failures' = Bump(failures)
  /\ call' = [call EXCEPT ![c] = [Sent(c) EXCEPT !.pc =
                IF failures + 1 = FailureThreshold THEN "open" ELSE "next"]]
  /\ UNCHANGED <<openFor, down>>

StoreOpen(c) ==
  /\ call[c].pc = "open"
  /\ openFor' = 0
  /\ Goto(c, "next")
  /\ UNCHANGED <<failures, down>>

(* record_success: two stores. *)
StoreNoFailures(c) ==
  /\ call[c].pc = "success"
  /\ failures' = 0
  /\ Goto(c, "close")
  /\ UNCHANGED <<openFor, down>>

StoreClosed(c) ==
  /\ call[c].pc = "close"
  /\ openFor' = Closed
  /\ Goto(c, "next")
  /\ UNCHANGED <<failures, down>>

(* Mutant: the chunks that were sent are the ones that count. *)
ClassifyByAttempts(r) ==
  IF r.attempted = 0 THEN "absent" ELSE IF r.attempted < r.total THEN "partial" ELSE "complete"

(* classify_coverage *)
Classify(r) ==
  IF r.covered = {} THEN "absent"
  ELSE IF Cardinality(r.covered) < r.total THEN "partial" ELSE "complete"

(* The next chunk, or the end of the call. *)
NextChunk(c) ==
  /\ call[c].pc = "next" /\ call[c].chunk < call[c].total
  /\ Goto(c, "chunk")
  /\ UNCHANGED <<failures, openFor, down>>

Finish(c) ==
  /\ \/ call[c].pc = "next" /\ call[c].chunk = call[c].total
     \/ call[c].pc = "refused"
  /\ call' = [call EXCEPT ![c].pc = "done", ![c].outcome = Classify(call[c])]
  /\ UNCHANGED <<failures, openFor, down>>

Return(c) ==
  /\ call[c].pc = "done"
  /\ call' = [call EXCEPT ![c] = Idle]
  /\ UNCHANGED <<failures, openFor, down>>

(* The request is dropped while the sidecar works on it. *)
Dropped(c) ==
  /\ call[c].pc = "send"
  /\ call' = [call EXCEPT ![c] = Idle]
  /\ UNCHANGED <<failures, openFor, down>>

Tick ==
  /\ openFor \in 0..(OpenDuration - 1)
  /\ openFor' = openFor + 1
  /\ UNCHANGED <<failures, call, down>>

GoesDown ==
  /\ ~down /\ down' = TRUE
  /\ UNCHANGED <<failures, openFor, call>>

Step(c) ==
  \/ LoadOpenSince(c) \/ ResetOpenSince(c) \/ ResetFailures(c)
  \/ OutOfBudget(c) \/ Succeeds(c) \/ Rejected(c) \/ Fails(c)
  \/ StoreOpen(c) \/ StoreNoFailures(c) \/ StoreClosed(c)
  \/ NextChunk(c) \/ Finish(c) \/ Return(c)

BreakerNext ==
  \/ \E c \in Caller : Start(c) \/ Step(c) \/ Dropped(c)
  \/ Tick \/ GoesDown

BreakerSpec == BreakerInit /\ [][BreakerNext]_breakerVars

(* Traffic goes on: calls are made, each takes its steps, and a call that   *)
(* was sent ends by itself again and again.                                 *)
Fairness ==
  /\ \A c \in Caller : WF_breakerVars(Start(c)) /\ WF_breakerVars(Step(c))
  /\ \A c \in Caller : SF_breakerVars(call[c].chunk = 0 /\ (Succeeds(c) \/ Rejected(c) \/ Fails(c)))
  /\ WF_breakerVars(Tick)

FairSpec == BreakerSpec /\ Fairness

-----------------------------------------------------------------------------
(* Properties *)

(* A detection is complete only when the sidecar answered for every chunk   *)
(* of it, and absent only when it answered for none.                        *)
CoverageIsTruthful ==
  \A c \in Caller : call[c].pc = "done" =>
    /\ call[c].outcome = "complete" <=> call[c].covered = 1..call[c].total
    /\ call[c].outcome = "absent" <=> call[c].covered = {}

(* An open breaker lets traffic through again: it does not stay open.       *)
Recovers == []<>(openFor = Closed)

(* No call is between the two stores of record_success, or about to reset. *)
Settled ==
  \A c \in Caller :
    call[c].pc \notin {"success", "close", "reset_gate", "reset_chunk", "zero_gate", "zero_chunk"}

(* With the sidecar down for good the breaker opens, and the requests do    *)
(* not all wait for a timeout: from every state in which the count is below *)
(* the threshold and no other call is about to reset it.                    *)
DownOpens == down /\ Settled /\ failures < FailureThreshold ~> openFor # Closed

(* The breaker follows the sidecar both ways, whoever else is calling:      *)
(* open does not last, and down does not go unnoticed.                      *)
BreakerFollows == Recovers /\ DownOpens
=============================================================================
