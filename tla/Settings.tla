------------------------------ MODULE Settings ------------------------------
(***************************************************************************)
(* The redaction settings of one workspace.  PUT /v1/secure-mode writes      *)
(* three tables in three transactions, each with its audit row, and fills    *)
(* what the body leaves out from what it read.  PostgreSQL runs at READ      *)
(* COMMITTED: a SELECT takes no lock, an upsert locks its row to the commit. *)
(***************************************************************************)
EXTENDS Integers, Sequences

CONSTANTS
  Put,               \* the administrators' requests, each made once
  Bodies,            \* what they may carry
  Field,             \* the columns of workspace_secure_mode
  DeploymentDefault, \* SECUREPROMPT_SIDECAR_UNAVAILABLE_DEFAULT
  MinDays, MaxDays,  \* the accepted retention
  Unset              \* a row that is not there, a field the body leaves out

ASSUME SettingsAssumption ==
  /\ MinDays \in Int /\ MaxDays \in Int
  /\ \A b \in Bodies : b.enabled \in BOOLEAN \cup {Unset} /\ b.days \in Int \cup {Unset}
  /\ Unset \notin [enabled : BOOLEAN, days : Int]

VARIABLES
  mode, policy, capture,                 \* the stored rows
  modeTrail, policyTrail, captureTrail,  \* their audit rows, in commit order
  put

settingVars == <<mode, policy, capture, modeTrail, policyTrail, captureTrail, put>>

NoBody == [mode |-> <<>>, policy |-> Unset, enabled |-> Unset, days |-> Unset]
Waiting == [pc |-> "waiting", body |-> NoBody, seen |-> Unset]

DefaultMode == [f \in Field |-> FALSE]
DefaultCapture == [enabled |-> FALSE, days |-> 1]

(***************************************************************************)
(* The repositories.                                                        *)
(***************************************************************************)
Policies == {"block", "degrade_with_alert"}

(* Anything that is not the exact opt-out is Block. *)
FromDb(value) == IF value = "degrade_with_alert" THEN value ELSE "block"

GetMode == IF mode = Unset THEN DefaultMode ELSE mode
GetPolicy == IF policy = Unset THEN FromDb(DeploymentDefault) ELSE FromDb(policy)
GetCapture == IF capture = Unset THEN DefaultCapture ELSE capture

ClampRetention(days) == IF days < MinDays THEN MinDays ELSE IF days > MaxDays THEN MaxDays ELSE days

(* changed_field keeps the fields that moved. *)
ChangedFields(before, after) == {f \in Field : before[f] # after[f]}

MergeMode(body, seen) == [f \in Field |-> IF f \in DOMAIN body THEN body[f] ELSE seen[f]]

(* SecureModeRepository::upsert after its read: the row, and an audit row if a field moved. *)
UpsertMode(p, seen) ==
  LET new == MergeMode(put[p].body.mode, seen)
      changed == ChangedFields(seen, new)
  IN /\ mode' = new
     /\ modeTrail' = IF changed = {} THEN modeTrail
                     ELSE Append(modeTrail, [by |-> p, changed |-> changed, after |-> new])

(* SidecarPolicyRepository::upsert after its read. *)
UpsertPolicy(p, seen) ==
  LET new == FromDb(put[p].body.policy) IN
  /\ policy' = new
  /\ policyTrail' = IF seen = new THEN policyTrail
                    ELSE Append(policyTrail, [by |-> p, before |-> seen, after |-> new])

(* RawCaptureRepository::upsert_audited after its read: the audit row is never left out. *)
UpsertCapture(p, desired, before) ==
  LET new == [desired EXCEPT !.days = ClampRetention(@)] IN
  /\ capture' = new
  /\ captureTrail' = Append(captureTrail, [by |-> p, before |-> before, after |-> new])

(***************************************************************************)
(* put_secure_mode.                                                         *)
(***************************************************************************)
Step(p, pc, seen) == put' = [put EXCEPT ![p].pc = pc, ![p].seen = seen]

(* The level and the policy of the body are checked before anything is written. *)
PutStart(p) ==
  /\ put[p].pc = "waiting"
  /\ \E b \in Bodies :
       /\ b.policy \in Policies \cup {Unset}
       /\ put' = [put EXCEPT ![p].pc = "mode", ![p].body = b]
  /\ UNCHANGED <<mode, policy, capture, modeTrail, policyTrail, captureTrail>>

ModeRead(p) ==
  /\ put[p].pc = "mode"
  /\ Step(p, "mode read", GetMode)
  /\ UNCHANGED <<mode, policy, capture, modeTrail, policyTrail, captureTrail>>

(* The transaction commits and the request goes on to its next place, or the reply to the COMMIT is
   lost and the request fails with its write in place. *)
Committed(p, pc) == \E end \in {pc, "failed"} : Step(p, end, Unset)

ModeWrite(p) ==
  /\ put[p].pc = "mode read"
  /\ UpsertMode(p, put[p].seen)
  /\ Committed(p, "policy")
  /\ UNCHANGED <<policy, capture, policyTrail, captureTrail>>

(* Without a policy in the body the effective one is only read for the answer. *)
PolicyRead(p) ==
  /\ put[p].pc = "policy"
  /\ IF put[p].body.policy = Unset
     THEN Step(p, "capture", Unset)
     ELSE Step(p, "policy read", GetPolicy)
  /\ UNCHANGED <<mode, policy, capture, modeTrail, policyTrail, captureTrail>>

PolicyWrite(p) ==
  /\ put[p].pc = "policy read"
  /\ UpsertPolicy(p, put[p].seen)
  /\ Committed(p, "capture")
  /\ UNCHANGED <<mode, capture, modeTrail, captureTrail>>

(* get_effective, in a transaction of its own, fills what the body leaves out. *)
Desired(b) == [enabled |-> IF b.enabled = Unset THEN GetCapture.enabled ELSE b.enabled,
               days |-> IF b.days = Unset THEN GetCapture.days ELSE b.days]

CaptureRead(p) ==
  /\ put[p].pc = "capture"
  /\ IF put[p].body.enabled = Unset /\ put[p].body.days = Unset
     THEN Step(p, "done", Unset)
     ELSE Step(p, "capture desired", [desired |-> Desired(put[p].body)])
  /\ UNCHANGED <<mode, policy, capture, modeTrail, policyTrail, captureTrail>>

CaptureBefore(p) ==
  /\ put[p].pc = "capture desired"
  /\ Step(p, "capture read", [desired |-> put[p].seen.desired, before |-> GetCapture])
  /\ UNCHANGED <<mode, policy, capture, modeTrail, policyTrail, captureTrail>>

(* Mutant: the setting is stored without its audit row. *)
CaptureWriteApart(p) ==
  /\ put[p].pc = "capture read"
  /\ capture' = [put[p].seen.desired EXCEPT !.days = ClampRetention(@)]
  /\ Committed(p, "done")
  /\ UNCHANGED <<mode, policy, captureTrail, modeTrail, policyTrail>>

CaptureWrite(p) ==
  /\ put[p].pc = "capture read"
  /\ UpsertCapture(p, put[p].seen.desired, put[p].seen.before)
  /\ Committed(p, "done")
  /\ UNCHANGED <<mode, policy, modeTrail, policyTrail>>

(* A statement fails or the client leaves: the open transaction rolls back, the earlier ones stay. *)
PutFails(p) ==
  /\ put[p].pc \notin {"waiting", "done", "failed"}
  /\ Step(p, "failed", Unset)
  /\ UNCHANGED <<mode, policy, capture, modeTrail, policyTrail, captureTrail>>

SettingsInit ==
  /\ mode = Unset /\ policy = Unset /\ capture = Unset
  /\ modeTrail = <<>> /\ policyTrail = <<>> /\ captureTrail = <<>>
  /\ put = [p \in Put |-> Waiting]

SettingsNext ==
  \E p \in Put :
    \/ PutStart(p) \/ ModeRead(p) \/ ModeWrite(p) \/ PolicyRead(p) \/ PolicyWrite(p)
    \/ CaptureRead(p) \/ CaptureBefore(p) \/ CaptureWrite(p) \/ PutFails(p)

SettingsSpec == SettingsInit /\ [][SettingsNext]_settingVars

(***************************************************************************)
(* Properties.                                                              *)
(***************************************************************************)

(* The body of the i-th capture audit row's request asked for capture itself. *)
AskedBy(i) == put[captureTrail[i].by].body.enabled = TRUE

NamesCapture(body) == body.enabled # Unset \/ body.days # Unset

(* "Capture is on" and "somebody is on the hook for it" are one fact, whichever requests overlap
   and wherever they fail: the last capture audit row to commit describes the stored setting; a
   request answered with success that named capture has its row; and wherever a row says that
   capture is on, some request whose own body asked for it has a row there or before.  That one may
   not be the last row's: a body that only sets the retention carries over what it read, and can put
   back on what another request has switched off since. *)
CaptureIsOnRecord ==
  /\ capture = Unset <=> captureTrail = <<>>
  /\ capture # Unset => captureTrail[Len(captureTrail)].after = capture
  /\ \A p \in Put : put[p].pc = "done" /\ NamesCapture(put[p].body) =>
       \E i \in DOMAIN captureTrail : captureTrail[i].by = p
  /\ \A i \in DOMAIN captureTrail : captureTrail[i].after.enabled => \E j \in 1..i : AskedBy(j)

=============================================================================
