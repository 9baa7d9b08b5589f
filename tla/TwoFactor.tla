----------------------------- MODULE TwoFactor -----------------------------
(***************************************************************************)
(* TOTP two-factor authentication of one dashboard user: password login    *)
(* (auth.rs token), and enroll, verify, challenge and disable              *)
(* (twofactor.rs) over the users and user_backup_codes rows                *)
(* (user_repo.rs).  Each handler reads the user once, decides on that      *)
(* snapshot and then writes, one statement or transaction at a time; a     *)
(* handler may stop with an error before any write.                        *)
(*                                                                         *)
(* A TOTP code is the pair of its secret and its timestep, a backup code   *)
(* is known by the enrollment that issued it.  Time counts timesteps of    *)
(* 30 seconds.  The keys behind KMS and Argon2 and the per-IP rate limiter *)
(* only ever turn a request away, which is the same as not making it.      *)
(***************************************************************************)
EXTENDS Integers, FiniteSets

CONSTANTS Request,      \* requests in flight
          Privileged,   \* the user is an owner or an admin
          BackupCodes,  \* backup codes issued by an enrollment, 1..BackupCodes
          Threshold,    \* failures that lock the account
          LockSteps,    \* how long a lock lasts
          ChallengeTtl, \* lifetime of a 2fa_challenge token
          MaxSecrets,   \* bound on the enrollments
          MaxTime,      \* bound on the clock
          MaxFailures,  \* bound on the failures recorded
          RevokeFaults  \* whether revoke_all_for_user may fail

ASSUME TwoFactorAssumption ==
  /\ {Privileged, RevokeFaults} \subseteq BOOLEAN
  /\ BackupCodes \in Nat /\ Threshold \in Nat \ {0} /\ LockSteps \in Nat \ {0}
  /\ {ChallengeTtl, MaxSecrets, MaxTime, MaxFailures} \subseteq Nat

VARIABLES
  now,       \* the clock
  user,      \* the users row: secret, confirmed, last, failed, locked
  codes,     \* user_backup_codes: the unused ones
  token,     \* until when the latest 2fa_challenge token is accepted
  sessions,  \* live refresh chains, by how they came to be (below)
  req,       \* the handlers in flight
  issued,    \* counter: secrets generated
  accepted   \* history: how often each backup code completed a handler, up to twice

vars == <<now, user, codes, token, sessions, req, issued, accepted>>

NoSecret == 0
Null == -1

(* A session is opened with both factors, or by a password login: before   *)
(* the account was confirmed, or late, when it was confirmed after the     *)
(* login had read it.  A password session is spared by a verify whose      *)
(* revocation did not happen.                                              *)
Origins == {"both", "password", "late", "spared"}
Spared == {IF s = "password" THEN "spared" ELSE s : s \in sessions}

TotpCode == {"totp"} \X (1..MaxSecrets) \X (0..(MaxTime + 1))
BackupCode == {"backup"} \X (1..MaxSecrets) \X (1..BackupCodes)
WrongCode == <<"wrong", 0, 0>>
Code == TotpCode \cup BackupCode \cup {WrongCode}

NoRequest == [pc |-> "idle", op |-> "none", code |-> WrongCode, step |-> Null]

Init ==
  /\ now = 0
  /\ user = [secret |-> NoSecret, confirmed |-> FALSE, last |-> Null, failed |-> 0,
             locked |-> Null]
  /\ codes = {}
  /\ token = Null
  /\ sessions = {}
  /\ req = [r \in Request |-> NoRequest]
  /\ issued = 0
  /\ accepted = [c \in BackupCode |-> 0]

At(r, pc) == req[r].pc = pc
Goto(r, pc) == req' = [req EXCEPT ![r].pc = pc]
Fail(r) == req' = [req EXCEPT ![r] = [NoRequest EXCEPT !.pc = "fail", !.op = req[r].op]]
Return(r) == req' = [req EXCEPT ![r] = NoRequest]

(* History: the code c has completed a handler (once more). *)
Accept(c) ==
  accepted' = [d \in BackupCode |-> IF d = c /\ accepted[d] < 2 THEN accepted[d] + 1 ELSE accepted[d]]

(* The timesteps verify_code tries, one step of skew either way. *)
Candidates == {t \in {now - 1, now, now + 1} : t >= 0}

(* verify_code: the code of a candidate step later than the last accepted. *)
VerifyCode(secret, last, c) ==
  c[1] = "totp" /\ c[2] = secret /\ c[3] \in Candidates /\ (last = Null \/ c[3] > last)

Locked == user.locked # Null /\ user.locked > now

(* A code the user may type: one of an authenticator or a list it was given. *)
Known(c) == c = WrongCode \/ c[2] <= issued

Tick ==
  /\ now < MaxTime
  /\ now' = now + 1
  /\ UNCHANGED <<user, codes, token, sessions, req, issued, accepted>>

-----------------------------------------------------------------------------
(* token(): the password is right, decide_2fa. *)
LoginRead(r) ==
  /\ At(r, "idle")
  /\ IF user.confirmed
     THEN token' = now + ChallengeTtl /\ UNCHANGED req
     ELSE /\ ~Privileged
          /\ req' = [req EXCEPT ![r] = [NoRequest EXCEPT !.pc = "mint", !.op = "login"]]
          /\ UNCHANGED token
  /\ UNCHANGED <<now, user, codes, sessions, issued, accepted>>

(* enroll: refused for a confirmed account. *)
EnrollRead(r) ==
  /\ At(r, "idle")
  /\ ~user.confirmed
  /\ issued < MaxSecrets
  /\ req' = [req EXCEPT ![r] = [NoRequest EXCEPT !.pc = "enroll", !.op = "enroll"]]
  /\ UNCHANGED <<now, user, codes, token, sessions, issued, accepted>>

(* enroll_totp: a new secret and its backup codes in one transaction. *)
EnrollTotp(r) ==
  /\ At(r, "enroll")
  /\ issued < MaxSecrets
  /\ issued' = issued + 1
  /\ user' = [user EXCEPT !.secret = issued + 1, !.confirmed = FALSE]
  /\ codes' = {"backup"} \X {issued + 1} \X (1..BackupCodes)
  /\ Return(r)
  /\ UNCHANGED <<now, token, sessions, accepted>>

(* verify, the reads: 429 when locked, 401 without a secret. *)
VerifyRead(r, c) ==
  /\ At(r, "idle")
  /\ ~Locked
  /\ user.secret # NoSecret
  /\ req' = [req EXCEPT ![r] =
       IF VerifyCode(user.secret, user.last, c)
       THEN [pc |-> "confirm", op |-> "verify", code |-> c, step |-> c[3]]
       ELSE [NoRequest EXCEPT !.pc = "fail", !.op = "verify"]]
  /\ UNCHANGED <<now, user, codes, token, sessions, issued, accepted>>

(* Where challenge and disable go on after a code they accept. *)
Proceed(op) == IF op = "disable" THEN "disable" ELSE "success"

(* challenge and disable, the reads.  challenge needs a challenge token,    *)
(* disable a confirmed account; without a secret both answer 503.           *)
SecondFactorRead(r, c, op) ==
  /\ At(r, "idle")
  /\ op = "challenge" => token # Null /\ now <= token
  /\ op = "disable" => user.confirmed
  /\ ~Locked
  /\ user.secret # NoSecret
  /\ LET ok == VerifyCode(user.secret, user.last, c)
     IN req' = [req EXCEPT ![r] =
          IF ok THEN [pc |-> Proceed(op), op |-> op, code |-> c, step |-> c[3]]
                ELSE [pc |-> "backup", op |-> op, step |-> now,
                      code |-> IF c \in BackupCode THEN c ELSE WrongCode]]
  /\ UNCHANGED <<now, user, codes, token, sessions, issued, accepted>>

(* consume_backup_code, the SELECT of the unused codes. *)
BackupSelect(r) ==
  /\ At(r, "backup")
  /\ IF req[r].code \in codes THEN Goto(r, "consume") ELSE Fail(r)
  /\ UNCHANGED <<now, user, codes, token, sessions, issued, accepted>>

(* Mutant: the UPDATE does not ask again whether the code is unused. *)
BackupConsumeUnguarded(r) ==
  /\ At(r, "consume")
  /\ codes' = codes \ {req[r].code}
  /\ Goto(r, Proceed(req[r].op))
  /\ UNCHANGED <<now, user, token, sessions, issued, accepted>>

(* consume_backup_code, UPDATE ... WHERE used_at IS NULL. *)
BackupConsume(r) ==
  /\ At(r, "consume")
  /\ codes' = codes \ {req[r].code}
  /\ IF req[r].code \in codes THEN Goto(r, Proceed(req[r].op)) ELSE Fail(r)
  /\ UNCHANGED <<now, user, token, sessions, issued, accepted>>

-----------------------------------------------------------------------------
(* The writes. *)

(* record_totp_failure. *)
RecordFailure(r) ==
  /\ At(r, "fail")
  /\ user.failed < MaxFailures
  /\ user' = [user EXCEPT
       !.failed = @ + 1,
       !.locked = IF user.failed + 1 >= Threshold THEN now + LockSteps ELSE @]
  /\ Return(r)
  /\ UNCHANGED <<now, codes, token, sessions, issued, accepted>>

(* confirm_totp. *)
ConfirmTotp(r) ==
  /\ At(r, "confirm")
  /\ user' = [user EXCEPT !.confirmed = TRUE]
  /\ Goto(r, "revoke")
  /\ UNCHANGED <<now, codes, token, sessions, issued, accepted>>

(* Mutant: the sessions opened before are left alone. *)
RevokeAllSkipped(r) ==
  /\ At(r, "revoke")
  /\ IF req[r].op = "disable" THEN Return(r) ELSE Goto(r, "success")
  /\ UNCHANGED <<now, user, codes, token, sessions, issued, accepted>>

(* What stays when the revocation of request r does not happen. *)
NotRevoked(r) == sessions' = IF req[r].op = "verify" THEN Spared ELSE sessions

(* revoke_all_for_user, after confirm_totp and after disable_totp; its      *)
(* failure is ignored.                                                      *)
RevokeAll(r) ==
  /\ At(r, "revoke")
  /\ sessions' = {} \/ (RevokeFaults /\ NotRevoked(r))
  /\ IF req[r].op = "disable" THEN Return(r) ELSE Goto(r, "success")
  /\ UNCHANGED <<now, user, codes, token, issued, accepted>>

(* Mutant: the failures counted so far survive a success. *)
RecordSuccessKeepsCount(r) ==
  /\ At(r, "success")
  /\ user' = [user EXCEPT !.last = req[r].step, !.locked = Null]
  /\ Goto(r, "mint")
  /\ UNCHANGED <<now, codes, token, sessions, issued, accepted>>

(* record_totp_success. *)
RecordSuccess(r) ==
  /\ At(r, "success")
  /\ user' = [user EXCEPT !.last = req[r].step, !.failed = 0, !.locked = Null]
  /\ Goto(r, "mint")
  /\ UNCHANGED <<now, codes, token, sessions, issued, accepted>>

(* build_token_pair_body, and the answer. *)
MintPair(r) ==
  /\ At(r, "mint")
  /\ sessions' = sessions \cup {IF req[r].op # "login" THEN "both"
                                ELSE IF user.confirmed THEN "late" ELSE "password"}
  /\ IF req[r].op = "login" THEN UNCHANGED accepted ELSE Accept(req[r].code)
  /\ Return(r)
  /\ UNCHANGED <<now, user, codes, token, issued>>

(* disable_totp. *)
DisableTotp(r) ==
  /\ At(r, "disable")
  /\ user' = [secret |-> NoSecret, confirmed |-> FALSE, last |-> Null, failed |-> 0,
              locked |-> Null]
  /\ codes' = {}
  /\ Accept(req[r].code)
  /\ Goto(r, "revoke")
  /\ UNCHANGED <<now, token, sessions, issued>>

(* A handler stops before its next write: a store error, or a lost task. *)
Abort(r) ==
  /\ ~At(r, "idle")
  /\ IF At(r, "revoke") THEN RevokeFaults /\ NotRevoked(r) ELSE UNCHANGED sessions
  /\ Return(r)
  /\ UNCHANGED <<now, user, codes, token, issued, accepted>>

HandlerStep(r) ==
  \/ LoginRead(r) \/ EnrollRead(r) \/ EnrollTotp(r)
  \/ \E c \in Code : Known(c) /\ (\/ VerifyRead(r, c)
                                  \/ SecondFactorRead(r, c, "challenge")
                                  \/ SecondFactorRead(r, c, "disable"))
  \/ BackupSelect(r) \/ BackupConsume(r) \/ RecordFailure(r) \/ ConfirmTotp(r)
  \/ RevokeAll(r) \/ RecordSuccess(r) \/ MintPair(r) \/ DisableTotp(r) \/ Abort(r)

Next == Tick \/ \E r \in Request : HandlerStep(r)

Spec == Init /\ [][Next]_vars

-----------------------------------------------------------------------------
(* Properties. *)

Stages == {"idle", "mint", "enroll", "confirm", "revoke", "success", "backup", "consume",
           "disable", "fail"}
Operations == {"none", "login", "enroll", "verify", "challenge", "disable"}
Handlers == [pc : Stages, op : Operations, code : Code, step : Null..(MaxTime + 1)]
UserRows == [secret : 0..MaxSecrets, confirmed : BOOLEAN, last : Null..(MaxTime + 1),
             failed : 0..MaxFailures, locked : Null..(MaxTime + LockSteps)]

(* Every variable keeps its type: no lock outlasts LockSteps from now on.   *)
TypeOK ==
  /\ now \in 0..MaxTime
  /\ user \in UserRows
  /\ codes \subseteq BackupCode
  /\ token \in Null..(MaxTime + ChallengeTtl)
  /\ sessions \subseteq Origins
  /\ req \in [Request -> Handlers]
  /\ issued \in 0..MaxSecrets
  /\ accepted \in [BackupCode -> 0..2]

(* A backup code completes at most one challenge or disable, however many   *)
(* requests present it at once.                                             *)
BackupCodeOnce == \A c \in BackupCode : accepted[c] <= 1

(* The unused backup codes are those of the secret on file: none outlives   *)
(* the enrollment that issued it.                                           *)
CodesAreCurrent == \A c \in codes : c[2] = user.secret

(* Failures at the threshold always come with a lock, and a lock is only    *)
(* ever lifted together with the count.                                     *)
LockFollowsFailures == user.failed >= Threshold => user.locked # Null

(* Turning two-factor on ends every session that a password alone had       *)
(* opened: while the account is confirmed, one is live only until the       *)
(* verify that confirmed it has come to its revocation, whatever other      *)
(* logins, enrollments and disables run meanwhile.  Two kinds remain, and   *)
(* the code lets them: a session spared because revoke_all_for_user failed, *)
(* which verify ignores, or verify stopped before it; and the session of a  *)
(* login that read the account before it was confirmed and minted after.    *)
NoPasswordSession ==
  user.confirmed /\ "password" \in sessions =>
    \E r \in Request : At(r, "revoke") /\ req[r].op = "verify"
-----------------------------------------------------------------------------
(* The inductive strengthening of the safety properties. *)

(* A request that has taken the backup code c and not yet completed. *)
Holds(r, c) == req[r].code = c /\ req[r].pc \in {"success", "mint", "disable"}

(* A backup code is unused, or with one request, or has completed one. *)
SpentOnce ==
  \A c \in BackupCode :
    /\ c \in codes => accepted[c] = 0
    /\ accepted[c] <= 1
    /\ \A r \in Request : Holds(r, c) => c \notin codes /\ accepted[c] = 0
    /\ \A r, q \in Request : Holds(r, c) /\ Holds(q, c) => r = q

(* No code is used, or in flight, before its enrollment. *)
NotBeforeIssue ==
  /\ \A c \in BackupCode : c[2] > issued => accepted[c] = 0 /\ c \notin codes
  /\ \A r \in Request : req[r].code \in BackupCode => req[r].code[2] <= issued

(* verify never carries a backup code past its check. *)
VerifyCarriesTotp ==
  \A r \in Request :
    req[r].pc = "confirm" \/ (req[r].pc = "revoke" /\ req[r].op # "disable")
      => req[r].code \notin BackupCode

(* Only a disable request reaches disable_totp. *)
OnlyDisableDisables == \A r \in Request : req[r].pc = "disable" => req[r].op = "disable"

TwoFactorInv ==
  TypeOK /\ SpentOnce /\ NotBeforeIssue /\ VerifyCarriesTotp /\ OnlyDisableDisables
    /\ CodesAreCurrent /\ LockFollowsFailures
=============================================================================
