------------------------------ MODULE Pipeline ------------------------------
(***************************************************************************)
(* One request through PipelineService (pipeline/service.rs): prepare and  *)
(* then execute (buffered) or execute_stream.  A step runs from one await  *)
(* to the next; the ML sidecar may answer each of the calls differently,   *)
(* a database read may fail, a provider may fail before its first byte or  *)
(* in the middle of its stream, and the client may go away at any await,   *)
(* which drops the handler or the generator where it stands.               *)
(*                                                                         *)
(* chat_debug_mode is off.  The detectors themselves (detect_content and   *)
(* the sidecar) and the provider are external: with complete coverage the  *)
(* engines find every occurrence of a value, with less only some, which    *)
(* may leave out one of a value that they find elsewhere in the text.      *)
(***************************************************************************)
EXTENDS Redaction

CONSTANTS
  Configs,     \* workspaces and requests to run; say bounds the reply of each
  FloorSeen,   \* values the deterministic detector finds by itself
  Invented,    \* values a provider may produce of its own
  Weak,        \* values whose NER score is below the response-side threshold
  Targets      \* length of the chain of provider targets

(* What a client sends: values and placeholders. *)
PromptAtoms == {"raw", "token"} \X (Entity \cup {ClassOf[e] : e \in Entity}) \X Nat

(* A value the provider makes up is one the prompt does not hold. *)
ASSUME PipelineAssumption ==
  /\ FloorSeen \cup Invented \cup Weak \subseteq Entity
  /\ Targets \in Nat
  /\ \A c \in Configs :
       /\ c.say \in Nat /\ c.prompt \in Seq(PromptAtoms)
       /\ c.onLoss \in {"block", "degrade"} /\ c.secure.enabled \in BOOLEAN
       /\ c.redactWhenNoRules \in BOOLEAN /\ Values(c.prompt) \cap Invented = {}

VARIABLES
  cfg,        \* the workspace's settings and the request
  pc,
  coverage,   \* of the prompt, by the ML sidecar
  found,      \* pipeline_state.detections
  onLoss,     \* the sidecar_unavailable policy as read
  injection,  \* what the injection classifier answered
  out,        \* the policy outcome with the vault and the redaction map
  degraded,   \* degraded_reason
  target,     \* provider targets tried
  sent,       \* texts sent to a provider
  reply,      \* what the provider answered, verbatim
  pending,    \* what the stream holds back
  originals,  \* client_originals
  shown,      \* what the client was sent
  event,      \* the RequestEvent
  counted,    \* record_request calls
  status      \* the HTTP outcome

vars == <<cfg, pc, coverage, found, onLoss, injection, out, degraded, target, sent, reply,
          pending, originals, shown, event, counted, status>>

answering == <<reply, pending, originals, shown>>
closing == <<event, counted, status>>

EmptyVault == [t \in {} |-> t]
(* A NULL column: no text. *)
Null == << <<"null", "null", 0>> >>
NoEvent == [action |-> "none"]

Coverage == {"complete", "partial", "absent"}
Lost(cov) == cov # "complete"

(* What the sidecar may find in a text, by its coverage of it: with some of *)
(* the chunks unanswered, what stands in the others.                        *)
MlFinds(text, cov) ==
  CASE cov = "complete" -> {Detections(text)}
    [] cov = "partial" -> SUBSET Detections(text)
    [] cov = "absent" -> {{}}

(* detect_content and merge_detections. *)
Merged(text, ml) == {d \in Detections(text) : d[2] \in FloorSeen} \cup ml

Init ==
  /\ cfg \in Configs
  /\ pc = "preload"
  /\ coverage = "none" /\ found = {} /\ onLoss = "none"
  /\ injection = [coverage |-> "none", blocking |-> FALSE]
  /\ out = [action |-> "none", denied |-> FALSE, unprotected |-> FALSE,
            content |-> <<>>, vault |-> EmptyVault, mapped |-> FALSE]
  /\ degraded = FALSE
  /\ target = 0 /\ sent = {}
  /\ reply = <<>> /\ pending = <<>> /\ originals = {} /\ shown = <<>>
  /\ event = NoEvent /\ counted = 0 /\ status = "none"

-----------------------------------------------------------------------------
(* prepare *)

(* preload_file_vault: best effort. *)
Preload ==
  /\ pc = "preload"
  /\ \E vault \in {cfg.file, EmptyVault} : out' = [out EXCEPT !.vault = vault]
  /\ pc' = "detect"
  /\ UNCHANGED <<cfg, coverage, found, onLoss, injection, degraded, target, sent, answering, closing>>

Detect ==
  /\ pc = "detect"
  /\ \E cov \in Coverage : \E ml \in MlFinds(cfg.prompt, cov) :
       /\ coverage' = cov
       /\ found' = Merged(cfg.prompt, ml)
  /\ pc' = "gate"
  /\ UNCHANGED <<cfg, onLoss, injection, out, degraded, target, sent, answering, closing>>

(* The last user message. *)
LastMessage == SubSeq(cfg.prompt, cfg.last, Len(cfg.prompt))

(* The event of a request that was refused: floor_only is left false. *)
RefusalEvent(action, prompt) ==
  [action |-> action, prompt |-> prompt, response |-> Null, floorOnly |-> FALSE,
   engines |-> coverage, detections |-> found]

(* enqueue and record_request(false), and the answer. *)
Refuse(action, prompt, answer) ==
  /\ event' = RefusalEvent(action, prompt)
  /\ counted' = counted + 1
  /\ status' = answer
  /\ pc' = "done"

(* Mutant: a partial coverage passes. *)
SidecarGateLenient(cov, policy) == IF cov # "absent" THEN "proceed" ELSE policy

(* sidecar_gate *)
SidecarGate(cov, policy) == IF Lost(cov) THEN policy ELSE "proceed"

(* The policy is read after the detection; a read that fails is "block". *)
GateDetection ==
  /\ pc = "gate"
  /\ \E policy \in {cfg.onLoss, "block"} :
       /\ onLoss' = policy
       /\ LET gate == SidecarGate(coverage, policy)
          IN \/ /\ gate = "block"
                /\ Refuse("block_sidecar_unavailable", Null, "503")
                /\ UNCHANGED degraded
             \/ /\ gate # "block"
                /\ degraded' = (gate = "degrade")
                /\ pc' = "evaluate"
                /\ UNCHANGED closing
  /\ UNCHANGED <<cfg, coverage, found, injection, out, target, sent, answering>>

(* An error returned with `?`: no event, and record_request is not called. *)
FailWith(answer) ==
  /\ status' = answer
  /\ pc' = "done"
  /\ UNCHANGED <<event, counted>>

EvaluatePolicy ==
  /\ pc = "evaluate"
  /\ \/ FailWith("500") /\ UNCHANGED out
     \/ /\ out' = Evaluate(cfg.rules, cfg.prompt, found, out.vault, cfg.redactWhenNoRules)
        /\ pc' = "secure"
        /\ UNCHANGED closing
  /\ UNCHANGED <<cfg, coverage, found, onLoss, injection, degraded, target, sent, answering>>

(* One apply_redaction of all that was detected, unless the map has entries. *)
Redacted(o) ==
  IF found = {} \/ o.mapped THEN o
  ELSE [o EXCEPT !.content = ApplyRedaction(o.content, cfg.prompt, found),
                 !.vault = VaultAfter(o.content, cfg.prompt, found, o.vault),
                 !.mapped = Replaced(o.content, cfg.prompt, found) # {},
                 !.action = IF @ = "allow" THEN "redact" ELSE @]

Denied(o) == [o EXCEPT !.denied = TRUE, !.action = "deny"]

(* Mutant: the toggles deny only what a rule had not decided. *)
OverrideUndecided(secure, blocking, o) ==
  IF ~o.unprotected THEN o
  ELSE IF secure.level = "strict" /\ (found # {} \/ blocking) THEN Denied(o) ELSE Redacted(o)

(* apply_secure_mode_override *)
Override(secure, blocking, o) ==
  CASE secure.level = "permissive" ->
         IF o.denied
         THEN [o EXCEPT !.denied = FALSE, !.action = IF found # {} THEN "redact" ELSE "allow"]
         ELSE o
    [] secure.level = "strict" ->
         IF found # {} \/ blocking THEN Denied(o) ELSE o
    [] OTHER ->
         IF (secure.blockPii /\ found # {}) \/ (secure.blockInjection /\ blocking)
         THEN Denied(Redacted(o)) ELSE Redacted(o)

(* Mutant: the fallback waits for a workspace that has no rule at all. *)
FallbackNoRules(o) == IF cfg.redactWhenNoRules /\ cfg.rules = <<>> THEN Redacted(o) ELSE o

(* apply_fallback_redaction *)
Fallback(o) == IF cfg.redactWhenNoRules /\ o.unprotected THEN Redacted(o) ELSE o

(* The end of prepare. *)
Decide(o) ==
  /\ out' = Fallback(o)
  /\ pc' = IF out'.denied THEN "denied" ELSE "provider"

ReadSecureMode ==
  /\ pc = "secure"
  /\ \/ FailWith("503") /\ UNCHANGED out
     \/ /\ ~cfg.secure.enabled
        /\ Decide(out)
        /\ UNCHANGED closing
     \/ /\ cfg.secure.enabled
        /\ pc' = "injection"
        /\ UNCHANGED <<out, closing>>
  /\ UNCHANGED <<cfg, coverage, found, onLoss, injection, degraded, target, sent, answering>>

InjectionEnforced(secure) ==
  secure.level = "strict" \/ (secure.level # "permissive" /\ secure.blockInjection)

(* The detections of the prompt that lie in the last message, at their places there. *)
InLastMessage == {<<d[1] - cfg.last + 1, d[2]>> : d \in {x \in found : x[1] >= cfg.last}}

(* audit_prompt_with: what was found in the prompt, cut out of the last message. *)
AuditPromptWith == IF degraded THEN Null ELSE ApplyRedaction(LastMessage, LastMessage, InLastMessage)

CheckInjection ==
  /\ pc = "injection"
  /\ \E cov \in Coverage : \E blocking \in IF cov = "absent" THEN {FALSE} ELSE BOOLEAN :
       /\ injection' = [coverage |-> cov, blocking |-> blocking]
       /\ LET gate == IF InjectionEnforced(cfg.secure) THEN SidecarGate(cov, onLoss) ELSE "proceed"
          IN \/ /\ gate = "block"
                /\ Refuse("block_sidecar_unavailable", AuditPromptWith, "503")
                /\ UNCHANGED <<degraded, out>>
             \/ /\ gate # "block"
                /\ degraded' = (degraded \/ gate = "degrade")
                /\ Decide(Override(cfg.secure, blocking, out))
                /\ UNCHANGED closing
  /\ UNCHANGED <<cfg, coverage, found, onLoss, target, sent, answering>>

(* audit_prompt: the last message is detected once more, and the coverage   *)
(* of that call is not looked at.                                           *)
AuditPrompts ==
  IF degraded THEN {Null}
  ELSE {ApplyRedaction(LastMessage, LastMessage, Merged(LastMessage, ml)) :
          ml \in UNION {MlFinds(LastMessage, cov) : cov \in Coverage}}

Deny ==
  /\ pc = "denied"
  /\ \E prompt \in AuditPrompts : Refuse(out.action, prompt, "403")
  /\ UNCHANGED <<cfg, coverage, found, onLoss, injection, out, degraded, target, sent, answering>>

-----------------------------------------------------------------------------
(* invoke_provider_chain and open_provider_stream *)

Send(text) == sent' = sent \cup {text}

(* No adapter for the target, or its credential does not decrypt. *)
SkipTarget ==
  /\ pc = "provider" /\ target < Targets
  /\ target' = target + 1
  /\ UNCHANGED <<cfg, pc, coverage, found, onLoss, injection, out, degraded, sent, answering, closing>>

ProviderFails ==
  /\ pc = "provider" /\ target < Targets
  /\ Send(out.content)
  /\ \/ target' = target + 1 /\ UNCHANGED <<pc, closing>>
     \/ FailWith("500") /\ UNCHANGED target
  /\ UNCHANGED <<cfg, coverage, found, onLoss, injection, out, degraded, answering>>

ChainExhausted ==
  /\ pc = "provider" /\ target = Targets
  /\ FailWith("500")
  /\ UNCHANGED <<cfg, coverage, found, onLoss, injection, out, degraded, target, sent, answering>>

(* What a provider can say: what it was shown, and what it makes up. *)
Sayable == {out.content[i] : i \in DOMAIN out.content} \cup {Raw(e) : e \in Invented}

(* client_originals is frozen before the first answer is scrubbed. *)
ProviderAnswers ==
  /\ pc = "provider" /\ target < Targets
  /\ Send(out.content)
  /\ originals' = OriginalValues(out.vault)
  /\ \/ /\ cfg.kind = "stream"
        /\ pc' = "stream" /\ UNCHANGED reply
     \/ /\ cfg.kind # "stream"
        /\ \E n \in 0..cfg.say : reply' \in [1..n -> Sayable]
        /\ pc' = "respond"
  /\ UNCHANGED <<cfg, coverage, found, onLoss, injection, out, degraded, target, pending, shown, closing>>

-----------------------------------------------------------------------------
(* The answer *)

Scrubbing == cfg.secure.enabled /\ cfg.secure.redactResponses

(* filter_response_side_detections *)
ResponseSide(detections) == {d \in detections : d[2] \notin originals \cup Weak}

(* restore_content, then the response-side scan when it is on: what it may  *)
(* leave of the text, and the vault with what it hid.                       *)
Answers(text) ==
  LET restored == Restore(text, out.vault)
      Scanned(cov, ml) ==
        LET hidden == ResponseSide(Merged(restored, ml))
        IN [text |-> ApplyRedaction(restored, restored, hidden), lost |-> Lost(cov),
            vault |-> VaultAfter(restored, restored, hidden, out.vault)]
  IN IF Scrubbing THEN UNION {{Scanned(cov, ml) : ml \in MlFinds(restored, cov)} : cov \in Coverage}
     ELSE {[text |-> restored, lost |-> FALSE, vault |-> out.vault]}

Answered(a) ==
  /\ degraded' = (degraded \/ a.lost)
  /\ out' = [out EXCEPT !.vault = a.vault]

(* execute: a streamed completion is cut from the provider's own chunks. *)
Respond ==
  /\ pc = "respond"
  /\ \E a \in Answers(reply) :
       /\ Answered(a)
       /\ shown' = IF cfg.kind = "completion" THEN Restore(reply, a.vault) ELSE a.text
  /\ pc' = "audit"
  /\ UNCHANGED <<cfg, coverage, found, onLoss, injection, target, sent, reply, pending, originals, closing>>

(* A segment of the stream; an empty one is not looked at. *)
Emit(segment) ==
  \/ segment = <<>> /\ UNCHANGED <<out, degraded, shown>>
  \/ segment # <<>> /\ \E a \in Answers(segment) : Answered(a) /\ shown' = shown \o a.text

(* execute_stream: a token is held back until its segment is settled. *)
StreamToken ==
  /\ pc = "stream" /\ Len(reply) < cfg.say
  /\ \E atom \in Sayable : \E settled \in 0..(Len(pending) + 1) :
       LET held == Append(pending, atom)
       IN /\ reply' = Append(reply, atom)
          /\ pending' = SubSeq(held, settled + 1, Len(held))
          /\ Emit(SubSeq(held, 1, settled))
  /\ UNCHANGED <<cfg, pc, coverage, found, onLoss, injection, target, sent, originals, closing>>

(* The upstream is drained or breaks off; what is held back is flushed. *)
StreamEnds ==
  /\ pc = "stream"
  /\ Emit(pending)
  /\ pending' = <<>>
  /\ pc' = "audit"
  /\ UNCHANGED <<cfg, coverage, found, onLoss, injection, target, sent, reply, originals, closing>>

(* Mutant: the response is recorded as the client was shown it. *)
AnswerEventShown(prompt) ==
  [action |-> out.action, prompt |-> prompt, response |-> IF degraded THEN Null ELSE shown,
   floorOnly |-> degraded, engines |-> coverage, detections |-> found]

AnswerEvent(prompt) ==
  [action |-> out.action, prompt |-> prompt, response |-> IF degraded THEN Null ELSE reply,
   floorOnly |-> degraded, engines |-> coverage, detections |-> found]

Audit ==
  /\ pc = "audit"
  /\ \E prompt \in AuditPrompts : event' = AnswerEvent(prompt)
  /\ counted' = counted + 1
  /\ status' = "200"
  /\ pc' = "done"
  /\ UNCHANGED <<cfg, coverage, found, onLoss, injection, out, degraded, target, sent, answering>>

(* The client goes away: the handler or the generator is dropped. *)
Disconnect ==
  /\ pc # "done"
  /\ pc' = "done" /\ status' = "gone"
  /\ UNCHANGED <<cfg, coverage, found, onLoss, injection, out, degraded, target, sent, answering,
                 event, counted>>

Next ==
  \/ Preload \/ Detect \/ GateDetection \/ EvaluatePolicy \/ ReadSecureMode \/ CheckInjection
  \/ Deny \/ SkipTarget \/ ProviderFails \/ ChainExhausted \/ ProviderAnswers
  \/ Respond \/ StreamToken \/ StreamEnds \/ Audit \/ Disconnect

Spec == Init /\ [][Next]_vars

-----------------------------------------------------------------------------
(* Properties *)

EnforcedInjection == cfg.secure.enabled /\ InjectionEnforced(cfg.secure)

(* A prompt that the sidecar did not cover whole, or whose enforced         *)
(* injection check it did not answer, reaches a provider only where the     *)
(* workspace chose degrade_with_alert, and then the request is degraded.    *)
CoverageGates ==
  sent # {} /\ (Lost(coverage) \/ (EnforcedInjection /\ Lost(injection.coverage)))
    => cfg.onLoss = "degrade" /\ degraded

(* A request that the strict level, the toggles of the standard level or a  *)
(* deny rule (outside permissive) refuses is never sent to any target.      *)
BlocksHold ==
  sent # {} =>
    LET secure == cfg.secure
    IN /\ secure.enabled /\ secure.level = "strict" => found = {} /\ ~injection.blocking
       /\ secure.enabled /\ secure.level = "standard" =>
            /\ ~(secure.blockPii /\ found # {})
            /\ ~(secure.blockInjection /\ injection.blocking)
       /\ FinalAction(cfg.rules, found) = "deny" => secure.enabled /\ secure.level = "permissive"

Decided == Decider(cfg.rules, found) # {}

AtLevel(level) == cfg.secure.enabled /\ cfg.secure.level = level

(* Where the workspace is promised that what is found is hidden.            *)
Hides ==
  LET action == FinalAction(cfg.rules, found)
  IN \/ cfg.redactWhenNoRules /\ (~Decided \/ action = "redact")
     \/ AtLevel("standard") /\ (~Decided \/ action \in {"allow", "flag"})

(* An atom in which a value can be read, whole or in part. *)
Readable(atom) == atom[1] \in {"raw", "sliced"}

(* With redact_when_no_rules, when no rule decides or a redact rule does,   *)
(* and at the standard level when no rule decides or one lets it through,   *)
(* no provider, at any target, is sent any detected occurrence of a value;  *)
(* and no value of the prompt at all when the sidecar covered it whole.     *)
(* Hidden is what was detected, span by span: with lost coverage a value    *)
(* found in one chunk may still stand in another.                           *)
FoundIsHidden ==
  Hides => \A text \in sent :
             /\ \A i \in Spans(found) : ~Readable(text[i])
             /\ ~Lost(coverage) => Exposed(text) \cap Values(cfg.prompt) = {}

(* What the event stores: no value of the prompt in the response, where     *)
(* what is found is hidden, for the provider was never shown it; and a NULL *)
(* prompt and response wherever the coverage of the prompt was lost, with   *)
(* floor_only on every such answer.                                         *)
StoredIsSafe ==
  event # NoEvent =>
    /\ event.response # Null /\ Hides
         => Exposed(event.response) \cap Values(cfg.prompt) = {}
    /\ Lost(coverage)
         => event.prompt = Null /\ event.response = Null /\ (status = "200" => event.floorOnly)

(* A placeholder that stands for a value of the prompt comes back as that   *)
(* very value.  A streamed answer that is also scrubbed is left out.        *)
RoundTrip ==
  cfg.kind = "chat" \/ ~Scrubbing =>
    \A i \in DOMAIN shown, j \in DOMAIN out.content :
      reply[i] = out.content[j] /\ reply[i][1] = "token" /\ cfg.prompt[j][1] = "raw"
        => shown[i] = cfg.prompt[j]

(* redact_pii_in_responses: a chat answer that was scanned whole shows no   *)
(* value but the ones the client gave, segment by segment as well.          *)
ScrubHolds ==
  Scrubbing /\ cfg.kind # "completion" /\ ~degraded => Exposed(shown) \subseteq originals \cup Weak

(* What the client is shown by restore and by the scrubbing of the answer:  *)
(* its own values, each in the place the provider left its placeholder, and *)
(* under redact_pii_in_responses nobody else's.                             *)
ShownIsTheClients == RoundTrip /\ ScrubHolds

-----------------------------------------------------------------------------
(* What the comments and the documentation claim *)

(* "Any policy-driven `deny` is downgraded to `redact` so PII is still     *)
(* scrubbed but the request proceeds."                                      *)
DowngradedIsScrubbed ==
  AtLevel("permissive") /\ FinalAction(cfg.rules, found) = "deny"
    => \A text \in sent : \A i \in Spans(found) : ~Readable(text[i])
=============================================================================
