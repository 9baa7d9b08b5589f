--------------------------- MODULE PipelineProofs ---------------------------
(***************************************************************************)
(* Proofs about a request on its way through the pipeline, for any          *)
(* workspaces and requests: any rules, any prompt, any number of values, of *)
(* provider targets and of answered tokens.  And about SidecarBreaker, the  *)
(* breaker its detections go through: any number of concurrent calls, any   *)
(* threshold and interval, and prompts of any number of chunks.             *)
(***************************************************************************)
EXTENDS Pipeline, SidecarBreaker, FiniteSetTheorems, SequenceTheorems, WellFoundedInduction, TLAPS

Prepared == {"provider", "respond", "stream", "audit"}
Gated == {"evaluate", "secure", "injection", "denied"} \cup Prepared
Stages == {"preload", "detect", "gate", "done"} \cup Gated

(* The request is on its way to a provider, or was sent to one. *)
Released == pc \in Prepared \/ sent # {}

(* What is found is of the prompt, and all of it when the coverage is complete. *)
FoundInv ==
  /\ cfg \in Configs /\ pc \in Stages
  /\ found \subseteq Detections(cfg.prompt)
  /\ coverage = "complete" => found = Detections(cfg.prompt)

(* Nothing is sent, said, shown or stored before its time, and only the content is sent. *)
OrderInv ==
  /\ sent \subseteq {out.content}
  /\ pc \notin Prepared \cup {"done"} => sent = {}
  /\ pc \in {"preload", "detect", "gate", "provider"} \cup (Gated \ Prepared) =>
       reply = <<>> /\ pending = <<>> /\ shown = <<>>
  /\ pc = "respond" => shown = <<>> /\ cfg.kind # "stream"
  /\ pc = "stream" => cfg.kind = "stream"
  /\ pc # "done" => event = NoEvent

(* A request without complete coverage passes its gates degraded or not at all. *)
GateInv ==
  /\ pc \in {"evaluate", "secure", "injection"} => onLoss \in {cfg.onLoss, "block"}
  /\ pc \in Gated \/ sent # {} => (Lost(coverage) => cfg.onLoss = "degrade" /\ degraded)
  /\ Released =>
       (EnforcedInjection /\ Lost(injection.coverage) => cfg.onLoss = "degrade" /\ degraded)

(* Between the policy and the secure mode the outcome is the policy's. *)
OutcomeInv ==
  /\ pc \in {"secure", "injection"} =>
       \E vault : out = Evaluate(cfg.rules, cfg.prompt, found, vault, cfg.redactWhenNoRules)
  /\ pc = "injection" => cfg.secure.enabled

(* What BlocksHold says of a request, once it is released. *)
Refused ==
  LET secure == cfg.secure
  IN \/ secure.enabled /\ secure.level = "strict" /\ (found # {} \/ injection.blocking)
     \/ /\ secure.enabled /\ secure.level = "standard"
        /\ (secure.blockPii /\ found # {}) \/ (secure.blockInjection /\ injection.blocking)
     \/ /\ FinalAction(cfg.rules, found) = "deny"
        /\ ~(secure.enabled /\ secure.level = "permissive")

(* What was detected is hidden, span by span, and the rest stands as it was written. *)
Hidden(o) ==
  /\ DOMAIN o.content = DOMAIN cfg.prompt
  /\ \A i \in DOMAIN cfg.prompt :
       IF i \in Spans(found) THEN ~Readable(o.content[i]) ELSE o.content[i] = cfg.prompt[i]

DecisionInv ==
  Released => ~Refused /\ (Hides => Hidden(out))

Fields(o) == {"action", "denied", "unprotected", "content", "vault", "mapped"} \subseteq DOMAIN o

(* A placeholder in the place of a value of the prompt names that value in the vault. *)
Named(o) ==
  /\ DOMAIN o.content = DOMAIN cfg.prompt
  /\ \A j \in DOMAIN o.content :
       o.content[j][1] = "token" /\ cfg.prompt[j][1] = "raw" =>
         o.content[j] \in DOMAIN o.vault /\ cfg.prompt[j] = Raw(o.vault[o.content[j]])

(* A value of which a part is left in the content is one of `values`. *)
SlicedAreOf(values) ==
  \A j \in DOMAIN out.content : \A e \in Entity : out.content[j] = Sliced(e) => e \in values

VaultInv ==
  /\ Fields(out)
  /\ pc \in {"provider", "respond"} \/ (pc = "stream" /\ ~Scrubbing) => Named(out)
  /\ pc = "provider" => SlicedAreOf(OriginalValues(out.vault))
  /\ pc \in {"respond", "stream"} => SlicedAreOf(originals)
  /\ pc = "respond" => originals = OriginalValues(out.vault)

(* What is said is sayable, and a stream that is not scrubbed shows it restored, from the front. *)
AnswerInv ==
  /\ reply \in Seq(Sayable) /\ pending \in Seq(Sayable) /\ \E S : shown \in Seq(S)
  /\ cfg.kind = "stream" /\ ~Scrubbing =>
       /\ Len(shown) + Len(pending) = Len(reply)
       /\ \A i \in 1..Len(shown) : shown[i] = Restore(reply, out.vault)[i]
       /\ \A i \in 1..Len(pending) : pending[i] = reply[Len(shown) + i]

PipelineInv ==
  /\ FoundInv /\ OrderInv /\ GateInv /\ OutcomeInv /\ DecisionInv /\ VaultInv /\ AnswerInv
  /\ StoredIsSafe /\ ShownIsTheClients

-----------------------------------------------------------------------------
(* Placeholders *)

(* At a detected place stands the value that was detected there. *)
LEMMA DetectedAre ==
  ASSUME NEW text, NEW hits \in SUBSET Detections(text), NEW i \in Spans(hits)
  PROVE  /\ i \in DOMAIN text /\ text[i] = Raw(text[i][2]) /\ <<i, text[i][2]>> \in hits
         /\ text[i][2] \in ValuesOf(hits)
<1>1. PICK d \in hits : i = d[1]
  BY DEF Spans
<1>2. d \in (DOMAIN text) \X Entity /\ text[d[1]] = Raw(d[2])
  BY DEF Detections
<1>3. d = <<i, d[2]>> /\ i \in DOMAIN text /\ text[i] = Raw(d[2])
  BY <1>1, <1>2
<1>4. text[i][2] = d[2]
  BY <1>3 DEF Raw
<1> QED BY <1>3, <1>4 DEF ValuesOf

(* A value that was detected has a first place where it was. *)
LEMMA FirstIs ==
  ASSUME NEW S, NEW text \in Seq(S), NEW hits \in SUBSET Detections(text), NEW e \in ValuesOf(hits)
  PROVE  First(hits, e) \in DOMAIN text /\ text[First(hits, e)] = Raw(e)
<1> DEFINE T == {i \in DOMAIN text : <<i, e>> \in hits}
<1>1. \A d \in hits : d[1] \in DOMAIN text /\ d = <<d[1], d[2]>>
  BY DEF Detections
<1>2. T \subseteq Nat /\ T # {}
  <2>1. PICK d \in hits : d[2] = e
    BY DEF ValuesOf
  <2>2. d[1] \in T
    BY <1>1, <2>1
  <2>3. DOMAIN text \subseteq Nat
    OBVIOUS
  <2> HIDE DEF T
  <2>4. T \subseteq DOMAIN text
    BY DEF T
  <2> QED BY <2>2, <2>3, <2>4
<1>3. PICK i \in T : \A j \in T : ~(<<j, i>> \in OpToRel(<, Nat))
  BY <1>2, WFMin, NatLessThanWellFounded
<1>4. \A j \in T : ~(j < i)
  BY <1>2, <1>3 DEF OpToRel
<1>5. i \in Spans(hits) /\ <<i, e>> \in hits
  <2>1. <<i, e>> \in hits /\ <<i, e>>[1] = i
    OBVIOUS
  <2> QED BY <2>1 DEF Spans
<1>6. \A d \in hits : d[2] = e => i <= d[1]
  BY <1>1, <1>2, <1>4
<1>7. <<First(hits, e), e>> \in hits
  BY <1>5, <1>6 DEF First
<1> QED BY <1>7 DEF Detections

(* The values detected in a text are finitely many: each has a first place of its own. *)
LEMMA ValuesFinite ==
  ASSUME NEW S, NEW text \in Seq(S), NEW hits \in SUBSET Detections(text)
  PROVE  IsFiniteSet(ValuesOf(hits))
<1> DEFINE f == [e \in ValuesOf(hits) |-> First(hits, e)]
<1>1. f \in [ValuesOf(hits) -> DOMAIN text]
  BY FirstIs
<1>2. ASSUME NEW d \in ValuesOf(hits), NEW e \in ValuesOf(hits), f[d] = f[e]
      PROVE  d = e
  <2>1. Raw(d) = Raw(e)
    BY <1>2, FirstIs
  <2> QED BY <2>1 DEF Raw
<1>3. f \in Injection(ValuesOf(hits), DOMAIN text)
  BY <1>1, <1>2 DEF Injection, IsInjective
<1>4. IsFiniteSet(DOMAIN text)
  BY FS_Interval
<1> QED BY <1>3, <1>4, FS_Injection

(* Two values that one call of apply_redaction numbers have two placeholders. *)
LEMMA PlaceholdersDiffer ==
  ASSUME NEW S, NEW text \in Seq(S), NEW hits \in SUBSET Detections(text),
         NEW d \in ValuesOf(hits), NEW e \in ValuesOf(hits),
         PlaceholderFor(hits, d) = PlaceholderFor(hits, e)
  PROVE  d = e
<1> DEFINE Upto(x) == {f \in ValuesOf(hits) : ClassOf[f] = ClassOf[x] /\ First(hits, f) <= First(hits, x)}
<1>1. ClassOf[d] = ClassOf[e] /\ Cardinality(Upto(d)) = Cardinality(Upto(e))
  BY DEF PlaceholderFor, Token
<1>2. \A x \in ValuesOf(hits) : First(hits, x) \in Nat /\ text[First(hits, x)] = Raw(x)
  BY FirstIs
<1>3. IsFiniteSet(Upto(d)) /\ IsFiniteSet(Upto(e))
  BY ValuesFinite, FS_Subset
<1>4. d \in Upto(d) /\ e \in Upto(e)
  BY <1>2
<1>5. Upto(d) \subseteq Upto(e) \/ Upto(e) \subseteq Upto(d)
  BY <1>1, <1>2
<1> HIDE DEF Upto
<1>6. Upto(d) = Upto(e)
  BY <1>1, <1>3, <1>5, FS_Subset
<1>7. First(hits, d) = First(hits, e)
  BY <1>2, <1>4, <1>6 DEF Upto
<1> QED BY <1>2, <1>7 DEF Raw

(* A text is not shorter than itself. *)
LEMMA SameText ==
  ASSUME NEW text, NEW hits
  PROVE  /\ \A i : ~Shortened(text, text, i)
         /\ Replaced(text, text, hits) = Spans(hits)
         /\ ApplyRedaction(text, text, hits) =
              [i \in DOMAIN text |-> IF i \notin Spans(hits) THEN text[i]
                                     ELSE PlaceholderFor(hits, text[i][2])]
BY DEF Shortened, Replaced, ApplyRedaction

(* A prompt holds no part of a value and no rendered one. *)
LEMMA PromptIsPlain ==
  ASSUME NEW prompt \in Seq(PromptAtoms), NEW j \in DOMAIN prompt
  PROVE  prompt[j][1] \in {"raw", "token"} /\ \A e : prompt[j] # Sliced(e)
BY DEF PromptAtoms, Sliced

(* Redacting a text leaves nothing to read at the places it is given, and the rest alone. *)
LEMMA RedactionHides ==
  ASSUME NEW text, NEW hits, NEW i \in DOMAIN text
  PROVE  IF i \in Spans(hits) THEN ~Readable(ApplyRedaction(text, text, hits)[i])
         ELSE ApplyRedaction(text, text, hits)[i] = text[i]
<1> DEFINE content == ApplyRedaction(text, text, hits)
<1>1. content[i] = IF i \notin Spans(hits) THEN text[i] ELSE PlaceholderFor(hits, text[i][2])
  BY SameText
<1>2. PlaceholderFor(hits, text[i][2])[1] = "token"
  BY DEF PlaceholderFor, Token
<1> HIDE DEF content
<1>3. IF i \in Spans(hits) THEN ~Readable(content[i]) ELSE content[i] = text[i]
  BY <1>1, <1>2 DEF Readable
<1> QED BY <1>3 DEF content

(* A value that a redaction replaces is in the vault, under its own placeholder. *)
LEMMA VaultNames ==
  ASSUME NEW prompt \in Seq(PromptAtoms), NEW hits \in SUBSET Detections(prompt), NEW vault,
         NEW text, NEW j \in Replaced(text, prompt, hits)
  PROVE  LET after == VaultAfter(text, prompt, hits, vault)
             t == PlaceholderFor(hits, prompt[j][2])
         IN t \in DOMAIN after /\ prompt[j] = Raw(after[t])
<1> DEFINE hidden == {prompt[i][2] : i \in Replaced(text, prompt, hits)}
           P(e) == PlaceholderFor(hits, e)
           new == [t \in {P(e) : e \in hidden} |-> CHOOSE e \in hidden : P(e) = t]
           after == VaultAfter(text, prompt, hits, vault)
           d == prompt[j][2]
<1>1. Replaced(text, prompt, hits) \subseteq Spans(hits)
  BY DEF Replaced
<1>2. hidden \subseteq ValuesOf(hits)
  <2>1. \A i \in Replaced(text, prompt, hits) : prompt[i][2] \in ValuesOf(hits)
    BY <1>1, DetectedAre
  <2> QED BY <2>1
<1>3. d \in hidden
  OBVIOUS
<1>4. after = [t \in DOMAIN new \cup DOMAIN vault |-> IF t \in DOMAIN new THEN new[t] ELSE vault[t]]
  BY DEF VaultAfter, Inserted
<1>5. P(d) \in DOMAIN new /\ new[P(d)] = CHOOSE e \in hidden : P(e) = P(d)
  BY <1>3
<1>6. new[P(d)] = d
  <2> HIDE DEF hidden, P
  <2>1. (CHOOSE e \in hidden : P(e) = P(d)) \in hidden /\ P(CHOOSE e \in hidden : P(e) = P(d)) = P(d)
    BY <1>3
  <2>2. ASSUME NEW e \in hidden, P(e) = P(d) PROVE e = d
    BY <1>2, <1>3, <2>2, PlaceholdersDiffer DEF P
  <2> HIDE DEF new, d
  <2> QED BY <1>5, <2>1, <2>2
<1> HIDE DEF new
<1>7. P(d) \in DOMAIN after /\ after[P(d)] = d
  BY <1>4, <1>5, <1>6
<1> QED BY <1>1, <1>7, DetectedAre

-----------------------------------------------------------------------------
(* The outcome *)

(* No value of the prompt was replaced yet. *)
Untouched(text) ==
  /\ DOMAIN text = DOMAIN cfg.prompt
  /\ \A j \in DOMAIN text : /\ ~(text[j][1] = "token" /\ cfg.prompt[j][1] = "raw")
                            /\ \A e \in Entity : text[j] # Sliced(e)

SlicedIn(o) ==
  \A j \in DOMAIN o.content : \A e \in Entity :
    o.content[j] = Sliced(e) => e \in OriginalValues(o.vault)

Sound(o) == Fields(o) /\ Named(o) /\ SlicedIn(o) /\ (o.mapped \/ Untouched(o.content))

(* Redacting a text in which nothing was replaced yet leaves every placeholder in the vault. *)
LEMMA RedactionSound ==
  ASSUME FoundInv, NEW hits \in SUBSET Detections(cfg.prompt), NEW text, Untouched(text), NEW vault,
         NEW o, Fields(o), o.content = ApplyRedaction(text, cfg.prompt, hits),
         o.vault = VaultAfter(text, cfg.prompt, hits, vault),
         o.mapped = (Replaced(text, cfg.prompt, hits) # {})
  PROVE  Sound(o)
<1> DEFINE prompt == cfg.prompt
           R == Replaced(text, prompt, hits)
           P(e) == PlaceholderFor(hits, e)
<1>0. prompt \in Seq(PromptAtoms)
  BY PipelineAssumption DEF FoundInv
<1>1. /\ DOMAIN o.content = DOMAIN text /\ DOMAIN text = DOMAIN prompt
      /\ \A j \in DOMAIN text : j \notin R => o.content[j] = text[j]
      /\ \A j \in R : o.content[j] \in {Sliced(prompt[j][2]), P(prompt[j][2])}
  <2>1. \A j \in R : j \in DOMAIN prompt
    BY DetectedAre DEF Replaced
  <2> QED BY <2>1 DEF ApplyRedaction, Untouched
<1>2. \A j \in R : P(prompt[j][2]) \in DOMAIN o.vault /\ prompt[j] = Raw(o.vault[P(prompt[j][2])])
  BY <1>0, <1>1, VaultNames
<1> HIDE DEF R, P, prompt
<1>3. Named(o)
  <2> SUFFICES ASSUME NEW j \in DOMAIN o.content, o.content[j][1] = "token", prompt[j][1] = "raw"
               PROVE  o.content[j] \in DOMAIN o.vault /\ prompt[j] = Raw(o.vault[o.content[j]])
    BY <1>1 DEF Named, prompt
  <2>1. j \in R
    BY <1>1 DEF Untouched, prompt
  <2>2. o.content[j] = P(prompt[j][2])
    BY <1>1, <2>1 DEF Sliced
  <2> QED BY <1>2, <2>1, <2>2
<1>4. SlicedIn(o)
  <2> SUFFICES ASSUME NEW j \in DOMAIN o.content, NEW e \in Entity, o.content[j] = Sliced(e)
               PROVE  e \in OriginalValues(o.vault)
    BY DEF SlicedIn
  <2>1. j \in R
    BY <1>1 DEF Untouched, prompt
  <2>2. o.content[j] = Sliced(prompt[j][2])
    <3>1. P(prompt[j][2])[1] = "token"
      BY DEF P, PlaceholderFor, Token
    <3> QED BY <1>1, <2>1, <3>1 DEF Sliced
  <2>3. prompt[j][2] = e
    BY <2>2 DEF Sliced
  <2>4. o.vault[P(prompt[j][2])] = e /\ P(prompt[j][2]) \in DOMAIN o.vault
    BY <1>2, <2>1, <2>3 DEF Raw
  <2> QED BY <2>4 DEF OriginalValues
<1>5. o.mapped \/ Untouched(o.content)
  <2>1. CASE R = {}
    BY <1>1, <2>1 DEF Untouched, prompt
  <2>2. CASE R # {}
    BY <2>2 DEF R, prompt
  <2> QED BY <2>1, <2>2
<1> QED BY <1>3, <1>4, <1>5 DEF Sound

(* What was detected is hidden, or the content is still the prompt. *)
OnTheWay(o) == IF o.mapped THEN Hidden(o) ELSE o.content = cfg.prompt

(* What detection may report has the types the invariant asks for. *)
LEMMA FoundTypes ==
  ASSUME FoundInv
  PROVE  /\ cfg.prompt \in Seq(PromptAtoms) /\ found \in SUBSET Detections(cfg.prompt)
         /\ Untouched(cfg.prompt)
<1>1. cfg.prompt \in Seq(PromptAtoms) /\ found \in SUBSET Detections(cfg.prompt)
  BY PipelineAssumption DEF FoundInv
<1>2. \A j \in DOMAIN cfg.prompt : \A e : cfg.prompt[j] # Sliced(e)
  BY <1>1, PromptIsPlain
<1> QED BY <1>1, <1>2 DEF Untouched

(* Redacting all that was detected in the prompt hides it. *)
LEMMA RedactionOnTheWay ==
  ASSUME FoundInv, NEW o, o.content = ApplyRedaction(cfg.prompt, cfg.prompt, found),
         o.mapped = (Replaced(cfg.prompt, cfg.prompt, found) # {})
  PROVE  OnTheWay(o) /\ Hidden(o)
<1>1. Hidden(o)
  <2>1. DOMAIN o.content = DOMAIN cfg.prompt
    BY DEF ApplyRedaction
  <2> QED BY <2>1, RedactionHides DEF Hidden
<1>2. ~o.mapped => o.content = cfg.prompt
  <2> HAVE ~o.mapped
  <2>1. Replaced(cfg.prompt, cfg.prompt, found) = {}
    OBVIOUS
  <2>2. o.content = [i \in DOMAIN cfg.prompt |-> cfg.prompt[i]]
    BY <2>1 DEF ApplyRedaction
  <2> QED BY <2>2, FoundTypes
<1> QED BY <1>1, <1>2 DEF OnTheWay

(* Nothing of a prompt that the sidecar covered whole can be read once what was found is hidden. *)
LEMMA WholeIsHidden ==
  ASSUME FoundInv, ~Lost(coverage), NEW o, Hidden(o)
  PROVE  Exposed(o.content) = {}
<1> SUFFICES ASSUME NEW e \in Entity, NEW i \in DOMAIN o.content, o.content[i] \in {Raw(e), Sliced(e)}
             PROVE  FALSE
  BY DEF Exposed
<1>1. i \in DOMAIN cfg.prompt /\ Readable(o.content[i])
  BY DEF Hidden, Readable, Raw, Sliced
<1>2. i \notin Spans(found) /\ o.content[i] = cfg.prompt[i]
  BY <1>1 DEF Hidden
<1>3. cfg.prompt[i] = Raw(e)
  BY <1>1, <1>2, FoundTypes, PromptIsPlain
<1>4. <<i, e>> \in found
  BY <1>1, <1>3 DEF Detections, FoundInv, Lost
<1>5. <<i, e>>[1] = i
  OBVIOUS
<1> QED BY <1>2, <1>4, <1>5 DEF Spans

(* The policy's outcome. *)
LEMMA PolicyOutcome ==
  ASSUME FoundInv, NEW vault, NEW o,
         o = Evaluate(cfg.rules, cfg.prompt, found, vault, cfg.redactWhenNoRules)
  PROVE  /\ Sound(o)
         /\ o.unprotected = ~Decided /\ o.denied = (FinalAction(cfg.rules, found) = "deny")
         /\ Hides => OnTheWay(o)
         /\ cfg.redactWhenNoRules /\ Decided /\ FinalAction(cfg.rules, found) = "redact" => Hidden(o)
<1> DEFINE prompt == cfg.prompt
           action == FinalAction(cfg.rules, found)
           rule == cfg.rules[CHOOSE i \in Decider(cfg.rules, found) : TRUE]
           redacting == Decided /\ action = "redact"
           hidden == IF redacting THEN ToRedact(rule, found, cfg.redactWhenNoRules) ELSE {}
           transforming == Decided /\ action = "transform"
           rendered == ApplyTransform(prompt, MatchingDetections(rule, found), rule.template)
<1>1. o = [action |-> action, denied |-> action = "deny", unprotected |-> ~Decided,
           content |-> IF transforming THEN rendered ELSE ApplyRedaction(prompt, prompt, hidden),
           vault |-> VaultAfter(prompt, prompt, hidden, vault),
           mapped |-> Replaced(prompt, prompt, hidden) # {}]
  BY DEF Evaluate, Decided
<1>2. hidden \in SUBSET found /\ (redacting /\ cfg.redactWhenNoRules => hidden = found)
      /\ (~redacting => hidden = {})
  BY DEF ToRedact, MatchingDetections
<1>3. hidden \in SUBSET Detections(cfg.prompt)
  BY <1>2, FoundTypes
<1> HIDE DEF hidden, rule
<1>4. /\ Fields(o) /\ o.unprotected = ~Decided /\ o.denied = (action = "deny")
      /\ o.content = IF transforming THEN rendered ELSE ApplyRedaction(prompt, prompt, hidden)
      /\ o.vault = VaultAfter(prompt, prompt, hidden, vault)
      /\ o.mapped = (Replaced(prompt, prompt, hidden) # {})
  <2> HIDE DEF action, rendered, prompt
  <2> QED BY <1>1 DEF Fields
<1>5. Sound(o)
  <2>1. CASE ~transforming
    BY <1>3, <1>4, <2>1, FoundTypes, RedactionSound
  <2>2. CASE transforming
    <3>1. hidden = {} /\ o.content = rendered
      BY <1>2, <1>4, <2>2
    <3>2. /\ DOMAIN rendered = DOMAIN prompt
          /\ \A j \in DOMAIN prompt : rendered[j] = prompt[j] \/ rendered[j][1] = "masked"
      BY DEF ApplyTransform, Masked
    <3>3. Untouched(rendered)
      <4> HIDE DEF rendered
      <4> QED BY <3>2, FoundTypes DEF Untouched, Sliced
    <3> QED BY <1>4, <3>1, <3>3 DEF Sound, Named, SlicedIn, Untouched
  <2> QED BY <2>1, <2>2
<1>6. Hides => OnTheWay(o)
  <2> HAVE Hides
  <2>1. ~transforming
    BY DEF Hides
  <2>2. CASE redacting /\ cfg.redactWhenNoRules
    BY <1>2, <1>4, <2>1, <2>2, RedactionOnTheWay
  <2>3. CASE ~redacting
    <3>0. Spans({}) = {}
      BY DEF Spans
    <3>1. hidden = {} /\ o.content = ApplyRedaction(prompt, prompt, {}) /\ ~o.mapped
      BY <1>2, <1>4, <2>1, <2>3, <3>0, SameText
    <3>2. o.content = [i \in DOMAIN prompt |-> prompt[i]]
      BY <3>0, <3>1, SameText
    <3> QED BY <3>1, <3>2, FoundTypes DEF OnTheWay
  <2>4. Hides => ~redacting \/ cfg.redactWhenNoRules
    BY DEF Hides
  <2> QED BY <2>2, <2>3, <2>4
<1>7. ASSUME cfg.redactWhenNoRules, Decided, action = "redact"
      PROVE  Hidden(o)
  BY <1>2, <1>4, <1>7, RedactionOnTheWay
<1> QED BY <1>4, <1>5, <1>6, <1>7

(* The safety net redacts what is not redacted yet, and leaves the rest of the outcome. *)
LEMMA RedactedOutcome ==
  ASSUME FoundInv, NEW o, Sound(o)
  PROVE  /\ Sound(Redacted(o)) /\ Redacted(o).denied = o.denied
         /\ Redacted(o).unprotected = o.unprotected
         /\ OnTheWay(o) => OnTheWay(Redacted(o)) /\ Hidden(Redacted(o))
         /\ OnTheWay(o) /\ Hidden(o) => Hidden(Redacted(o))
<1>1. CASE found = {} \/ o.mapped
  <2>1. Redacted(o) = o
    BY <1>1 DEF Redacted
  <2>2. CASE o.mapped
    BY <2>1, <2>2 DEF OnTheWay
  <2>3. CASE found = {}
    <3>1. Spans(found) = {}
      BY <2>3 DEF Spans
    <3> QED BY <2>1, <3>1 DEF OnTheWay, Hidden
  <2> QED BY <1>1, <2>2, <2>3
<1>2. CASE ~(found = {} \/ o.mapped)
  <2> DEFINE r == Redacted(o)
  <2>1. /\ r.content = ApplyRedaction(o.content, cfg.prompt, found)
        /\ r.vault = VaultAfter(o.content, cfg.prompt, found, o.vault)
        /\ r.mapped = (Replaced(o.content, cfg.prompt, found) # {})
        /\ r.denied = o.denied /\ r.unprotected = o.unprotected /\ Fields(r)
    BY <1>2 DEF Redacted, Sound, Fields
  <2>2. Sound(r)
    <3> HIDE DEF r
    <3> QED BY <1>2, <2>1, FoundTypes, RedactionSound DEF Sound
  <2>3. OnTheWay(o) => OnTheWay(r) /\ Hidden(r)
    <3> HIDE DEF r
    <3> QED BY <1>2, <2>1, RedactionOnTheWay DEF OnTheWay
  <2> QED BY <2>1, <2>2, <2>3
<1> QED BY <1>1, <1>2

(* The end of prepare: what was denied stays denied and, where it is promised, what was found is
   hidden.  `overridden` is the outcome with or without the secure mode's override. *)
LEMMA PreparedOutcome ==
  ASSUME FoundInv, NEW vault, NEW o, NEW blocking \in BOOLEAN, NEW overridden,
         o = Evaluate(cfg.rules, cfg.prompt, found, vault, cfg.redactWhenNoRules),
         overridden = IF cfg.secure.enabled THEN Override(cfg.secure, blocking, o) ELSE o
  PROVE  LET final == Fallback(overridden)
         IN /\ Sound(final)
            /\ Hides => Hidden(final)
            /\ FinalAction(cfg.rules, found) = "deny" /\ ~AtLevel("permissive") => final.denied
            /\ AtLevel("strict") /\ (found # {} \/ blocking) => final.denied
            /\ /\ AtLevel("standard")
               /\ (cfg.secure.blockPii /\ found # {}) \/ (cfg.secure.blockInjection /\ blocking)
               => final.denied
<1> DEFINE secure == cfg.secure
           final == Fallback(overridden)
<1>1. /\ Sound(o) /\ o.unprotected = ~Decided /\ o.denied = (FinalAction(cfg.rules, found) = "deny")
      /\ Hides => OnTheWay(o)
      /\ cfg.redactWhenNoRules /\ Decided /\ FinalAction(cfg.rules, found) = "redact" => Hidden(o)
  BY PolicyOutcome
(* Marking an outcome changes neither its text nor its vault. *)
<1>2. ASSUME NEW p, Sound(p)
      PROVE  /\ Sound(Denied(p)) /\ Denied(p).denied /\ Denied(p).unprotected = p.unprotected
             /\ OnTheWay(p) => OnTheWay(Denied(p))
             /\ Hidden(p) => Hidden(Denied(p))
  <2> DEFINE q == Denied(p)
  <2>1. /\ Fields(q) /\ q.content = p.content /\ q.vault = p.vault /\ q.mapped = p.mapped
        /\ q.denied = TRUE /\ q.unprotected = p.unprotected
    BY <1>2 DEF Denied, Sound, Fields
  <2> HIDE DEF q
  <2> QED BY <1>2, <2>1 DEF Sound, Named, SlicedIn, OnTheWay, Hidden, q
<1>3. ASSUME NEW action
      PROVE  LET q == [o EXCEPT !.denied = FALSE, !.action = action]
             IN /\ Sound(q) /\ q.unprotected = o.unprotected
                /\ OnTheWay(o) => OnTheWay(q)
                /\ Hidden(o) => Hidden(q)
  <2> DEFINE q == [o EXCEPT !.denied = FALSE, !.action = action]
  <2>1. /\ Fields(q) /\ q.content = o.content /\ q.vault = o.vault /\ q.mapped = o.mapped
        /\ q.unprotected = o.unprotected
    BY <1>1 DEF Sound, Fields
  <2> HIDE DEF q
  <2>2. /\ Sound(q) /\ q.unprotected = o.unprotected
        /\ OnTheWay(o) => OnTheWay(q)
        /\ Hidden(o) => Hidden(q)
    BY <1>1, <2>1 DEF Sound, Named, SlicedIn, OnTheWay, Hidden
  <2> QED BY <2>2 DEF q
<1>4. /\ Sound(overridden) /\ overridden.unprotected = o.unprotected
      /\ OnTheWay(o) => OnTheWay(overridden)
      /\ OnTheWay(o) /\ Hidden(o) => Hidden(overridden)
      /\ OnTheWay(o) /\ AtLevel("standard") => Hidden(overridden)
      /\ o.denied /\ ~AtLevel("permissive") => overridden.denied
      /\ AtLevel("strict") /\ (found # {} \/ blocking) => overridden.denied
      /\ /\ AtLevel("standard")
         /\ (secure.blockPii /\ found # {}) \/ (secure.blockInjection /\ blocking)
         => overridden.denied
  <2>1. CASE ~secure.enabled
    BY <1>1, <2>1 DEF AtLevel
  <2>2. CASE secure.enabled /\ secure.level = "permissive"
    BY <1>1, <1>3, <2>2 DEF Override, AtLevel
  <2>3. CASE secure.enabled /\ secure.level = "strict"
    BY <1>1, <1>2, <2>3 DEF Override, AtLevel
  <2>4. CASE secure.enabled /\ secure.level \notin {"permissive", "strict"}
    <3> DEFINE r == Redacted(o)
    <3>1. /\ Sound(r) /\ r.denied = o.denied /\ r.unprotected = o.unprotected
          /\ OnTheWay(o) => OnTheWay(r) /\ Hidden(r)
          /\ OnTheWay(o) /\ Hidden(o) => Hidden(r)
      BY <1>1, RedactedOutcome
    <3>2. overridden = IF (secure.blockPii /\ found # {}) \/ (secure.blockInjection /\ blocking)
                       THEN Denied(r) ELSE r
      BY <2>4 DEF Override
    <3> HIDE DEF r
    <3> QED BY <1>2, <2>4, <3>1, <3>2 DEF AtLevel
  <2> QED BY <2>1, <2>2, <2>3, <2>4
<1>5. /\ Sound(final) /\ final.denied = overridden.denied
      /\ OnTheWay(overridden) => OnTheWay(final)
      /\ OnTheWay(overridden) /\ Hidden(overridden) => Hidden(final)
      /\ OnTheWay(overridden) /\ cfg.redactWhenNoRules /\ overridden.unprotected => Hidden(final)
  BY <1>4, RedactedOutcome DEF Fallback
<1>6. Hides => Hidden(final)
  BY <1>1, <1>4, <1>5 DEF Hides
<1> QED BY <1>1, <1>4, <1>5, <1>6

-----------------------------------------------------------------------------
(* The steps *)

(* Nothing was said or shown yet. *)
LEMMA Silence ==
  ASSUME reply' = <<>>, pending' = <<>>, shown' = <<>>
  PROVE  AnswerInv' /\ ShownIsTheClients'
<1>1. <<>> \in Seq({})
  OBVIOUS
<1> QED BY <1>1 DEF AnswerInv, ShownIsTheClients, RoundTrip, ScrubHolds, Exposed

(* A request that fails or is dropped leaves everything where it stands. *)
LEMMA EndStep ==
  ASSUME PipelineInv, pc # "done", pc' = "done",
         sent' = sent \/ (pc = "provider" /\ sent' = sent \cup {out.content}),
         UNCHANGED <<cfg, coverage, found, onLoss, injection, out, degraded, answering, event>>
  PROVE  PipelineInv'
<1> USE DEF PipelineInv
<1>1. FoundInv' /\ OutcomeInv' /\ VaultInv'
  BY DEF FoundInv, OutcomeInv, VaultInv, Stages
<1>7. OrderInv'
  BY DEF OrderInv, Prepared, Gated
<1>2. sent' # {} => Released
  BY DEF Released, Prepared
<1>3. GateInv' /\ DecisionInv'
  <2>1. GateInv'
    BY <1>2 DEF GateInv, Released, EnforcedInjection, Gated, Prepared
  <2>2. DecisionInv'
    BY <1>2 DEF DecisionInv, Released, Refused, Hides, Hidden, Decided, AtLevel, Prepared
  <2> QED BY <2>1, <2>2
<1>4. AnswerInv'
  BY DEF AnswerInv, answering, Sayable, Scrubbing
<1>5. StoredIsSafe'
  BY DEF OrderInv, StoredIsSafe
<1>6. ShownIsTheClients'
  BY DEF ShownIsTheClients, RoundTrip, ScrubHolds, Scrubbing, answering
<1> QED BY <1>1, <1>7, <1>3, <1>4, <1>5, <1>6

(* A request that is refused before anything was sent. *)
LEMMA RefuseStep ==
  ASSUME PipelineInv, pc \notin Prepared \cup {"done"}, NEW action, NEW prompt, NEW answer,
         Refuse(action, prompt, answer), answer # "200", Lost(coverage) => prompt = Null,
         UNCHANGED <<cfg, coverage, found, out, sent, answering>>
  PROVE  PipelineInv'
<1> USE DEF PipelineInv, Refuse
<1>1. FoundInv' /\ OutcomeInv' /\ VaultInv'
  BY DEF FoundInv, OutcomeInv, VaultInv, Stages
<1>2. sent' = {} /\ reply' = <<>> /\ pending' = <<>> /\ shown' = <<>>
  BY DEF OrderInv, answering, FoundInv, Stages
<1>3. OrderInv'
  BY <1>2 DEF OrderInv, Prepared, Gated
<1>4. GateInv' /\ DecisionInv'
  BY <1>2 DEF GateInv, DecisionInv, Released, Prepared, Gated
<1>5. StoredIsSafe'
  BY DEF StoredIsSafe, RefusalEvent
<1> QED BY <1>1, <1>2, <1>3, <1>4, <1>5, Silence

(* Loading a scanned file's stash (or failing to) keeps the invariant. *)
LEMMA PreloadStep == ASSUME PipelineInv, Preload PROVE PipelineInv'
<1> USE DEF PipelineInv, Preload
<1>1. sent' = {} /\ reply' = <<>> /\ pending' = <<>> /\ shown' = <<>> /\ event' = NoEvent
  BY DEF OrderInv, answering, closing, Prepared
<1>2. FoundInv' /\ OrderInv' /\ OutcomeInv' /\ StoredIsSafe'
  BY <1>1 DEF FoundInv, OrderInv, OutcomeInv, StoredIsSafe, Stages, Prepared
<1>4. VaultInv'
  <2>1. DOMAIN out' = DOMAIN out
    OBVIOUS
  <2> QED BY <2>1 DEF VaultInv, Fields
<1>3. GateInv' /\ DecisionInv'
  BY <1>1 DEF GateInv, DecisionInv, Released, Prepared, Gated
<1> QED BY <1>1, <1>2, <1>3, <1>4, Silence

(* What the engines find of a text is there, and all that is there when it was covered whole. *)
LEMMA FindsAreDetections ==
  ASSUME NEW text, NEW cov \in Coverage, NEW ml \in MlFinds(text, cov)
  PROVE  /\ Merged(text, ml) \subseteq Detections(text)
         /\ cov = "complete" => Merged(text, ml) = Detections(text)
<1>1. ml \subseteq Detections(text) /\ (cov = "complete" => ml = Detections(text))
  BY DEF MlFinds, Coverage
<1> QED BY <1>1 DEF Merged

(* Detection, with whatever coverage and findings, keeps the invariant. *)
LEMMA DetectStep == ASSUME PipelineInv, Detect PROVE PipelineInv'
<1> USE DEF PipelineInv, Detect
<1>1. sent' = {} /\ reply' = <<>> /\ pending' = <<>> /\ shown' = <<>> /\ event' = NoEvent
  BY DEF OrderInv, answering, closing, Prepared
<1>2. OrderInv' /\ OutcomeInv' /\ VaultInv' /\ StoredIsSafe'
  BY <1>1 DEF OrderInv, OutcomeInv, VaultInv, StoredIsSafe, Prepared
<1>3. GateInv' /\ DecisionInv'
  BY <1>1 DEF GateInv, DecisionInv, Released, Prepared, Gated
<1>4. FoundInv'
  <2>1. PICK cov \in Coverage : \E ml \in MlFinds(cfg.prompt, cov) :
          coverage' = cov /\ found' = Merged(cfg.prompt, ml)
    OBVIOUS
  <2>2. PICK ml \in MlFinds(cfg.prompt, cov) : found' = Merged(cfg.prompt, ml)
    BY <2>1
  <2>3. found' \subseteq Detections(cfg.prompt) /\ (cov = "complete" => found' = Detections(cfg.prompt))
    BY <2>2, FindsAreDetections
  <2> QED BY <2>1, <2>3 DEF FoundInv, Stages
<1> QED BY <1>1, <1>2, <1>3, <1>4, Silence

(* The gate on lost coverage refuses or marks the request degraded: the
   invariant stands either way. *)
LEMMA GateStep == ASSUME PipelineInv, GateDetection PROVE PipelineInv'
<1>1. PICK policy \in {cfg.onLoss, "block"} :
        /\ onLoss' = policy
        /\ \/ /\ SidecarGate(coverage, policy) = "block"
              /\ Refuse("block_sidecar_unavailable", Null, "503")
           \/ /\ SidecarGate(coverage, policy) # "block"
              /\ degraded' = (SidecarGate(coverage, policy) = "degrade")
              /\ pc' = "evaluate"
              /\ UNCHANGED closing
  BY DEF GateDetection
<1>2. /\ pc = "gate"
      /\ UNCHANGED <<cfg, coverage, found, injection, out, target, sent, answering>>
  BY DEF GateDetection
<1>3. CASE Refuse("block_sidecar_unavailable", Null, "503")
  BY <1>2, <1>3, RefuseStep DEF Prepared
<1>4. CASE /\ SidecarGate(coverage, policy) # "block" /\ pc' = "evaluate"
           /\ degraded' = (SidecarGate(coverage, policy) = "degrade") /\ UNCHANGED closing
  <2> USE DEF PipelineInv
  <2>1. sent' = {} /\ reply' = <<>> /\ pending' = <<>> /\ shown' = <<>> /\ event' = NoEvent
    BY <1>2, <1>4 DEF OrderInv, answering, closing, Prepared
  <2>2. OrderInv' /\ OutcomeInv' /\ VaultInv' /\ StoredIsSafe' /\ FoundInv' /\ DecisionInv'
    BY <1>2, <1>4, <2>1 DEF OrderInv, OutcomeInv, VaultInv, StoredIsSafe, FoundInv, DecisionInv, Released,
                            Prepared, Gated, Stages
  <2>3. cfg.onLoss \in {"block", "degrade"}
    BY PipelineAssumption DEF FoundInv
  <2>4. GateInv'
    BY <1>1, <1>2, <1>4, <2>1, <2>3 DEF GateInv, SidecarGate, Lost, Released, Prepared
  <2> QED BY <2>1, <2>2, <2>4, Silence
<1> QED BY <1>1, <1>3, <1>4

(* Evaluating the rules and applying redaction and transforms keeps the
   invariant: what is found and redacted is no longer in the text. *)
LEMMA EvaluateStep == ASSUME PipelineInv, EvaluatePolicy PROVE PipelineInv'
<1>0. /\ pc = "evaluate"
      /\ UNCHANGED <<cfg, coverage, found, onLoss, injection, degraded, target, sent, answering>>
  BY DEF EvaluatePolicy
<1>1. CASE FailWith("500") /\ UNCHANGED out
  BY <1>0, <1>1, EndStep DEF FailWith
<1>2. CASE /\ out' = Evaluate(cfg.rules, cfg.prompt, found, out.vault, cfg.redactWhenNoRules)
           /\ pc' = "secure" /\ UNCHANGED closing
  <2> USE DEF PipelineInv
  <2>1. sent' = {} /\ reply' = <<>> /\ pending' = <<>> /\ shown' = <<>> /\ event' = NoEvent
    BY <1>0, <1>2 DEF OrderInv, answering, closing, Prepared, Gated
  <2>2. OrderInv' /\ StoredIsSafe' /\ FoundInv' /\ DecisionInv'
    BY <1>0, <1>2, <2>1 DEF OrderInv, StoredIsSafe, FoundInv, DecisionInv, Released,
                            Prepared, Gated, Stages
  <2>3. OutcomeInv' /\ VaultInv'
    <3>1. Fields(out')
      BY <1>2, PolicyOutcome DEF Sound
    <3> QED BY <1>0, <1>2, <3>1 DEF OutcomeInv, VaultInv, Fields
  <2>4. GateInv'
    BY <1>0, <1>2, <2>1 DEF GateInv, Released, Prepared, Gated
  <2> QED BY <2>1, <2>2, <2>3, <2>4, Silence
<1> QED BY <1>1, <1>2 DEF EvaluatePolicy

(* The end of prepare, with the injection check's answer if there was one. *)
LEMMA DecideStep ==
  ASSUME PipelineInv, pc \in {"secure", "injection"}, NEW blocking \in BOOLEAN,
         Decide(IF cfg.secure.enabled THEN Override(cfg.secure, blocking, out) ELSE out),
         UNCHANGED <<cfg, coverage, found, onLoss, target, sent, answering, closing>>,
         cfg.secure.enabled => injection'.blocking = blocking,
         degraded => degraded',
         EnforcedInjection /\ Lost(injection'.coverage) => cfg.onLoss = "degrade" /\ degraded'
  PROVE  PipelineInv'
<1> USE DEF PipelineInv
<1> DEFINE final == Fallback(IF cfg.secure.enabled THEN Override(cfg.secure, blocking, out) ELSE out)
<1>1. out' = final /\ pc' = IF final.denied THEN "denied" ELSE "provider"
  BY DEF Decide
<1>2. PICK vault : out = Evaluate(cfg.rules, cfg.prompt, found, vault, cfg.redactWhenNoRules)
  BY DEF OutcomeInv
<1>3. /\ Sound(final)
      /\ Hides => Hidden(final)
      /\ FinalAction(cfg.rules, found) = "deny" /\ ~AtLevel("permissive") => final.denied
      /\ AtLevel("strict") /\ (found # {} \/ blocking) => final.denied
      /\ /\ AtLevel("standard")
         /\ (cfg.secure.blockPii /\ found # {}) \/ (cfg.secure.blockInjection /\ blocking)
         => final.denied
  BY <1>2, PreparedOutcome
<1> HIDE DEF final
<1>4. sent' = {} /\ reply' = <<>> /\ pending' = <<>> /\ shown' = <<>> /\ event' = NoEvent
  BY DEF OrderInv, answering, closing, Prepared, Gated
<1>5. OrderInv' /\ StoredIsSafe' /\ FoundInv' /\ OutcomeInv'
  BY <1>1, <1>4 DEF OrderInv, StoredIsSafe, FoundInv, OutcomeInv, Prepared, Gated, Stages
<1>6. GateInv'
  <2>1. EnforcedInjection' = EnforcedInjection
    BY DEF EnforcedInjection
  <2> QED BY <1>1, <1>4, <2>1 DEF GateInv, Released, Prepared, Gated
<1>7. DecisionInv'
  <2> SUFFICES ASSUME pc' = "provider"
               PROVE  Refused' = FALSE /\ (Hides => Hidden(final))
    BY <1>1, <1>4 DEF DecisionInv, Released, Hidden, Hides, Decided, AtLevel, Prepared
  <2>1. ~final.denied
    BY <1>1
  <2> QED BY <1>3, <2>1 DEF Refused, AtLevel
<1>8. VaultInv'
  BY <1>1, <1>3 DEF VaultInv, Sound, Named, SlicedIn, SlicedAreOf
<1> QED BY <1>4, <1>5, <1>6, <1>7, <1>8, Silence

(* Reading the secure mode and applying its level keeps the invariant. *)
LEMMA SecureStep == ASSUME PipelineInv, ReadSecureMode PROVE PipelineInv'
<1>0. /\ pc = "secure"
      /\ UNCHANGED <<cfg, coverage, found, onLoss, injection, degraded, target, sent, answering>>
  BY DEF ReadSecureMode
<1>1. CASE FailWith("503") /\ UNCHANGED out
  BY <1>0, <1>1, EndStep DEF FailWith
<1>2. CASE ~cfg.secure.enabled /\ Decide(out) /\ UNCHANGED closing
  <2>1. ~EnforcedInjection
    BY <1>2 DEF EnforcedInjection
  <2> QED BY <1>0, <1>2, <2>1, DecideStep, FALSE \in BOOLEAN
<1>3. CASE cfg.secure.enabled /\ pc' = "injection" /\ UNCHANGED <<out, closing>>
  <2> USE DEF PipelineInv
  <2>1. sent' = {} /\ reply' = <<>> /\ pending' = <<>> /\ shown' = <<>> /\ event' = NoEvent
    BY <1>0, <1>3 DEF OrderInv, answering, closing, Prepared, Gated
  <2>2. OrderInv' /\ VaultInv' /\ StoredIsSafe' /\ FoundInv' /\ DecisionInv'
    BY <1>0, <1>3, <2>1 DEF OrderInv, VaultInv, StoredIsSafe, FoundInv, DecisionInv, Released,
                            Prepared, Gated, Stages
  <2>3. OutcomeInv'
    BY <1>0, <1>3 DEF OutcomeInv
  <2>4. GateInv'
    BY <1>0, <1>3, <2>1 DEF GateInv, Released, Prepared, Gated
  <2> QED BY <2>1, <2>2, <2>3, <2>4, Silence
<1> QED BY <1>1, <1>2, <1>3 DEF ReadSecureMode

(* The injection check, answered or not, keeps the invariant. *)
LEMMA InjectionStep == ASSUME PipelineInv, CheckInjection PROVE PipelineInv'
<1> DEFINE Gate(cov) == IF InjectionEnforced(cfg.secure) THEN SidecarGate(cov, onLoss) ELSE "proceed"
<1>0. /\ pc = "injection"
      /\ UNCHANGED <<cfg, coverage, found, onLoss, target, sent, answering>>
  BY DEF CheckInjection
<1>1. PICK cov \in Coverage : \E blocking \in BOOLEAN :
        /\ injection' = [coverage |-> cov, blocking |-> blocking]
        /\ \/ /\ Gate(cov) = "block"
              /\ Refuse("block_sidecar_unavailable", AuditPromptWith, "503")
              /\ UNCHANGED <<degraded, out>>
           \/ /\ Gate(cov) # "block"
              /\ degraded' = (degraded \/ Gate(cov) = "degrade")
              /\ Decide(Override(cfg.secure, blocking, out))
              /\ UNCHANGED closing
  BY DEF CheckInjection
<1>2. PICK blocking \in BOOLEAN :
        /\ injection' = [coverage |-> cov, blocking |-> blocking]
        /\ \/ /\ Gate(cov) = "block"
              /\ Refuse("block_sidecar_unavailable", AuditPromptWith, "503")
              /\ UNCHANGED <<degraded, out>>
           \/ /\ Gate(cov) # "block"
              /\ degraded' = (degraded \/ Gate(cov) = "degrade")
              /\ Decide(Override(cfg.secure, blocking, out))
              /\ UNCHANGED closing
  BY <1>1
<1>3. Lost(coverage) => degraded
  BY <1>0 DEF PipelineInv, GateInv, Gated
<1>4. CASE Refuse("block_sidecar_unavailable", AuditPromptWith, "503") /\ UNCHANGED <<degraded, out>>
  BY <1>0, <1>3, <1>4, RefuseStep DEF AuditPromptWith, Prepared
<1>5. CASE /\ Gate(cov) # "block" /\ degraded' = (degraded \/ Gate(cov) = "degrade")
           /\ Decide(Override(cfg.secure, blocking, out)) /\ UNCHANGED closing
  <2>1. cfg.secure.enabled
    BY <1>0 DEF PipelineInv, OutcomeInv
  <2>2. cfg.onLoss \in {"block", "degrade"} /\ onLoss \in {cfg.onLoss, "block"}
    BY <1>0, PipelineAssumption DEF PipelineInv, FoundInv, GateInv
  <2>3. EnforcedInjection /\ Lost(cov) => cfg.onLoss = "degrade" /\ degraded'
    BY <1>5, <2>2 DEF EnforcedInjection, SidecarGate
  <2>4. injection'.blocking = blocking /\ injection'.coverage = cov
    BY <1>2
  <2> QED BY <1>0, <1>5, <2>1, <2>3, <2>4, DecideStep
<1> QED BY <1>2, <1>4, <1>5

(* Refusing the request keeps the invariant: nothing was sent. *)
LEMMA DenyStep == ASSUME PipelineInv, Deny PROVE PipelineInv'
<1>1. PICK prompt \in AuditPrompts : Refuse(out.action, prompt, "403")
  BY DEF Deny
<1>2. Lost(coverage) => degraded
  BY DEF Deny, PipelineInv, GateInv, Gated
<1>3. Lost(coverage) => prompt = Null
  BY <1>1, <1>2 DEF AuditPrompts
<1> QED BY <1>1, <1>3, RefuseStep DEF Deny, Prepared

(* Skipping a target, failing at one and running out of them keep the
   invariant. *)
LEMMA TargetStep == ASSUME PipelineInv, SkipTarget \/ ProviderFails \/ ChainExhausted PROVE PipelineInv'
<1>1. CASE pc' = "done"
  BY <1>1, EndStep DEF SkipTarget, ProviderFails, ChainExhausted, FailWith, Send
<1>2. CASE pc' # "done"
  <2> USE DEF PipelineInv
  <2>1. /\ pc = "provider" /\ sent' \in {sent, sent \cup {out.content}}
        /\ UNCHANGED <<cfg, pc, coverage, found, onLoss, injection, out, degraded, answering, closing>>
    BY <1>2 DEF SkipTarget, ProviderFails, ChainExhausted, FailWith, Send
  <2>2. FoundInv' /\ OutcomeInv' /\ VaultInv' /\ OrderInv'
    BY <2>1 DEF FoundInv, OutcomeInv, VaultInv, OrderInv, Named, SlicedAreOf, Scrubbing, Prepared, Gated,
                answering, closing
  <2>3. Released /\ Released'
    BY <2>1 DEF Released, Prepared
  <2>4. GateInv' /\ DecisionInv'
    BY <2>1, <2>3 DEF GateInv, DecisionInv, EnforcedInjection, Refused, Hides, Hidden, Decided, AtLevel,
                    Prepared, Gated
  <2>5. AnswerInv' /\ StoredIsSafe' /\ ShownIsTheClients'
    <3>1. reply' = <<>> /\ pending' = <<>> /\ shown' = <<>> /\ event' = NoEvent
      BY <2>1 DEF OrderInv, answering, closing
    <3> QED BY <3>1, Silence DEF StoredIsSafe
  <2> QED BY <2>2, <2>4, <2>5
<1> QED BY <1>1, <1>2

(* An answer of a provider keeps the invariant, whatever it contains. *)
LEMMA AnswersStep == ASSUME PipelineInv, ProviderAnswers PROVE PipelineInv'
<1> USE DEF PipelineInv
<1>1. /\ pc = "provider" /\ sent' = sent \cup {out.content} /\ originals' = OriginalValues(out.vault)
      /\ UNCHANGED <<cfg, coverage, found, onLoss, injection, out, degraded, target, pending, shown, closing>>
      /\ \/ pc' = "stream" /\ cfg.kind = "stream" /\ UNCHANGED reply
         \/ pc' = "respond" /\ cfg.kind # "stream" /\ \E n \in 0..cfg.say : reply' \in [1..n -> Sayable]
  BY DEF ProviderAnswers, Send
<1>2. pending = <<>> /\ shown = <<>> /\ event = NoEvent /\ reply = <<>>
  BY <1>1 DEF OrderInv
<1>3. FoundInv' /\ OutcomeInv' /\ OrderInv' /\ StoredIsSafe'
  BY <1>1, <1>2 DEF FoundInv, OutcomeInv, OrderInv, StoredIsSafe, Prepared, Gated, Stages, closing
<1>4. Released /\ Released'
  BY <1>1 DEF Released, Prepared
<1>5. GateInv' /\ DecisionInv'
  BY <1>1, <1>4 DEF GateInv, DecisionInv, EnforcedInjection, Refused, Hides, Hidden, Decided, AtLevel,
                    Prepared, Gated
<1>6. VaultInv'
  BY <1>1 DEF VaultInv, Named, SlicedAreOf, Scrubbing
<1>7. AnswerInv'
  <2>1. Sayable' = Sayable
    BY <1>1 DEF Sayable
  <2>2. reply' \in Seq(Sayable)
    <3>1. CASE UNCHANGED reply
      BY <1>2, <3>1
    <3>2. ASSUME NEW n \in 0..cfg.say, reply' \in [1..n -> Sayable]
          PROVE  reply' \in Seq(Sayable)
      <4>1. n \in Nat
        BY PipelineAssumption DEF FoundInv
      <4> QED BY <3>2, <4>1
    <3> QED BY <1>1, <3>1, <3>2
  <2>3. CASE pc' = "stream"
    BY <1>1, <1>2, <2>1, <2>2, <2>3 DEF AnswerInv
  <2>4. CASE pc' = "respond"
    BY <1>1, <1>2, <2>1, <2>2, <2>4 DEF AnswerInv
  <2> QED BY <1>1, <2>3, <2>4
<1>8. ShownIsTheClients'
  BY <1>1, <1>2 DEF ShownIsTheClients, RoundTrip, ScrubHolds, Exposed
<1> QED BY <1>3, <1>5, <1>6, <1>7, <1>8

-----------------------------------------------------------------------------
(* The answer *)

(* Without redact_pii_in_responses an answer is restored and nothing else. *)
LEMMA RestoredOnly ==
  ASSUME ~Scrubbing, NEW text, NEW a \in Answers(text)
  PROVE  a.text = Restore(text, out.vault) /\ a.vault = out.vault /\ a.lost = FALSE
BY DEF Answers

(* With it, what the scan found in the restored text is replaced. *)
LEMMA Scanned ==
  ASSUME Scrubbing, NEW text, NEW a \in Answers(text)
  PROVE  LET restored == Restore(text, out.vault)
         IN \E cov \in Coverage : \E ml \in MlFinds(restored, cov) :
              /\ a.text = ApplyRedaction(restored, restored, ResponseSide(Merged(restored, ml)))
              /\ a.lost = Lost(cov)
<1> DEFINE restored == Restore(text, out.vault)
           hidden(ml) == ResponseSide(Merged(restored, ml))
           S(cov, ml) == [text |-> ApplyRedaction(restored, restored, hidden(ml)), lost |-> Lost(cov),
                          vault |-> VaultAfter(restored, restored, hidden(ml), out.vault)]
<1>1. a \in UNION {{S(cov, ml) : ml \in MlFinds(restored, cov)} : cov \in Coverage}
  BY DEF Answers
<1> HIDE DEF restored, hidden
<1>2. PICK cov \in Coverage : a \in {S(cov, ml) : ml \in MlFinds(restored, cov)}
  BY <1>1
<1>4. PICK ml \in MlFinds(restored, cov) : a = S(cov, ml)
  BY <1>2
<1>3. a.text = ApplyRedaction(restored, restored, hidden(ml)) /\ a.lost = Lost(cov)
  BY <1>4
<1> QED BY <1>3 DEF restored, hidden

(* A restored text is as long as the text, a value of the vault for each of its placeholders. *)
LEMMA RestoreIs ==
  ASSUME NEW text, NEW vault
  PROVE  /\ DOMAIN Restore(text, vault) = DOMAIN text
         /\ \A i \in DOMAIN text : Restore(text, vault)[i] =
              IF text[i] \in DOMAIN vault THEN Raw(vault[text[i]]) ELSE text[i]
BY DEF Restore

(* What an answer shows is a text. *)
LEMMA AnswersAreFunctions ==
  ASSUME NEW text, NEW a \in Answers(text)
  PROVE  a.text = [i \in DOMAIN text |-> a.text[i]]
<1> DEFINE restored == Restore(text, out.vault)
<1>1. restored = [i \in DOMAIN text |-> restored[i]]
  BY DEF Restore
<1>2. CASE ~Scrubbing
  BY <1>1, <1>2, RestoredOnly
<1>3. CASE Scrubbing
  <2>1. PICK hidden : a.text = ApplyRedaction(restored, restored, hidden)
    BY <1>3, Scanned
  <2>2. a.text = [i \in DOMAIN restored |-> a.text[i]]
    BY <2>1 DEF ApplyRedaction
  <2> QED BY <2>2, RestoreIs
<1> QED BY <1>2, <1>3

(* An answer keeps its length, and a value the client gave stays in it. *)
LEMMA ClientsOwn ==
  ASSUME NEW text, NEW a \in Answers(text)
  PROVE  /\ DOMAIN a.text = DOMAIN text
         /\ \A i \in DOMAIN text :
              text[i] \in DOMAIN out.vault /\ out.vault[text[i]] \in originals
                => a.text[i] = Raw(out.vault[text[i]])
<1> DEFINE restored == Restore(text, out.vault)
<1>1. CASE ~Scrubbing
  <2>1. a.text = restored
    BY <1>1, RestoredOnly
  <2>2. /\ DOMAIN restored = DOMAIN text
        /\ \A i \in DOMAIN text : restored[i] =
             IF text[i] \in DOMAIN out.vault THEN Raw(out.vault[text[i]]) ELSE text[i]
    BY RestoreIs
  <2> HIDE DEF restored
  <2> QED BY <2>1, <2>2
<1>2. CASE Scrubbing
  <2>1. PICK hidden : /\ a.text = ApplyRedaction(restored, restored, hidden)
                      /\ hidden \in SUBSET Detections(restored)
                      /\ \A d \in hidden : d[2] \notin originals
    <3>1. PICK cov \in Coverage : \E ml \in MlFinds(restored, cov) :
            a.text = ApplyRedaction(restored, restored, ResponseSide(Merged(restored, ml)))
      BY <1>2, Scanned
    <3>2. PICK ml \in MlFinds(restored, cov) :
            a.text = ApplyRedaction(restored, restored, ResponseSide(Merged(restored, ml)))
      BY <3>1
    <3>3. Merged(restored, ml) \subseteq Detections(restored)
      BY FindsAreDetections
    <3> QED BY <3>2, <3>3 DEF ResponseSide
  <2>2. /\ DOMAIN a.text = DOMAIN restored
        /\ \A i \in DOMAIN restored : i \notin Replaced(restored, restored, hidden) => a.text[i] = restored[i]
    BY <2>1 DEF ApplyRedaction
  <2>3. ASSUME NEW i \in DOMAIN text, text[i] \in DOMAIN out.vault, out.vault[text[i]] \in originals
        PROVE  i \notin Replaced(restored, restored, hidden) /\ restored[i] = Raw(out.vault[text[i]])
    <3>1. restored[i] = Raw(out.vault[text[i]])
      BY <2>3, RestoreIs
    <3>2. ASSUME i \in Spans(hidden) PROVE FALSE
      <4>1. <<i, restored[i][2]>> \in hidden
        BY <2>1, <3>2, DetectedAre
      <4>2. restored[i][2] = out.vault[text[i]]
        BY <3>1 DEF Raw
      <4> QED BY <2>1, <2>3, <4>1, <4>2
    <3> QED BY <3>1, <3>2, SameText
  <2> QED BY <2>2, <2>3, RestoreIs
<1> QED BY <1>1, <1>2

(* An answer that was scanned whole shows only what the client gave, or what is taken for noise. *)
LEMMA NobodyElses ==
  ASSUME Scrubbing, NEW text \in Seq(Sayable), NEW a \in Answers(text), ~a.lost, SlicedAreOf(originals)
  PROVE  Exposed(a.text) \subseteq originals \cup Weak
<1> DEFINE restored == Restore(text, out.vault)
<1>0. PICK cov \in Coverage : \E ml \in MlFinds(restored, cov) :
        /\ a.text = ApplyRedaction(restored, restored, ResponseSide(Merged(restored, ml)))
        /\ a.lost = Lost(cov)
  BY Scanned
<1>1. PICK ml \in MlFinds(restored, cov) :
        /\ a.text = ApplyRedaction(restored, restored, ResponseSide(Merged(restored, ml)))
        /\ a.lost = Lost(cov)
  BY <1>0
<1>2. Merged(restored, ml) = Detections(restored)
  BY <1>1, FindsAreDetections DEF Lost
<1> DEFINE hidden == ResponseSide(Merged(restored, ml))
<1>3. SUFFICES ASSUME NEW e \in Entity, NEW i \in DOMAIN a.text, a.text[i] \in {Raw(e), Sliced(e)}
               PROVE  e \in originals \cup Weak
  BY DEF Exposed
<1>4. a.text = [k \in DOMAIN restored |-> IF k \notin Spans(hidden) THEN restored[k]
                                          ELSE PlaceholderFor(hidden, restored[k][2])]
  BY <1>1, SameText
<1>5. i \in DOMAIN restored /\ i \in DOMAIN text
  BY <1>4, RestoreIs
<1>6. i \notin Spans(hidden)
  <2>1. ASSUME NEW x PROVE PlaceholderFor(hidden, x)[1] = "token"
    BY DEF PlaceholderFor, Token
  <2> HIDE DEF hidden, restored
  <2> QED BY <1>3, <1>4, <1>5, <2>1 DEF Raw, Sliced
<1>7. a.text[i] = restored[i]
  BY <1>4, <1>5, <1>6
<1>8. CASE restored[i] = Raw(e)
  <2>1. <<i, e>> \in Merged(restored, ml)
    BY <1>2, <1>5, <1>8 DEF Detections
  <2>2. <<i, e>> \notin hidden
    BY <1>6 DEF Spans
  <2> QED BY <2>1, <2>2 DEF ResponseSide
<1>9. CASE restored[i] = Sliced(e)
  <2>1. text[i] = Sliced(e)
    <3>1. restored[i] = IF text[i] \in DOMAIN out.vault THEN Raw(out.vault[text[i]]) ELSE text[i]
      BY <1>5, RestoreIs
    <3>2. \A x : Raw(x) # Sliced(e)
      BY DEF Raw, Sliced
    <3> HIDE DEF restored
    <3> QED BY <1>9, <3>1, <3>2
  <2>2. text[i] \in Sayable
    BY <1>5
  <2> QED BY <2>1, <2>2 DEF Sayable, SlicedAreOf, Raw, Sliced
<1> QED BY <1>3, <1>7, <1>8, <1>9

(* What an answering step leaves alone. *)
LEMMA AnsweringKeeps ==
  ASSUME PipelineInv, pc \in {"respond", "stream"}, pc' = "audit" \/ (pc' = "stream" /\ pc = "stream"),
         Fields(out'), out'.content = out.content, ~Scrubbing => out'.vault = out.vault,
         degraded => degraded',
         UNCHANGED <<cfg, coverage, found, onLoss, injection, target, sent, originals, closing>>
  PROVE  /\ FoundInv' /\ OrderInv' /\ OutcomeInv' /\ GateInv' /\ DecisionInv' /\ VaultInv'
         /\ StoredIsSafe'
<1> USE DEF PipelineInv
<1>1. FoundInv' /\ OutcomeInv' /\ StoredIsSafe'
  BY DEF FoundInv, OutcomeInv, StoredIsSafe, OrderInv, Stages, Gated, Prepared, closing
<1>2. OrderInv'
  BY DEF OrderInv, Prepared, Gated, closing
<1>3. Released /\ Released'
  BY DEF Released, Prepared
<1>4. GateInv'
  BY <1>3 DEF GateInv, EnforcedInjection, Gated, Prepared
<1>5. DecisionInv'
  BY <1>3 DEF DecisionInv, Refused, Hides, Hidden, Decided, AtLevel
<1>6. VaultInv'
  BY DEF VaultInv, Fields, Named, SlicedAreOf, Scrubbing
<1> QED BY <1>1, <1>2, <1>4, <1>5, <1>6

(* The fields an answer changes. *)
LEMMA AnsweredIs ==
  ASSUME PipelineInv, NEW text, NEW a \in Answers(text), Answered(a)
  PROVE  /\ Fields(out') /\ out'.content = out.content /\ out'.vault = a.vault
         /\ degraded => degraded'
         /\ ~degraded' => ~a.lost
BY DEF PipelineInv, VaultInv, Fields, Answered

(* Restoring and scrubbing a buffered answer keeps the invariant. *)
LEMMA RespondStep == ASSUME PipelineInv, Respond PROVE PipelineInv'
<1>0. /\ pc = "respond" /\ pc' = "audit"
      /\ UNCHANGED <<cfg, coverage, found, onLoss, injection, target, sent, reply, pending, originals, closing>>
  BY DEF Respond
<1>1. PICK a \in Answers(reply) :
        /\ Answered(a)
        /\ shown' = IF cfg.kind = "completion" THEN Restore(reply, a.vault) ELSE a.text
  BY DEF Respond
<1>2. /\ Fields(out') /\ out'.content = out.content /\ out'.vault = a.vault
      /\ degraded => degraded'
      /\ ~degraded' => ~a.lost
  BY <1>1, AnsweredIs
<1>3. ~Scrubbing => a.vault = out.vault /\ a.text = Restore(reply, out.vault)
  BY RestoredOnly
<1>4. /\ FoundInv' /\ OrderInv' /\ OutcomeInv' /\ GateInv' /\ DecisionInv' /\ VaultInv' /\ StoredIsSafe'
  BY <1>0, <1>2, <1>3, AnsweringKeeps
<1>5. DOMAIN shown' = DOMAIN reply /\ reply \in Seq(Sayable) /\ cfg.kind # "stream"
  BY <1>0, <1>1, ClientsOwn, RestoreIs DEF PipelineInv, AnswerInv, OrderInv
<1>6. AnswerInv'
  <2>1. Sayable' = Sayable
    BY <1>2, <1>0 DEF Sayable
  <2>2. shown' \in Seq({shown'[i] : i \in DOMAIN shown'})
    <3>1. DOMAIN shown' = 1..Len(reply) /\ Len(reply) \in Nat
      BY <1>5
    <3>2. shown' = [i \in 1..Len(reply) |-> shown'[i]]
      <4>1. Restore(reply, a.vault) = [i \in DOMAIN reply |-> Restore(reply, a.vault)[i]]
        BY DEF Restore
      <4>2. a.text = [i \in DOMAIN reply |-> a.text[i]]
        BY AnswersAreFunctions
      <4>3. shown' = [i \in DOMAIN reply |-> shown'[i]]
        BY <1>1, <4>1, <4>2
      <4> QED BY <1>5, <3>1, <4>3
    <3> QED BY <3>1, <3>2
  <2> QED BY <1>0, <1>5, <2>1, <2>2 DEF PipelineInv, AnswerInv
<1>7. RoundTrip'
  <2> SUFFICES ASSUME cfg.kind = "chat" \/ ~Scrubbing,
                      NEW i \in DOMAIN shown', NEW j \in DOMAIN out.content,
                      reply[i] = out.content[j], reply[i][1] = "token", cfg.prompt[j][1] = "raw"
               PROVE  shown'[i] = cfg.prompt[j]
    BY <1>0, <1>2 DEF RoundTrip, Scrubbing
  <2>1. out.content[j] \in DOMAIN out.vault /\ cfg.prompt[j] = Raw(out.vault[out.content[j]])
    BY <1>0 DEF PipelineInv, VaultInv, Named
  <2>2. out.vault[reply[i]] \in originals
    BY <1>0, <2>1 DEF PipelineInv, VaultInv, OriginalValues
  <2>3. i \in DOMAIN reply
    BY <1>5
  <2>4. a.text[i] = cfg.prompt[j]
    BY <2>1, <2>2, <2>3, ClientsOwn
  <2>5. ~Scrubbing => Restore(reply, a.vault)[i] = cfg.prompt[j]
    BY <1>3, <2>4
  <2> QED BY <1>1, <2>4, <2>5
<1>8. ScrubHolds'
  <2> SUFFICES ASSUME Scrubbing, cfg.kind # "completion", ~degraded'
               PROVE  Exposed(shown') \subseteq originals \cup Weak
    BY <1>0 DEF ScrubHolds, Scrubbing
  <2>1. SlicedAreOf(originals)
    BY <1>0 DEF PipelineInv, VaultInv
  <2> QED BY <1>1, <1>2, <1>5, <2>1, NobodyElses
<1> QED BY <1>4, <1>6, <1>7, <1>8 DEF PipelineInv, ShownIsTheClients

(* A segment of the stream is shown after what was shown before. *)
LEMMA EmitShows ==
  ASSUME PipelineInv, pc = "stream", NEW segment \in Seq(Sayable), Emit(segment)
  PROVE  /\ Fields(out') /\ out'.content = out.content /\ (~Scrubbing => out'.vault = out.vault)
         /\ degraded => degraded'
         /\ \E S : shown' \in Seq(S)
         /\ Len(shown') = Len(shown) + Len(segment)
         /\ \A i \in 1..Len(shown) : shown'[i] = shown[i]
         /\ ~Scrubbing =>
              \A i \in 1..Len(segment) : shown'[Len(shown) + i] = Restore(segment, out.vault)[i]
         /\ Scrubbing /\ ~degraded' => Exposed(shown') \subseteq Exposed(shown) \cup originals \cup Weak
<1>1. PICK S : shown \in Seq(S)
  BY DEF PipelineInv, AnswerInv
<1>2. CASE segment = <<>> /\ UNCHANGED <<out, degraded, shown>>
  <2>1. Len(segment) = 0
    BY <1>2
  <2> QED BY <1>1, <1>2, <2>1 DEF PipelineInv, VaultInv
<1>3. ASSUME NEW a \in Answers(segment), Answered(a), shown' = shown \o a.text
      PROVE  /\ Fields(out') /\ out'.content = out.content /\ (~Scrubbing => out'.vault = out.vault)
             /\ degraded => degraded'
             /\ \E T : shown' \in Seq(T)
             /\ Len(shown') = Len(shown) + Len(segment)
             /\ \A i \in 1..Len(shown) : shown'[i] = shown[i]
             /\ ~Scrubbing =>
                  \A i \in 1..Len(segment) : shown'[Len(shown) + i] = Restore(segment, out.vault)[i]
             /\ Scrubbing /\ ~degraded' => Exposed(shown') \subseteq Exposed(shown) \cup originals \cup Weak
  <2> DEFINE T == {a.text[i] : i \in DOMAIN a.text}
  <2>1. a.text \in Seq(T) /\ Len(a.text) = Len(segment)
    <3>1. a.text = [i \in 1..Len(segment) |-> a.text[i]] /\ Len(segment) \in Nat
      BY AnswersAreFunctions
    <3> QED BY <3>1
  <2>2. shown \in Seq(S \cup T) /\ a.text \in Seq(S \cup T)
    BY <1>1, <2>1
  <2> HIDE DEF T
  <2>3. /\ shown' \in Seq(S \cup T) /\ Len(shown') = Len(shown) + Len(segment)
        /\ \A i \in 1..Len(shown) : shown'[i] = shown[i]
        /\ \A i \in 1..Len(segment) : shown'[Len(shown) + i] = a.text[i]
    <3>1. /\ shown \o a.text \in Seq(S \cup T) /\ Len(shown \o a.text) = Len(shown) + Len(a.text)
          /\ \A i \in 1..Len(shown) + Len(a.text) :
               (shown \o a.text)[i] = IF i <= Len(shown) THEN shown[i] ELSE a.text[i - Len(shown)]
      BY <2>2, ConcatProperties
    <3> QED BY <1>1, <1>3, <2>1, <3>1
  <2>4. /\ Fields(out') /\ out'.content = out.content /\ out'.vault = a.vault
        /\ degraded => degraded'
        /\ ~degraded' => ~a.lost
    BY <1>3, AnsweredIs
  <2>5. ~Scrubbing => a.vault = out.vault /\ a.text = Restore(segment, out.vault)
    BY <1>3, RestoredOnly
  <2>6. ASSUME Scrubbing, ~degraded', NEW e \in Exposed(shown')
        PROVE  e \in Exposed(shown) \cup originals \cup Weak
    <3>1. Exposed(a.text) \subseteq originals \cup Weak
      BY <1>3, <2>4, <2>6, NobodyElses DEF PipelineInv, VaultInv
    <3>2. PICK i \in DOMAIN shown' : shown'[i] \in {Raw(e), Sliced(e)}
      BY <2>6 DEF Exposed
    <3>3. e \in Entity
      BY <2>6 DEF Exposed
    <3>4. CASE i \in 1..Len(shown)
      BY <1>1, <2>3, <3>2, <3>3, <3>4 DEF Exposed
    <3>5. CASE i \notin 1..Len(shown)
      <4>1. i - Len(shown) \in 1..Len(segment) /\ i = Len(shown) + (i - Len(shown))
        BY <1>1, <2>3, <3>5
      <4>2. shown'[i] = a.text[i - Len(shown)] /\ i - Len(shown) \in DOMAIN a.text
        BY <2>1, <2>3, <4>1
      <4>3. e \in Exposed(a.text)
        BY <3>2, <3>3, <4>2 DEF Exposed
      <4> QED BY <3>1, <4>3
    <3> QED BY <3>4, <3>5
  <2> QED BY <2>3, <2>4, <2>5, <2>6
<1> QED BY <1>2, <1>3 DEF Emit

(* The stream: of what was said and not yet shown, `segment` is settled and `rest` is held back. *)
LEMMA StreamStep ==
  ASSUME PipelineInv, pc = "stream", pc' \in {"stream", "audit"},
         NEW segment \in Seq(Sayable), NEW rest \in Seq(Sayable), NEW said \in Seq(Sayable),
         Emit(segment), pending' = rest, reply' = said,
         Len(reply) <= Len(said), \A i \in 1..Len(reply) : said[i] = reply[i],
         ~Scrubbing =>
           /\ Len(said) = Len(shown) + Len(segment) + Len(rest)
           /\ \A i \in 1..Len(segment) : segment[i] = said[Len(shown) + i]
           /\ \A i \in 1..Len(rest) : rest[i] = said[Len(shown) + Len(segment) + i],
         UNCHANGED <<cfg, coverage, found, onLoss, injection, target, sent, originals, closing>>
  PROVE  PipelineInv'
<1>1. /\ Fields(out') /\ out'.content = out.content /\ (~Scrubbing => out'.vault = out.vault)
      /\ degraded => degraded'
      /\ \E S : shown' \in Seq(S)
      /\ Len(shown') = Len(shown) + Len(segment)
      /\ \A i \in 1..Len(shown) : shown'[i] = shown[i]
      /\ ~Scrubbing =>
           \A i \in 1..Len(segment) : shown'[Len(shown) + i] = Restore(segment, out.vault)[i]
      /\ Scrubbing /\ ~degraded' => Exposed(shown') \subseteq Exposed(shown) \cup originals \cup Weak
  BY EmitShows
<1>2. FoundInv' /\ OrderInv' /\ OutcomeInv' /\ GateInv' /\ DecisionInv' /\ VaultInv' /\ StoredIsSafe'
  BY <1>1, AnsweringKeeps
<1>3. cfg.kind = "stream"
  BY DEF PipelineInv, OrderInv
<1>4. Scrubbing' = Scrubbing /\ Sayable' = Sayable
  BY <1>1 DEF Scrubbing, Sayable
<1>5. Len(shown) \in Nat /\ Len(segment) \in Nat /\ Len(reply) \in Nat /\ Len(said) \in Nat
  <2>1. PICK S : shown \in Seq(S)
    BY DEF PipelineInv, AnswerInv
  <2>2. reply \in Seq(Sayable)
    BY DEF PipelineInv, AnswerInv
  <2> QED BY <2>1, <2>2
<1>6. ASSUME ~Scrubbing, NEW i \in 1..Len(shown')
      PROVE  i \in 1..Len(said) /\ shown'[i] = Restore(said, out.vault)[i]
  <2>0. i \in 1..Len(said)
    BY <1>1, <1>5, <1>6
  <2>1. CASE i \in 1..Len(shown)
    <3>1. /\ Len(shown) <= Len(reply) /\ shown[i] = Restore(reply, out.vault)[i]
      <4>1. pending \in Seq(Sayable) /\ Len(pending) \in Nat
        BY DEF PipelineInv, AnswerInv
      <4> QED BY <1>3, <1>5, <1>6, <2>1, <4>1 DEF PipelineInv, AnswerInv
    <3>2. i \in DOMAIN reply /\ i \in DOMAIN said /\ reply[i] = said[i]
      <4>1. reply \in Seq(Sayable) /\ i \in 1..Len(reply)
        BY <1>5, <2>1, <3>1 DEF PipelineInv, AnswerInv
      <4> QED BY <2>0, <4>1
    <3>3. Restore(reply, out.vault)[i] = Restore(said, out.vault)[i]
      BY <3>2, RestoreIs
    <3> QED BY <1>1, <2>0, <2>1, <3>1, <3>3
  <2>2. CASE i \notin 1..Len(shown)
    <3> DEFINE k == i - Len(shown)
    <3>1. k \in 1..Len(segment) /\ i = Len(shown) + k
      BY <1>1, <1>5, <2>2
    <3>2. k \in DOMAIN segment /\ i \in DOMAIN said /\ segment[k] = said[i]
      <4>1. segment[k] = said[Len(shown) + k]
        BY <1>6, <3>1
      <4> HIDE DEF k
      <4> QED BY <2>0, <3>1, <4>1
    <3>3. Restore(segment, out.vault)[k] = Restore(said, out.vault)[i]
      BY <3>2, RestoreIs
    <3>4. shown'[i] = Restore(segment, out.vault)[k]
      BY <1>1, <1>6, <3>1
    <3> QED BY <2>0, <3>3, <3>4
  <2> QED BY <2>1, <2>2
<1>7. AnswerInv'
  <2>1. reply' \in Seq(Sayable') /\ pending' \in Seq(Sayable')
    BY <1>4
  <2>2. ASSUME ~Scrubbing
        PROVE  /\ Len(shown') + Len(pending') = Len(reply')
               /\ \A i \in 1..Len(shown') : shown'[i] = Restore(reply', out'.vault)[i]
               /\ \A i \in 1..Len(pending') : pending'[i] = reply'[Len(shown') + i]
    BY <1>1, <1>6, <2>2
  <2> QED BY <1>1, <1>4, <2>1, <2>2 DEF AnswerInv
<1>8. RoundTrip'
  <2> SUFFICES ASSUME ~Scrubbing, NEW i \in DOMAIN shown', NEW j \in DOMAIN out.content,
                      said[i] = out.content[j], said[i][1] = "token", cfg.prompt[j][1] = "raw"
               PROVE  shown'[i] = cfg.prompt[j]
    BY <1>1, <1>3, <1>4 DEF RoundTrip
  <2>1. i \in 1..Len(shown')
    BY <1>1
  <2>2. i \in DOMAIN said /\ shown'[i] = Restore(said, out.vault)[i]
    BY <1>6, <2>1
  <2>3. out.content[j] \in DOMAIN out.vault /\ cfg.prompt[j] = Raw(out.vault[out.content[j]])
    BY DEF PipelineInv, VaultInv, Named
  <2> QED BY <2>2, <2>3, RestoreIs
<1>9. ScrubHolds'
  <2> SUFFICES ASSUME Scrubbing, ~degraded' PROVE Exposed(shown') \subseteq originals \cup Weak
    BY <1>4 DEF ScrubHolds
  <2>1. Exposed(shown) \subseteq originals \cup Weak
    BY <1>1, <1>3 DEF PipelineInv, ShownIsTheClients, ScrubHolds
  <2> QED BY <1>1, <2>1
<1> QED BY <1>2, <1>7, <1>8, <1>9 DEF PipelineInv, ShownIsTheClients

(* Restoring one streamed segment keeps the invariant. *)
LEMMA TokenStep == ASSUME PipelineInv, StreamToken PROVE PipelineInv'
<1>1. PICK atom \in Sayable : \E settled \in 0..(Len(pending) + 1) :
        LET held == Append(pending, atom)
        IN /\ reply' = Append(reply, atom)
           /\ pending' = SubSeq(held, settled + 1, Len(held))
           /\ Emit(SubSeq(held, 1, settled))
  BY DEF StreamToken
<1> DEFINE held == Append(pending, atom)
           said == Append(reply, atom)
<1>2. PICK settled \in 0..(Len(pending) + 1) :
        /\ reply' = said /\ pending' = SubSeq(held, settled + 1, Len(held))
        /\ Emit(SubSeq(held, 1, settled))
  BY <1>1
<1> DEFINE segment == SubSeq(held, 1, settled)
           rest == SubSeq(held, settled + 1, Len(held))
<1>3. reply \in Seq(Sayable) /\ pending \in Seq(Sayable) /\ Len(pending) \in Nat /\ Len(reply) \in Nat
  BY DEF PipelineInv, AnswerInv
<1>4. /\ held \in Seq(Sayable) /\ Len(held) = Len(pending) + 1
      /\ \A i \in 1..Len(pending) : held[i] = pending[i]
      /\ held[Len(pending) + 1] = atom
  BY <1>3, AppendProperties
<1>5. /\ said \in Seq(Sayable) /\ Len(said) = Len(reply) + 1
      /\ \A i \in 1..Len(reply) : said[i] = reply[i]
      /\ said[Len(reply) + 1] = atom
  BY <1>3, AppendProperties
<1> HIDE DEF held, said
<1>6. /\ segment \in Seq(Sayable) /\ Len(segment) = settled
      /\ \A i \in 1..settled : segment[i] = held[i]
  <2>1. \A i \in 1..settled : held[i] \in Sayable
    BY <1>3, <1>4
  <2> QED BY <1>3, <2>1, SubSeqProperties
<1>7. /\ rest \in Seq(Sayable) /\ Len(rest) = Len(held) - settled
      /\ \A i \in 1..Len(rest) : rest[i] = held[settled + i]
  <2>1. \A i \in (settled + 1)..Len(held) : held[i] \in Sayable
    BY <1>3, <1>4
  <2> QED BY <1>3, <1>4, <2>1, SubSeqProperties
<1> HIDE DEF segment, rest
<1>8. ASSUME ~Scrubbing
      PROVE  /\ Len(said) = Len(shown) + Len(segment) + Len(rest)
             /\ \A i \in 1..Len(segment) : segment[i] = said[Len(shown) + i]
             /\ \A i \in 1..Len(rest) : rest[i] = said[Len(shown) + Len(segment) + i]
  <2>1. /\ Len(shown) + Len(pending) = Len(reply)
        /\ \A i \in 1..Len(pending) : pending[i] = reply[Len(shown) + i]
    BY <1>8 DEF PipelineInv, AnswerInv, OrderInv, StreamToken
  <2>2. Len(shown) \in Nat
    <3>1. PICK S : shown \in Seq(S)
      BY DEF PipelineInv, AnswerInv
    <3> QED BY <3>1
  <2>3. \A i \in 1..Len(held) : held[i] = said[Len(shown) + i]
    <3> SUFFICES ASSUME NEW i \in 1..Len(held) PROVE held[i] = said[Len(shown) + i]
      OBVIOUS
    <3>1. CASE i \in 1..Len(pending)
      <4>1. Len(shown) + i \in 1..Len(reply)
        BY <1>3, <2>1, <2>2, <3>1
      <4> QED BY <1>4, <1>5, <2>1, <3>1, <4>1
    <3>2. CASE i = Len(pending) + 1
      <4>1. Len(shown) + i = Len(reply) + 1
        BY <1>3, <2>1, <2>2, <3>2
      <4> QED BY <1>4, <1>5, <3>2, <4>1
    <3> QED BY <1>3, <1>4, <3>1, <3>2
  <2>4. Len(said) = Len(shown) + Len(segment) + Len(rest)
    <3>1. /\ Len(said) = Len(reply) + 1 /\ Len(segment) = settled
          /\ Len(rest) = (Len(pending) + 1) - settled /\ Len(shown) + Len(pending) = Len(reply)
      BY <1>4, <1>5, <1>6, <1>7, <2>1
    <3>2. settled \in Nat /\ Len(pending) \in Nat /\ Len(reply) \in Nat /\ Len(shown) \in Nat
      BY <1>3, <2>2
    <3> QED BY <3>1, <3>2
  <2>5. ASSUME NEW i \in 1..Len(segment) PROVE segment[i] = said[Len(shown) + i]
    <3>1. i \in 1..Len(held)
      BY <1>3, <1>4, <1>6
    <3> QED BY <1>6, <2>3, <3>1
  <2>6. ASSUME NEW i \in 1..Len(rest) PROVE rest[i] = said[Len(shown) + Len(segment) + i]
    <3>1. settled + i \in 1..Len(held) /\ Len(shown) + (settled + i) = Len(shown) + settled + i
      BY <1>3, <1>4, <1>7, <2>2
    <3>2. rest[i] = held[settled + i]
      BY <1>7
    <3>3. held[settled + i] = said[Len(shown) + (settled + i)]
      BY <2>3, <3>1
    <3> QED BY <1>6, <3>1, <3>2, <3>3
  <2> QED BY <2>4, <2>5, <2>6
<1>9. Emit(segment) /\ pending' = rest /\ reply' = said
  BY <1>2 DEF segment, rest
<1>10. /\ pc = "stream" /\ pc' = "stream"
       /\ UNCHANGED <<cfg, coverage, found, onLoss, injection, target, sent, originals, closing>>
  BY DEF StreamToken
<1>11. Len(reply) <= Len(said)
  BY <1>3, <1>5
<1> QED BY <1>5, <1>6, <1>7, <1>8, <1>9, <1>10, <1>11, StreamStep

(* The end of a stream, with what was still held back, keeps the invariant. *)
LEMMA StreamEndStep == ASSUME PipelineInv, StreamEnds PROVE PipelineInv'
<1>1. /\ pc = "stream" /\ pc' = "audit" /\ Emit(pending) /\ pending' = <<>> /\ reply' = reply
      /\ UNCHANGED <<cfg, coverage, found, onLoss, injection, target, sent, originals, closing>>
  BY DEF StreamEnds
<1>2. reply \in Seq(Sayable) /\ pending \in Seq(Sayable) /\ <<>> \in Seq(Sayable) /\ Len(<<>>) = 0
      /\ Len(reply) \in Nat /\ Len(pending) \in Nat
  BY DEF PipelineInv, AnswerInv
<1>3. ASSUME ~Scrubbing
      PROVE  /\ Len(reply) = Len(shown) + Len(pending) + Len(<<>>)
             /\ \A i \in 1..Len(pending) : pending[i] = reply[Len(shown) + i]
             /\ \A i \in 1..Len(<<>>) : <<>>[i] = reply[Len(shown) + Len(pending) + i]
  <2>1. /\ Len(shown) + Len(pending) = Len(reply)
        /\ \A i \in 1..Len(pending) : pending[i] = reply[Len(shown) + i]
    BY <1>1, <1>3 DEF PipelineInv, AnswerInv, OrderInv
  <2> QED BY <1>2, <2>1
<1>4. Len(reply) <= Len(reply)
  BY <1>2
<1> QED BY <1>1, <1>2, <1>3, <1>4, StreamStep

(* Writing the event keeps the invariant: what is stored is safe. *)
LEMMA AuditStep == ASSUME PipelineInv, Audit PROVE PipelineInv'
<1> USE DEF PipelineInv
<1>0. /\ pc = "audit" /\ pc' = "done" /\ status' = "200"
      /\ UNCHANGED <<cfg, coverage, found, onLoss, injection, out, degraded, target, sent, answering>>
  BY DEF Audit
<1>1. FoundInv' /\ OutcomeInv' /\ VaultInv' /\ OrderInv'
  BY <1>0 DEF FoundInv, OutcomeInv, VaultInv, OrderInv, Fields, Stages, Gated, Prepared
<1>2. Released
  BY <1>0 DEF Released, Prepared
<1>3. GateInv' /\ DecisionInv'
  BY <1>0, <1>2 DEF GateInv, DecisionInv, Released, EnforcedInjection, Refused, Hides, Hidden, Decided,
                    AtLevel, Gated, Prepared
<1>4. AnswerInv' /\ ShownIsTheClients'
  <2>1. AnswerInv'
    BY <1>0 DEF AnswerInv, answering, Sayable, Scrubbing
  <2>2. RoundTrip'
    BY <1>0 DEF answering, Scrubbing, ShownIsTheClients, RoundTrip
  <2>3. ScrubHolds'
    BY <1>0 DEF answering, Scrubbing, ShownIsTheClients, ScrubHolds
  <2> QED BY <2>1, <2>2, <2>3 DEF ShownIsTheClients
<1>5. StoredIsSafe'
  <2>1. PICK prompt \in AuditPrompts : event' = AnswerEvent(prompt)
    BY DEF Audit
  <2>2. /\ event'.prompt = prompt /\ event'.response = (IF degraded THEN Null ELSE reply)
        /\ event'.floorOnly = degraded
    BY <2>1 DEF AnswerEvent
  <2>3. Lost(coverage) => degraded
    BY <1>0 DEF GateInv, Gated, Prepared
  <2>4. degraded => prompt = Null
    BY DEF AuditPrompts
  <2>5. ASSUME ~degraded, Hides
        PROVE  Exposed(reply) \cap Values(cfg.prompt) = {}
    <3>1. Exposed(out.content) = {}
      BY <1>2, <2>3, <2>5, WholeIsHidden DEF DecisionInv
    <3>2. ASSUME NEW e \in Exposed(reply) PROVE e \notin Values(cfg.prompt)
      <4>1. PICK i \in DOMAIN reply : reply[i] \in {Raw(e), Sliced(e)}
        BY <3>2 DEF Exposed
      <4>2. e \in Entity /\ reply[i] \in Sayable
        BY <3>2 DEF Exposed, AnswerInv
      <4>3. CASE \E j \in DOMAIN out.content : reply[i] = out.content[j]
        BY <3>1, <4>1, <4>2, <4>3 DEF Exposed
      <4>4. CASE \E f \in Invented : reply[i] = Raw(f)
        <5>1. e \in Invented
          BY <4>1, <4>4 DEF Raw, Sliced
        <5> QED BY <5>1, PipelineAssumption DEF FoundInv
      <4> QED BY <4>2, <4>3, <4>4 DEF Sayable
    <3> QED BY <3>2
  <2>6. Hides' = Hides
    BY <1>0 DEF Hides, Decided, AtLevel
  <2> QED BY <1>0, <2>2, <2>3, <2>4, <2>5, <2>6 DEF StoredIsSafe
<1> QED BY <1>1, <1>3, <1>4, <1>5

-----------------------------------------------------------------------------
(* The theorems *)

(* The invariant holds at every await of every request. *)
THEOREM PipelineInvariance == Spec => []PipelineInv
<1>1. Init => PipelineInv
  <2> SUFFICES ASSUME Init PROVE PipelineInv
    OBVIOUS
  <2> USE DEF Init
  <2>1. FoundInv /\ OrderInv /\ GateInv /\ OutcomeInv /\ DecisionInv
    BY DEF FoundInv, OrderInv, GateInv, OutcomeInv, DecisionInv, Released, Stages, Gated, Prepared
  <2>2. VaultInv /\ StoredIsSafe
    BY DEF VaultInv, Fields, StoredIsSafe
  <2>3. <<>> \in Seq({})
    OBVIOUS
  <2>4. AnswerInv /\ ShownIsTheClients
    BY <2>3 DEF AnswerInv, ShownIsTheClients, RoundTrip, ScrubHolds, Exposed
  <2> QED BY <2>1, <2>2, <2>4 DEF PipelineInv
<1>2. PipelineInv /\ [Next]_vars => PipelineInv'
  <2> SUFFICES ASSUME PipelineInv, [Next]_vars PROVE PipelineInv'
    OBVIOUS
  <2>1. CASE UNCHANGED vars
    <3> USE <2>1 DEF PipelineInv, vars
    <3>1. FoundInv' /\ OrderInv' /\ OutcomeInv' /\ VaultInv'
      BY DEF FoundInv, OrderInv, OutcomeInv, VaultInv, Fields, Named, SlicedAreOf, Scrubbing
    <3>2. GateInv' /\ DecisionInv'
      BY DEF GateInv, DecisionInv, Released, EnforcedInjection, Refused, Hides, Hidden, Decided, AtLevel
    <3>3. AnswerInv'
      BY DEF AnswerInv, Sayable, Scrubbing
    <3>4. ShownIsTheClients'
      BY DEF ShownIsTheClients, RoundTrip, ScrubHolds, Scrubbing
    <3>5. StoredIsSafe'
      BY DEF StoredIsSafe, Hides, Decided, AtLevel
    <3> QED BY <3>1, <3>2, <3>3, <3>4, <3>5
  <2>2. CASE Preload
    BY <2>2, PreloadStep
  <2>3. CASE Detect
    BY <2>3, DetectStep
  <2>4. CASE GateDetection
    BY <2>4, GateStep
  <2>5. CASE EvaluatePolicy
    BY <2>5, EvaluateStep
  <2>6. CASE ReadSecureMode
    BY <2>6, SecureStep
  <2>7. CASE CheckInjection
    BY <2>7, InjectionStep
  <2>8. CASE Deny
    BY <2>8, DenyStep
  <2>9. CASE SkipTarget \/ ProviderFails \/ ChainExhausted
    BY <2>9, TargetStep
  <2>10. CASE ProviderAnswers
    BY <2>10, AnswersStep
  <2>11. CASE Respond
    BY <2>11, RespondStep
  <2>12. CASE StreamToken
    BY <2>12, TokenStep
  <2>13. CASE StreamEnds
    BY <2>13, StreamEndStep
  <2>14. CASE Audit
    BY <2>14, AuditStep
  <2>15. CASE Disconnect
    BY <2>15, EndStep DEF Disconnect
  <2> QED BY <2>1, <2>2, <2>3, <2>4, <2>5, <2>6, <2>7, <2>8, <2>9, <2>10, <2>11, <2>12, <2>13, <2>14,
             <2>15 DEF Next
<1> QED BY <1>1, <1>2, PTL DEF Spec

(* No prompt passes the two sidecar gates without the coverage it needs, unless the workspace chose
   degrade_with_alert. *)
THEOREM GatesHold == Spec => []CoverageGates
<1>1. PipelineInv => CoverageGates
  BY DEF PipelineInv, GateInv, Released, CoverageGates
<1> QED BY <1>1, PipelineInvariance, PTL

(* No request that a deny rule, the strict level or a toggle refuses reaches a provider. *)
THEOREM RefusalsHold == Spec => []BlocksHold
<1>1. PipelineInv => BlocksHold
  BY DEF PipelineInv, DecisionInv, Released, Refused, BlocksHold
<1> QED BY <1>1, PipelineInvariance, PTL

(* No detected occurrence of a value is sent in the clear where the workspace is promised that it is
   hidden, and no value at all of a prompt that the sidecar covered whole. *)
THEOREM HidingHolds == Spec => []FoundIsHidden
<1>1. PipelineInv => FoundIsHidden
  <2> SUFFICES ASSUME PipelineInv, Hides, NEW text \in sent
               PROVE  /\ \A i \in Spans(found) : ~Readable(text[i])
                      /\ ~Lost(coverage) => Exposed(text) \cap Values(cfg.prompt) = {}
    BY DEF FoundIsHidden
  <2>1. text = out.content /\ Hidden(out)
    BY DEF PipelineInv, OrderInv, DecisionInv, Released
  <2>2. \A i \in Spans(found) : i \in DOMAIN cfg.prompt
    BY FoundTypes, DetectedAre DEF PipelineInv
  <2>3. ~Lost(coverage) => Exposed(text) = {}
    BY <2>1, WholeIsHidden DEF PipelineInv
  <2> QED BY <2>1, <2>2, <2>3 DEF Hidden
<1> QED BY <1>1, PipelineInvariance, PTL

(* The event stores no value of the prompt in the response, and nothing that was not scanned. *)
THEOREM StoringHolds == Spec => []StoredIsSafe
<1>1. PipelineInv => StoredIsSafe
  BY DEF PipelineInv
<1> QED BY <1>1, PipelineInvariance, PTL

(* The client is shown its own values where it left them, and under redact_pii_in_responses nobody
   else's. *)
THEOREM ShowingHolds == Spec => []ShownIsTheClients
<1>1. PipelineInv => ShownIsTheClients
  BY DEF PipelineInv
<1> QED BY <1>1, PipelineInvariance, PTL

-----------------------------------------------------------------------------
(***************************************************************************)
(* The breaker in front of the sidecar.                                     *)
(***************************************************************************)

CallStages == {"idle", "gate", "reset_gate", "zero_gate", "chunk", "reset_chunk", "zero_chunk", "send",
           "success", "close", "open", "next", "refused", "done"}

Calls == [pc : CallStages, op : Op \cup {"none"}, total : Nat, chunk : Nat, attempted : Nat,
          covered : SUBSET Nat, outcome : {"none", "absent", "partial", "complete"}]

TypeOK ==
  /\ failures \in 0..(FailureThreshold + 1) /\ openFor \in Closed..OpenDuration
  /\ call \in [Caller -> Calls] /\ down \in BOOLEAN

(* A call that is about to send still has a chunk to send, and no other call has sent too many. *)
WithinPrompt(r) ==
  /\ r.chunk <= r.total
  /\ r.pc \in {"gate", "reset_gate", "zero_gate", "chunk", "reset_chunk", "zero_chunk", "send"}
       => r.chunk < r.total
  /\ r.pc # "idle" => r.total > 0

(* Only chunks that were sent are covered. *)
CoveredWasSent(r) == r.covered \subseteq 1..r.chunk

(* What a call that has ended reports. *)
Reported(r) == r.pc = "done" => r.outcome = Classify(r)

Truthful(r) == WithinPrompt(r) /\ CoveredWasSent(r) /\ Reported(r)

BreakerInv == TypeOK /\ \A c \in Caller : Truthful(call[c])

(* A step gives one caller another record, and leaves the rest. *)
LEMMA OneCall ==
  ASSUME BreakerInv, NEW c \in Caller, NEW r \in Calls, Truthful(r),
         call' = [call EXCEPT ![c] = r]
  PROVE  call' \in [Caller -> Calls] /\ \A d \in Caller : Truthful(call'[d])
BY DEF BreakerInv, TypeOK

(* A call that has not started is of its type and reports nothing untrue. *)
LEMMA IdleTruthful == Idle \in Calls /\ Truthful(Idle)
<1>1. Idle \in Calls
  BY DEF Idle, Calls, CallStages
<1> QED BY <1>1 DEF Idle, Truthful, WithinPrompt, CoveredWasSent, Reported

(* Every step of a call keeps it truthful. *)
LEMMA CallStep ==
  ASSUME BreakerInv, NEW c \in Caller, Start(c) \/ Step(c) \/ Dropped(c)
  PROVE  call' \in [Caller -> Calls] /\ \A d \in Caller : Truthful(call'[d])
<1> DEFINE r == call[c]
<1>0. r \in Calls /\ Truthful(r)
  BY DEF BreakerInv, TypeOK
<1> DEFINE asked == Sent(c)
<1>s. /\ asked \in Calls /\ asked.chunk = r.chunk + 1 /\ asked.covered = r.covered
      /\ asked.total = r.total /\ asked.pc = r.pc
  <2>1. r.chunk + 1 \in Nat /\ r.attempted + 1 \in Nat
    BY <1>0 DEF Calls
  <2> QED BY <1>0, <2>1 DEF Sent, Calls
<1> USE DEF Truthful, WithinPrompt, CoveredWasSent, Reported
<1>1. CASE Start(c)
  <2>1. PICK op \in Op : \E total \in IF op = "detect" THEN 1..MaxChunks ELSE {1} :
          call' = [call EXCEPT ![c] = [Idle EXCEPT !.pc = "gate", !.op = op, !.total = total]]
    BY <1>1 DEF Start
  <2>2. PICK total \in IF op = "detect" THEN 1..MaxChunks ELSE {1} :
          call' = [call EXCEPT ![c] = [Idle EXCEPT !.pc = "gate", !.op = op, !.total = total]]
    BY <2>1
  <2>3. total \in Nat /\ total > 0
    BY BreakerAssumption
  <2> DEFINE new == [Idle EXCEPT !.pc = "gate", !.op = op, !.total = total]
  <2>4. new \in Calls
    BY <2>3, IdleTruthful DEF Calls, CallStages
  <2>5. Truthful(new)
    BY <2>3, IdleTruthful DEF Calls, Idle
  <2>6. call' = [call EXCEPT ![c] = new]
    BY <2>2
  <2> HIDE DEF new
  <2> QED BY <2>4, <2>5, <2>6, OneCall
<1>2. ASSUME NEW to \in CallStages, Goto(c, to), to # "done",
             to \in {"gate", "reset_gate", "zero_gate", "chunk", "reset_chunk", "zero_chunk", "send"}
               => r.chunk < r.total,
             r.pc # "idle"
      PROVE  call' \in [Caller -> Calls] /\ \A d \in Caller : Truthful(call'[d])
  <2> DEFINE new == [r EXCEPT !.pc = to]
  <2>1. new \in Calls /\ Truthful(new)
    BY <1>0, <1>2 DEF Calls
  <2>2. call' = [call EXCEPT ![c] = new]
    BY <1>2 DEF Goto
  <2> HIDE DEF new
  <2> QED BY <2>1, <2>2, OneCall
<1>3. CASE LoadOpenSince(c)
  BY <1>0, <1>2, <1>3 DEF LoadOpenSince, CallStages
<1>4. CASE ResetOpenSince(c)
  BY <1>0, <1>2, <1>4 DEF ResetOpenSince, CallStages
<1>5. CASE ResetFailures(c)
  BY <1>0, <1>2, <1>5 DEF ResetFailures, CallStages
<1>6. CASE OutOfBudget(c)
  BY <1>0, <1>2, <1>6 DEF OutOfBudget, CallStages
<1>7. CASE StoreOpen(c) \/ StoreNoFailures(c) \/ StoreClosed(c)
  BY <1>0, <1>2, <1>7 DEF StoreOpen, StoreNoFailures, StoreClosed, CallStages
<1>8. CASE NextChunk(c)
  BY <1>0, <1>2, <1>8 DEF NextChunk, CallStages
<1>9. CASE Succeeds(c)
  <2> DEFINE new == [asked EXCEPT !.pc = "success", !.covered = @ \cup {r.chunk + 1}]
  <2>1. asked.covered \cup {r.chunk + 1} \in SUBSET Nat
    BY <1>0, <1>s DEF Calls
  <2> HIDE DEF asked
  <2>4. /\ new.chunk = r.chunk + 1 /\ new.covered = r.covered \cup {r.chunk + 1}
        /\ new.total = r.total /\ new.pc = "success" /\ new \in Calls
    BY <1>s, <2>1 DEF Calls, CallStages
  <2>2. Truthful(new)
    BY <1>0, <1>9, <2>4 DEF Succeeds, Calls
  <2>3. call' = [call EXCEPT ![c] = new]
    BY <1>9 DEF Succeeds, asked
  <2> HIDE DEF new
  <2> QED BY <2>4, <2>2, <2>3, OneCall
<1>10. CASE Rejected(c) \/ Fails(c)
  <2>1. PICK to \in {"open", "next"} : call' = [call EXCEPT ![c] = [asked EXCEPT !.pc = to]]
    BY <1>10 DEF Rejected, Fails
  <2> DEFINE new == [asked EXCEPT !.pc = to]
  <2>2. /\ new.chunk = r.chunk + 1 /\ new.covered = r.covered /\ new.total = r.total
        /\ new.pc = to /\ new \in Calls
    BY <1>s DEF Calls, CallStages
  <2>3. Truthful(new)
    BY <1>0, <1>10, <2>2 DEF Rejected, Fails, Calls
  <2> HIDE DEF new
  <2> QED BY <2>1, <2>2, <2>3, OneCall DEF new
<1>11. CASE Finish(c)
  <2> DEFINE new == [r EXCEPT !.pc = "done", !.outcome = Classify(r)]
  <2>1. Classify(r) \in {"absent", "partial", "complete"}
    BY DEF Classify
  <2>2. /\ new.chunk = r.chunk /\ new.covered = r.covered /\ new.total = r.total
        /\ new.pc = "done" /\ new.outcome = Classify(r) /\ new \in Calls
    BY <1>0, <2>1 DEF Calls, CallStages
  <2>3. Truthful(new)
    BY <1>0, <1>11, <2>2 DEF Finish, Calls, Classify
  <2>4. call' = [call EXCEPT ![c] = new]
    BY <1>11 DEF Finish
  <2> HIDE DEF new
  <2> QED BY <2>2, <2>3, <2>4, OneCall
<1>12. CASE Return(c) \/ Dropped(c)
  BY <1>12, IdleTruthful, OneCall DEF Return, Dropped
<1> QED BY <1>1, <1>3, <1>4, <1>5, <1>6, <1>7, <1>8, <1>9, <1>10, <1>11, <1>12 DEF Step

(* The two atomics stay in their ranges. *)
LEMMA AtomicsStep ==
  ASSUME BreakerInv, BreakerNext
  PROVE  /\ failures' \in 0..(FailureThreshold + 1) /\ openFor' \in Closed..OpenDuration
         /\ down' \in BOOLEAN
<1> USE BreakerAssumption DEF BreakerInv, TypeOK, Closed
<1>1. ASSUME NEW c \in Caller, Start(c) \/ Dropped(c) \/ LoadOpenSince(c) \/ OutOfBudget(c)
                \/ Succeeds(c) \/ Rejected(c) \/ NextChunk(c) \/ Finish(c) \/ Return(c)
      PROVE  UNCHANGED <<failures, openFor, down>>
  BY <1>1 DEF Start, Dropped, LoadOpenSince, OutOfBudget, Succeeds, Rejected, NextChunk, Finish, Return
<1>2. ASSUME NEW c \in Caller, ResetOpenSince(c) \/ StoreOpen(c) \/ StoreClosed(c)
      PROVE  UNCHANGED <<failures, down>> /\ openFor' \in {Closed, 0}
  BY <1>2 DEF ResetOpenSince, StoreOpen, StoreClosed
<1>3. ASSUME NEW c \in Caller, ResetFailures(c) \/ StoreNoFailures(c) \/ Fails(c)
      PROVE  UNCHANGED <<openFor, down>> /\ failures' \in {0, Bump(failures)}
  BY <1>3 DEF ResetFailures, StoreNoFailures, Fails
<1>4. Bump(failures) \in 0..(FailureThreshold + 1)
  BY DEF Bump
<1>5. CASE Tick
  BY <1>5 DEF Tick
<1>6. CASE GoesDown
  BY <1>6 DEF GoesDown
<1> QED BY <1>1, <1>2, <1>3, <1>4, <1>5, <1>6 DEF BreakerNext, Step

(* The invariant that carries the coverage holds however the calls interleave. *)
THEOREM BreakerInvariance == BreakerSpec => []BreakerInv
<1>1. BreakerInit => BreakerInv
  <2> SUFFICES ASSUME BreakerInit PROVE BreakerInv
    OBVIOUS
  <2>1. failures \in 0..(FailureThreshold + 1) /\ openFor \in Closed..OpenDuration /\ down \in BOOLEAN
    <3>1. -1 \in (-1)..OpenDuration /\ 0 \in 0..(FailureThreshold + 1)
      BY BreakerAssumption
    <3> QED BY <3>1 DEF BreakerInit, Closed
  <2>2. call \in [Caller -> Calls] /\ \A c \in Caller : Truthful(call[c])
    BY IdleTruthful DEF BreakerInit
  <2> QED BY <2>1, <2>2 DEF BreakerInv, TypeOK
<1>2. BreakerInv /\ [BreakerNext]_breakerVars => BreakerInv'
  <2> SUFFICES ASSUME BreakerInv, [BreakerNext]_breakerVars PROVE BreakerInv'
    OBVIOUS
  <2>1. CASE UNCHANGED breakerVars
    BY <2>1 DEF breakerVars, BreakerInv, TypeOK
  <2>2. CASE Tick \/ GoesDown
    BY <2>2, AtomicsStep DEF Tick, GoesDown, BreakerNext, BreakerInv, TypeOK
  <2>3. ASSUME NEW c \in Caller, Start(c) \/ Step(c) \/ Dropped(c) PROVE BreakerInv'
    <3>1. BreakerNext
      BY <2>3 DEF BreakerNext
    <3> QED BY <2>3, <3>1, CallStep, AtomicsStep DEF BreakerInv, TypeOK
  <2> QED BY <2>1, <2>2, <2>3 DEF BreakerNext
<1> QED BY <1>1, <1>2, PTL DEF BreakerSpec

(* As many members as there are chunks are all the chunks. *)
LEMMA AllChunks ==
  ASSUME NEW n \in Nat, NEW S \in SUBSET (1..n)
  PROVE  /\ Cardinality(S) \in Nat /\ Cardinality(S) <= n
         /\ Cardinality(S) = n <=> S = 1..n
<1>1. IsFiniteSet(1..n) /\ Cardinality(1..n) = n
  BY FS_Interval
<1>2. IsFiniteSet(S) /\ Cardinality(S) <= n /\ (Cardinality(S) = n => S = 1..n)
  BY <1>1, FS_Subset
<1> QED BY <1>1, <1>2, FS_CardinalityType

(* The coverage a detection reports is what the sidecar answered for, however the breaker opens and
   closes under it and wherever its loop over the chunks ends. *)
THEOREM CoverageTruthful == BreakerSpec => []CoverageIsTruthful
<1>1. BreakerInv => CoverageIsTruthful
  <2> SUFFICES ASSUME BreakerInv, NEW c \in Caller, call[c].pc = "done"
               PROVE  /\ call[c].outcome = "complete" <=> call[c].covered = 1..call[c].total
                      /\ call[c].outcome = "absent" <=> call[c].covered = {}
    BY DEF CoverageIsTruthful
  <2> DEFINE r == call[c]
  <2>1. r.total \in Nat \ {0} /\ r.covered \subseteq 1..r.total /\ r.outcome = Classify(r)
    BY DEF BreakerInv, TypeOK, Calls, Truthful, WithinPrompt, CoveredWasSent, Reported
  <2>2. /\ Cardinality(r.covered) \in Nat /\ Cardinality(r.covered) <= r.total
        /\ Cardinality(r.covered) = r.total <=> r.covered = 1..r.total
    BY <2>1, AllChunks
  <2>3. 1 \in 1..r.total
    BY <2>1
  <2> QED BY <2>1, <2>2, <2>3 DEF Classify
<1> QED BY <1>1, BreakerInvariance, PTL
=============================================================================
