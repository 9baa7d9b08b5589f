----------------------------- MODULE Redaction -----------------------------
(***************************************************************************)
(* Placeholders: vault::apply_redaction, apply_transform and               *)
(* TokenVault::restore, and the policy engine's evaluation of a            *)
(* workspace's rules over what was detected.                               *)
(*                                                                         *)
(* A text is a sequence of atoms: a value the engines recognise as         *)
(* personal data, a placeholder {{Class_N}}, a value a transform rule      *)
(* rewrote, or what is left of a value cut at the wrong place.  What lies  *)
(* between the atoms is left out; the last atom ends the text.             *)
(***************************************************************************)
EXTENDS Integers, Sequences, FiniteSets, TLC

CONSTANTS Entity,    \* values of personal data
          ClassOf    \* the class the detectors give each of them

Raw(e) == <<"raw", e, 0>>
Token(c, n) == <<"token", c, n>>

(* A value rendered through a template: at the length it had, or shorter.  *)
Masked(e, shorter) == <<"masked", e, IF shorter THEN 1 ELSE 0>>

(* A value of which a span that no longer fits replaced only a part. *)
Sliced(e) == <<"sliced", e, 0>>

(* The values that can be read in a text. *)
Values(text) == {e \in Entity : \E i \in DOMAIN text : text[i] = Raw(e)}

(* The values that can be read there whole or in part. *)
Exposed(text) == {e \in Entity : \E i \in DOMAIN text : text[i] \in {Raw(e), Sliced(e)}}

(* A detection is a place in a text and the value that stands there. *)
Detections(text) == {d \in (DOMAIN text) \X Entity : text[d[1]] = Raw(d[2])}

Spans(found) == {d[1] : d \in found}
ValuesOf(found) == {d[2] : d \in found}

First(found, e) == CHOOSE i \in Spans(found) : <<i, e>> \in found /\ \A d \in found : d[2] = e => i <= d[1]

(* Mutant: one number for all the values of a class. *)
PlaceholderForClass(found, e) == Token(ClassOf[e], 1)

(* apply_redaction numbers the values of a class from 1 in the order they   *)
(* are first detected, in every call anew; a repeated value keeps its       *)
(* placeholder.                                                             *)
PlaceholderFor(found, e) ==
  Token(ClassOf[e],
        Cardinality({f \in ValuesOf(found) : ClassOf[f] = ClassOf[e] /\ First(found, f) <= First(found, e)}))

(* The text is shorter, up to and including position i, than `at`, the one  *)
(* the spans were measured in.                                              *)
Shortened(text, at, i) ==
  \E j \in 1..i : text[j][1] = "masked" /\ text[j][3] = 1 /\ at[j] # text[j]

(* The positions apply_redaction replaces in text, for detections whose     *)
(* spans were measured in `at`: those detected and no others, and a span    *)
(* that ends past the end of the text is skipped.                           *)
Replaced(text, at, found) ==
  {i \in Spans(found) : i = Len(text) => ~Shortened(text, at, i)}

ApplyRedaction(text, at, found) ==
  [i \in DOMAIN text |->
     IF i \notin Replaced(text, at, found) THEN text[i]
     ELSE IF Shortened(text, at, i - 1) THEN Sliced(at[i][2])
     ELSE PlaceholderFor(found, at[i][2])]

(* What one call of apply_redaction inserts into the vault. *)
Inserted(text, at, found) ==
  LET hidden == {at[i][2] : i \in Replaced(text, at, found)}
  IN [t \in {PlaceholderFor(found, e) : e \in hidden} |->
        CHOOSE e \in hidden : PlaceholderFor(found, e) = t]

(* TokenVault::insert overwrites. *)
VaultAfter(text, at, found, vault) ==
  LET new == Inserted(text, at, found)
  IN [t \in DOMAIN new \cup DOMAIN vault |-> IF t \in DOMAIN new THEN new[t] ELSE vault[t]]

(* The default template is the value itself. *)
ApplyTransform(text, found, template) ==
  [i \in DOMAIN text |->
     IF template # "value" /\ i \in Spans(found)
     THEN Masked(text[i][2], template = "shorter")
     ELSE text[i]]

(* TokenVault::restore. *)
Restore(text, vault) ==
  [i \in DOMAIN text |-> IF text[i] \in DOMAIN vault THEN Raw(vault[text[i]]) ELSE text[i]]

OriginalValues(vault) == {vault[t] : t \in DOMAIN vault}

-----------------------------------------------------------------------------
(* A rule: the classes its detection conditions name (none: it has none),   *)
(* whether its other conditions hold of the request, its action, the        *)
(* template of a transform and dry_run.                                     *)

Recognised == {"deny", "allow", "redact", "transform", "flag"}

RuleMatches(rule, found) ==
  rule.holds /\ (rule.classes = {} \/ \E e \in ValuesOf(found) : ClassOf[e] \in rule.classes)

(* matching_detections falls back to every detection. *)
MatchingDetections(rule, found) ==
  LET filtered == {d \in found : rule.classes = {} \/ ClassOf[d[2]] \in rule.classes}
  IN IF filtered = {} THEN found ELSE filtered

(* The rules whose action evaluate takes up, in order. *)
Firing(rules, found) ==
  {i \in DOMAIN rules : RuleMatches(rules[i], found) /\ ~rules[i].dryRun}

(* The rule that decides: evaluate stops at the first recognised action. *)
Decider(rules, found) ==
  {i \in Firing(rules, found) :
     /\ rules[i].action \in Recognised
     /\ \A j \in Firing(rules, found) : j < i => rules[j].action \notin Recognised}

FinalAction(rules, found) ==
  IF Decider(rules, found) # {}
  THEN rules[CHOOSE i \in Decider(rules, found) : TRUE].action
  ELSE IF Firing(rules, found) # {}
       THEN rules[CHOOSE i \in Firing(rules, found) : \A j \in Firing(rules, found) : j <= i].action
       ELSE "allow"

(* What a redact rule hides. *)
ToRedact(rule, found, failClosed) ==
  IF failClosed THEN found ELSE MatchingDetections(rule, found)

(* evaluate: the content, the vault and the redaction map it leaves. *)
Evaluate(rules, text, found, vault, failClosed) ==
  LET action == FinalAction(rules, found)
      decided == Decider(rules, found) # {}
      rule == rules[CHOOSE i \in Decider(rules, found) : TRUE]
      hidden == IF decided /\ action = "redact" THEN ToRedact(rule, found, failClosed) ELSE {}
  IN [action |-> action,
      denied |-> action = "deny",
      unprotected |-> ~decided,
      content |-> IF decided /\ action = "transform"
                  THEN ApplyTransform(text, MatchingDetections(rule, found), rule.template)
                  ELSE ApplyRedaction(text, text, hidden),
      vault |-> VaultAfter(text, text, hidden, vault),
      mapped |-> Replaced(text, text, hidden) # {}]
=============================================================================
