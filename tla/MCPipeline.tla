---------------------------- MODULE MCPipeline -----------------------------
(* Small instances of Pipeline. *)
EXTENDS Pipeline

CONSTANTS ann, bob, nina, may, mail

(* may is a name of the kind the response side takes for noise. *)
Classes == (ann :> "Person") @@ (bob :> "Person") @@ (nina :> "Person") @@ (may :> "Person")
             @@ (mail :> "Email")

Rule(action, classes) ==
  [action |-> action, classes |-> classes, holds |-> TRUE, template |-> "value", dryRun |-> FALSE]

Transform(classes, template) == [Rule("transform", classes) EXCEPT !.template = template]

RuleSets ==
  {<<>>,
   <<Rule("allow", {"Email"})>>, <<Rule("flag", {})>>, <<Rule("deny", {"Person"})>>,
   <<Rule("redact", {"Email"})>>, <<Rule("redact", {})>>,
   <<Transform({"Email"}, "value")>>, <<Transform({"Email"}, "same")>>,
   <<Transform({"Email"}, "shorter")>>,
   <<[Rule("deny", {}) EXCEPT !.dryRun = TRUE], Rule("redact", {"Person"})>>,
   <<[Rule("allow", {}) EXCEPT !.holds = FALSE]>>,
   <<Rule("quarantine", {}), Rule("deny", {"Email"})>>,
   <<Rule("quarantine", {"Email"})>>}

Off == [enabled |-> FALSE, level |-> "standard", blockPii |-> TRUE, blockInjection |-> TRUE,
        redactResponses |-> TRUE]
On(level, pii, inj, resp) ==
  [enabled |-> TRUE, level |-> level, blockPii |-> pii, blockInjection |-> inj,
   redactResponses |-> resp]

(* The last message starts at the second atom. *)
Config(kind, rules, prompt, file, net, secure, loss, say) ==
  [kind |-> kind, rules |-> rules, prompt |-> prompt, last |-> IF Len(prompt) > 1 THEN 2 ELSE 1, file |-> file,
   redactWhenNoRules |-> net, secure |-> secure, onLoss |-> loss, say |-> say]

(* Every policy and every secure mode, no answer. *)
RequestSide ==
  {Config("chat", rules, prompt, EmptyVault, net, secure, loss, 0) :
     rules \in RuleSets,
     prompt \in {<<>>, <<Raw(mail)>>, <<Raw(mail), Raw(ann)>>, <<Raw(ann), Raw(mail), Raw(ann)>>,
                 <<Raw(mail), Raw(ann), Raw(bob)>>},
     net \in BOOLEAN,
     secure \in {Off} \cup {On(level, pii, inj, FALSE) :
                              level \in {"permissive", "strict", "standard"},
                              pii \in BOOLEAN, inj \in BOOLEAN},
     loss \in {"block", "degrade"}}

(* The answer's way back. *)
ResponseSideOf(files, prompts) ==
  {Config(kind, rules, prompt, file, TRUE, secure, "degrade", 2) :
     kind \in {"chat", "stream", "completion"},
     rules \in {<<>>, <<Rule("allow", {"Person"})>>, <<Transform({"Email"}, "shorter")>>},
     prompt \in prompts, file \in files,
     secure \in {Off, On("permissive", FALSE, FALSE, TRUE)}}

ResponseConfigs ==
  ResponseSideOf({EmptyVault}, {<<Raw(ann), Raw(bob)>>, <<Raw(mail), Raw(ann)>>})

(* A scanned file holds bob, and a prompt names ann besides. *)
FileConfigs ==
  ResponseSideOf({Token("Person", 1) :> bob}, {<<Token("Person", 1), Raw(ann)>>})

AllConfigs == RequestSide \cup ResponseConfigs \cup FileConfigs
=============================================================================
