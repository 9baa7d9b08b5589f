---------------------------- MODULE MCBackoffice ----------------------------
(***************************************************************************)
(* Small instances of what administrators change while the gateway serves:  *)
(* the licence, the workspace settings and the policy rules.  A behaviour   *)
(* is that of one component, named by part; the other two do not move.      *)
(***************************************************************************)
EXTENDS License, Settings, PolicyRules, TLC

CONSTANTS a1, a2, b1, b2     \* interchangeable: rules; administrators

VARIABLE part

Body(m, pol, on, d) == [mode |-> m, policy |-> pol, enabled |-> on, days |-> d]

MCBodies ==
  {Body("f1" :> TRUE, Unset, Unset, Unset),
   Body(<<>>, "degrade_with_alert", TRUE, Unset),
   Body(<<>>, "block", Unset, 9),
   Body("f1" :> FALSE, "other", FALSE, 0),
   Body("f1" :> FALSE, Unset, FALSE, 0)}

MCDefaultRule == [priority |-> 1, enabled |-> TRUE, dry_run |-> FALSE]

MCExpires == "l1" :> 1 @@ "l2" :> 0

allVars == <<part, licVars, settingVars, ruleVars>>

Init ==
  /\ part \in {"license", "settings", "rules"}
  /\ LicenseInit
  /\ SettingsInit
  /\ RulesInit
  /\ part # "rules" => \A r \in Rule : ~Exists(r)

Next ==
  \/ part = "license" /\ LicenseNext /\ UNCHANGED <<part, settingVars, ruleVars>>
  \/ part = "settings" /\ SettingsNext /\ UNCHANGED <<part, licVars, ruleVars>>
  \/ part = "rules" /\ RulesNext /\ UNCHANGED <<part, licVars, settingVars>>

Spec == Init /\ [][Next]_allVars

Symmetry == Permutations({a1, a2}) \cup Permutations({b1, b2})
=============================================================================
