---------------------------- MODULE MCAdmission ----------------------------
(***************************************************************************)
(* Small instances of what a request meets on its way in: an account and    *)
(* its sign-in, an API key, the rate limit, the budget, the provider it is  *)
(* routed to, and the door of the file scanner.  The components share no    *)
(* variable, so a behaviour moves one of them, chosen at the start: part    *)
(* says which.                                                              *)
(***************************************************************************)
EXTENDS ApiKeys, RateLimit, Budget, Providers, SignIn, FileScan, TLC

CONSTANTS a1, a2   \* interchangeable keys, requests, logins, scans or administrators

VARIABLE part

MCLower == [e \in Email |-> "e1"]

MCRows == {[daily |-> 2, monthly |-> -1, behavior |-> "block"],
           [daily |-> 2, monthly |-> 3, behavior |-> "warn"]}

allVars == <<part, keyVars, limitVars, catalogueVars, accountVars, scanVars, budgetVars>>

MCInit ==
  /\ KeysInit
  /\ LimitsInit
  /\ CatalogueInit
  /\ AccountsInit
  /\ ScansInit
  /\ BudgetInit
  /\ part \in {"keys", "limit", "budget", "providers", "accounts", "scans"}
  /\ part # "accounts" => user = [e \in Email |-> IF e = "e1" THEN Account(Home, "owner") ELSE Unknown]

MCNext ==
  \/ /\ part = "keys" /\ KeysNext
     /\ UNCHANGED <<part, limitVars, catalogueVars, accountVars, scanVars, budgetVars>>
  \/ /\ part = "limit" /\ LimitsNext
     /\ UNCHANGED <<part, keyVars, catalogueVars, accountVars, scanVars, budgetVars>>
  \/ /\ part = "providers" /\ CatalogueNext
     /\ UNCHANGED <<part, keyVars, limitVars, accountVars, scanVars, budgetVars>>
  \/ /\ part = "accounts" /\ AccountsNext
     /\ UNCHANGED <<part, keyVars, limitVars, catalogueVars, scanVars, budgetVars>>
  \/ /\ part = "scans" /\ ScansNext
     /\ UNCHANGED <<part, keyVars, limitVars, catalogueVars, accountVars, budgetVars>>
  \/ /\ part = "budget" /\ BudgetNext
     /\ UNCHANGED <<part, keyVars, limitVars, catalogueVars, accountVars, scanVars>>

MCSpec == MCInit /\ [][MCNext]_allVars

Symmetry == Permutations({a1, a2})

(* The two properties of the budget say nothing of a behaviour once it is not calm: it is followed
   to the first state that is not. *)
WhileCalm == calm

=============================================================================
