----------------------------- MODULE MCRecords -----------------------------
(***************************************************************************)
(* Small instances of what is kept and shown: retention, the data           *)
(* inventory and the reports.  The components share no variable, so a       *)
(* behaviour moves one of them, named by part; the others do not move.      *)
(***************************************************************************)
EXTENDS Retention, DataInventory, Reports, TLC

CONSTANTS a1, a2  \* interchangeable workspaces

VARIABLE part

MCClass == {Captures, Providers, FileVault}

Served(id, ws, who, model, known, at, found) ==
  [id |-> id, ws |-> ws, user |-> who, model |-> model, known |-> known, legacy |-> FALSE, at |-> at,
   found |-> found]

(* Three events of one second: two share an id and went to different models, one of them stored as
   it was asked for; one event of the second before, and one of another workspace under the shared
   id.  Entities of a known class and of two that are not, one class found twice. *)
MCMade == <<Served(2, "w1", "u1", "m1", TRUE, 1, <<<<"C", "v">>, <<"X", "v">>, <<"Y", "v">>>>),
            [Served(2, "w1", "u2", "m2", FALSE, 1, <<<<"C", "v">>, <<"C", "v2">>>>) EXCEPT !.legacy = TRUE],
            Served(1, "w1", "u1", "m2", FALSE, 1, <<<<"C", "v">>>>),
            Served(3, "w1", "u1", "m1", TRUE, 0, <<<<"C", "v">>>>),
            Served(2, "w2", "u1", "m1", TRUE, 1, <<<<"C", "v">>>>)>>
MCCaller == {[ws |-> "w1", user |-> "u1", audit |-> FALSE, admin |-> FALSE],
             [ws |-> "w1", user |-> "u2", audit |-> TRUE, admin |-> TRUE]}

allVars == <<part, retentionVars, inventoryVars, reportVars>>

(* Rows to count and to report are there where they are what moves. *)
MCInit ==
  /\ part \in {"retention", "inventory", "reports"}
  /\ RetentionInit
  /\ InventoryInit
  /\ ReportsInit
  /\ part # "inventory" => \A c \in Countable, s \in Shape : rows[c][s] = 0
  /\ part # "reports" => /\ table = [t \in Table |-> {}]
                         /\ catalogue = [w \in Workspaces |-> {}]

MCNext ==
  \/ part = "retention" /\ RetentionNext
     /\ UNCHANGED <<part, inventoryVars, reportVars>>
  \/ part = "inventory" /\ InventoryNext
     /\ UNCHANGED <<part, retentionVars, reportVars>>
  \/ part = "reports" /\ ReportsNext
     /\ UNCHANGED <<part, retentionVars, inventoryVars>>

MCSpec == MCInit /\ [][MCNext]_allVars

Symmetry == Permutations({a1, a2})
=============================================================================
