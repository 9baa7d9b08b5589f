--------------------------- MODULE MCAuditExport ---------------------------
(***************************************************************************)
(* Small instances of an export's life, and of a bundle on its way to an    *)
(* auditor.  The two share no variable: a behaviour moves the one that part *)
(* names, and the other stands still.                                       *)
(***************************************************************************)
EXTENDS AuditExport, ExportBundle

CONSTANTS e1, w1, w2

VARIABLE part

allVars == <<part, vars, bundleVars>>

(* Windows in half seconds: one of whole seconds, one that starts inside one. *)
MCWindows == {<<0, 2>>, <<1, 4>>}

MCInit ==
  /\ part \in {"export", "bundle"}
  /\ Init
  /\ IF part = "bundle" THEN BundleInit ELSE Bundled(0, 0, 1, "csv")

MCNext ==
  \/ part = "export" /\ Next /\ UNCHANGED <<part, bundleVars>>
  \/ part = "bundle" /\ BundleNext /\ UNCHANGED <<part, vars>>

MCSpec == MCInit /\ [][MCNext]_allVars /\ (part = "export" => Fairness)
=============================================================================
