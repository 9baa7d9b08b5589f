----------------------------- MODULE MCOutages -----------------------------
(***************************************************************************)
(* Small instances of the two components that live with a service going     *)
(* down: the breaker in front of the sidecar and the writer in front of     *)
(* ClickHouse.  They share no variable, so a behaviour moves one of them,   *)
(* chosen at the start, and the other stands still.                         *)
(***************************************************************************)
EXTENDS SidecarBreaker

CONSTANTS c1, c2

VARIABLES part, layout, up, metadata, channel, task, batch, side, gauge, probe

W == INSTANCE AnalyticsWriter WITH
       Side <- {"t1"}, Events <- {{}, {"t1"}}, Capacity <- 2, BatchRows <- 2

writer == <<layout, up, metadata, channel, task, batch, side, gauge, probe>>
allVars == <<part, breakerVars, writer>>

OutagesInit == part \in {"breaker", "writer"} /\ BreakerInit /\ W!Init

OutagesNext ==
  \/ part = "breaker" /\ BreakerNext /\ UNCHANGED <<part, writer>>
  \/ part = "writer" /\ W!Next /\ UNCHANGED <<part, breakerVars>>

(* Each part's fairness is its module's, asked of it when it is the part that moves. *)
OutagesSpec ==
  /\ OutagesInit /\ [][OutagesNext]_allVars
  /\ part = "breaker" => Fairness
  /\ part = "writer" => W!Fairness

(* AnalyticsWriter: the schema gauge comes to agree with a table that has settled, and no row stays
   in a batch while requests keep arriving. *)
WriterSettles == W!WriterSettles
=============================================================================
