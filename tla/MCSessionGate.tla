--------------------------- MODULE MCSessionGate ---------------------------
(* Small instances of SessionGate. *)
EXTENDS SessionGate, TLC

CONSTANTS j1, o1, o2, g1, v1, v2

Symmetry == Permutations(Jti) \cup Permutations(Pod) \cup Permutations(Gate)
            \cup Permutations(Revoker)
=============================================================================
