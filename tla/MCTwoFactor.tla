---------------------------- MODULE MCTwoFactor ----------------------------
(* Small instances of TwoFactor. *)
EXTENDS TwoFactor, TLC

CONSTANTS r1, r2

Symmetry == Permutations(Request)
=============================================================================
