-------------------------- MODULE MCRefreshTokens --------------------------
(* Small instances of RefreshTokens: one user holding every session. *)
EXTENDS RefreshTokens, TLC

CONSTANTS r1, r2, r3, s1, s2, u1, p1, p2

MCRow2 == {r1, r2}
MCRow3 == {r1, r2, r3}
MCOwner == [s \in Session |-> u1]

Symmetry == Permutations(Row) \cup Permutations(Session) \cup Permutations(Req)
=============================================================================
