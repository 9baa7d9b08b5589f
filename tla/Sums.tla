-------------------------------- MODULE Sums --------------------------------
(***************************************************************************)
(* Sums over finite sets.  MapThenSumSet of the community modules takes an *)
(* operator; here the summands are a function, so that what a sum is can   *)
(* be proved.                                                              *)
(***************************************************************************)
EXTENDS Integers

(* The sum of f[x] for x in S. *)
SumOver(f, S) ==
  LET sum[T \in SUBSET S] ==
        IF T = {} THEN 0
        ELSE LET x == CHOOSE x \in T : TRUE IN f[x] + sum[T \ {x}]
  IN sum[S]
=============================================================================
