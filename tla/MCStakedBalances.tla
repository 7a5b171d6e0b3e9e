-------------------------- MODULE MCStakedBalances -------------------------
(***************************************************************************)
(* Small instances of StakedBalances.                                      *)
(***************************************************************************)
EXTENDS StakedBalances, TLC

CONSTANTS p1, p2

Symmetry == Permutations({p1, p2})

=============================================================================
