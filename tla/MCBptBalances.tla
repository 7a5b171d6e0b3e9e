--------------------------- MODULE MCBptBalances ----------------------------
(***************************************************************************)
(* Small instances of BptBalances.                                         *)
(***************************************************************************)
EXTENDS BptBalances, TLC

CONSTANTS r1, r2, p1, p2

\* Both rows belong to one pool, or the second one to a pool that is added.
OnePool == [r \in {r1, r2} |-> "old"]
NewPool == [r \in {r1, r2} |-> IF r = r1 THEN "old" ELSE "new"]

\* What a state is without the blocks that a run has set and will not read any more.
Locals(p) ==
    CASE pc[p] = "commit" -> [run[p] EXCEPT !.from = 0]
      [] pc[p] = "rpc" -> [run[p] EXCEPT !.from = 0, !.end = 0]
      [] OTHER -> run[p]

WithoutUsed == <<chainVars, dbVars, pc, [p \in Processes |-> Locals(p)]>>

Symmetry == Permutations({r1, r2}) \cup Permutations({p1, p2})

=============================================================================
