----------------------------- MODULE MCPettyCash -----------------------------
(***************************************************************************)
(* Two petty cashes that neither, one or both together can pay a cost;     *)
(* amounts and prices above, at and below 0.                               *)
(***************************************************************************)
EXTENDS PettyCash

CONSTANTS c1, c2, k1, k2, t1, t2

mcAmounts == {-1, 0, 2}
mcPrices  == {-1, 1, 3}

Symmetry == Permutations({c1, c2}) \cup Permutations({k1, k2})
            \cup Permutations({t1, t2})
=============================================================================
