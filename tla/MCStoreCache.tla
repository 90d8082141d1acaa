---------------------------- MODULE MCStoreCache ----------------------------
(* Instance of StoreCache for TLC: one setting and one transform, the tables *)
(* reload queries second and third.                                          *)
EXTENDS StoreCache, TLC

CONSTANTS k, t, g1, g2

MCTables  == <<"settings", "transforms">>
MCTableOf == (k :> "settings") @@ (t :> "transforms")

\* enough for a write that overtakes another of the same row
Twice == (k :> 1) @@ (t :> 2)
Once  == (k :> 1) @@ (t :> 1)

Symmetry == Permutations(Goroutine)
===============================================================================
