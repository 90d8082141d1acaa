------------------------------ MODULE MCPinTable ------------------------------
(* Instance of PinTable for TLC: four keys compete for three entries.        *)
EXTENDS PinTable, TLC

Symmetry == Permutations(Key) \cup Permutations(Model)
===============================================================================
