---------------------------- MODULE MCPoolRouting ----------------------------
(* Instance of PoolRouting for TLC: two members, two conversations with one  *)
(* static head, and the setting in both forms.                               *)
EXTENDS PoolRouting, TLC

CONSTANTS m1, m2, c1, c2, p1, r1, r2

MCPrefixOf == [c \in Conv |-> p1]

\* the object form, and the bare array
Affine  == [members |-> <<m1, m2>>, affinity |-> TRUE, probe |-> TRUE, failover |-> TRUE]
Legacy  == [members |-> <<m1, m2>>, affinity |-> FALSE, probe |-> FALSE, failover |-> FALSE]

MCSpecs == {Affine, Legacy}

\* the first member busy, and one on which only the second is resident
MCLoads == {[m \in Member |-> IF m = m1 THEN 1 ELSE 0],
            [m \in Member |-> IF m = m1 THEN NotResident ELSE 0]}

Symmetry == Permutations(Request)
===============================================================================
