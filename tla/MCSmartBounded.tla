---------------------------- MODULE MCSmartBounded ----------------------------
(***************************************************************************)
(* SmartRouter for so many turns, and so many changes of the world, lapses *)
(* and expiries; seeds, decisions and answers are not counted.             *)
(***************************************************************************)
EXTENDS MCSmartRouter

CONSTANTS MaxTurns, MaxChanges
VARIABLES turns, changes
BoundedNext ==
    \/ /\ turns < MaxTurns
       /\ \E r \in Req, c \in Conv, size \in Size, image \in BOOLEAN, grade \in Grades :
            Begin(r, c, size, image, grade)
       /\ turns' = turns + 1
       /\ UNCHANGED changes
    \/ /\ \/ \E r \in Req : Decide(r) \/ \E answered \in BOOLEAN : Finish(r, answered)
          \/ SeedNext(world.ready) /\ UNCHANGED routerVars
       /\ UNCHANGED <<turns, changes>>
    \/ /\ changes < MaxChanges
       /\ \/ Shift \/ HealthLapses
          \/ \E p \in LlamaSwap : ViewLapses(p) \/ SlotsLapse(p)
          \/ \E c \in Conv : PinExpires(c)
          \/ \E k \in Conv \cup Prefix : BindingExpires(k)
       /\ changes' = changes + 1
       /\ UNCHANGED turns
Bounded == /\ Init /\ turns = 0 /\ changes = 0
           /\ [][BoundedNext]_<<vars, turns, changes>>
===============================================================================
