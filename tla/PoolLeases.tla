------------------------------ MODULE PoolLeases ------------------------------
(***************************************************************************)
(* What the in-flight counter of a model pool promises, apart from how a   *)
(* request is routed: a dispatched request holds a lease on one pool       *)
(* member until it is finished, and the load of a member is the number of  *)
(* leases on it.  PoolRouting implements this specification.               *)
(***************************************************************************)
EXTENDS Integers

CONSTANTS Request,  \* requests for one pooled model name
          Member,   \* upstream models the pool may fan out to
          None      \* no member

VARIABLES lease,    \* the member each request is dispatched to, or None
          load      \* the in-flight counter of each member

vars == <<lease, load>>

Init == /\ lease = [r \in Request |-> None]
        /\ load = [m \in Member |-> 0]

\* inflight.add(m, 1) when the request is dispatched
Take(r, m) == /\ lease[r] = None
              /\ lease' = [lease EXCEPT ![r] = m]
              /\ load' = [load EXCEPT ![m] = @ + 1]

\* the deferred inflight.add(m, -1), on whatever path the request ends
Drop(r) == /\ lease[r] # None
           /\ lease' = [lease EXCEPT ![r] = None]
           /\ load' = [load EXCEPT ![lease[r]] = @ - 1]

Next == \E r \in Request : Drop(r) \/ \E m \in Member : Take(r, m)

Spec == Init /\ [][Next]_vars
===============================================================================
