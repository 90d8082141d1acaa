------------------------------ MODULE PoolLoad ------------------------------
(* The load snapshot that a cold conversation is placed by                   *)
(* (src/internal/proxy/poolaffinity.go). One provider's instances load, work *)
(* and leave; a background probe asks which are resident and how busy those  *)
(* of one pool are; its answer is kept per provider and used by every pool   *)
(* there. An instance here has one slot. PoolRouting takes any snapshot, this  *)
(* module says which there are.                                              *)
EXTENDS Integers, Sequences, FiniteSets, SequencesExt

CONSTANTS
    Instances,    \* the provider's instances
    Lists,        \* its pools, each the sequence of its members
    FreshFor,     \* poolLoadTTL in ticks
    UsableFor,    \* poolLoadMaxAge
    ProbeTotal,   \* poolProbeTotal
    Loads,        \* what an in-flight counter may say
    Shifts        \* bound on what instances do by themselves

NotResident == 1048576                        \* 1 << 20

\* Requests in flight do not number in the millions.
ASSUME PoolLoadAssumption ==
    /\ \A list \in Lists : list \in Seq(Instances) /\ list # <<>>
    /\ {FreshFor, UsableFor, ProbeTotal, Shifts} \subseteq Nat /\ FreshFor <= UsableFor
    /\ \A n \in Loads : n \in Nat /\ n + 8 < 8 * NotResident

VARIABLES
    cond,         \* [instance -> "out", "idle" or "busy"]
    lasted,       \* [instance -> ticks it has been so]
    snap,         \* p.poolload's entry of the provider, or the empty one
    probe,        \* the background refresh: [at, list, todo, got]
    placed,       \* the placement just made: [member, why, list, load]
    shifts        \* shifts left

poolLoadVars == <<cond, lasted, snap, probe, placed, shifts>>

Long == UsableFor + 1                         \* ticks are not counted further
Later(age) == IF age = Long THEN Long ELSE age + 1

\* A snapshot: the instances asked for, those of them that are resident, those
\* whose slots were read as busy, those whose slots could not be read; its age.
NoSnapshot == [of |-> {}, ready |-> {}, busy |-> {}, unread |-> {}, age |-> Long]
NoProbe == [at |-> "idle", list |-> <<>>, todo |-> {}, got |-> NoSnapshot]
Nowhere == [why |-> "none"]

PoolLoadInit ==
    /\ cond \in [Instances -> {"out", "idle", "busy"}]
    /\ lasted = [m \in Instances |-> Long]
    /\ snap = NoSnapshot /\ probe = NoProbe /\ placed = Nowhere /\ shifts = Shifts

-----------------------------------------------------------------------------
(* The placement.                                                            *)

\* Faulty: a picture is good as long as there is one.
UsableEver(list) == snap.ready \cap ToSet(list) # {}

\* usable, and poolLoad's limit of age: some member of the pool was resident.
InUse(list) == snap.age <= UsableFor /\ snap.ready \cap ToSet(list) # {}

\* Faulty: an instance counts as idle when it is there.
ScoreResident(m, load) == IF m \in snap.ready THEN load[m] ELSE 8 * NotResident + load[m]

\* Busy slots outweigh the in-flight counter; what the snapshot does not know
\* to be resident loses to whatever it does.
Score(m, load) ==
    IF m \notin snap.ready THEN 8 * NotResident + load[m]
    ELSE IF m \in snap.busy THEN 8 + load[m] ELSE load[m]

\* The earliest of the least.
Least(list, cost) ==
    list[CHOOSE i \in DOMAIN list :
            /\ \A j \in DOMAIN list : cost[list[i]] <= cost[list[j]]
            /\ \A j \in 1..(i - 1) : cost[list[i]] < cost[list[j]]]

\* poolLoad: a picture older than the limit, or none, starts a probe unless one
\* is under way; the request does not wait for it.
Refreshed(list) ==
    IF snap.age > FreshFor /\ probe.at = "idle"
    THEN [at |-> "running", list |-> list, todo |-> {}, got |-> [NoSnapshot EXCEPT !.age = 0, !.of = ToSet(list)]]
    ELSE probe

\* pickColdMember.
PlaceCold(list, load) ==
    /\ probe' = Refreshed(list)
    /\ placed' = IF InUse(list)
                 THEN [why |-> "slots", list |-> list, load |-> load,
                       member |-> Least(list, [m \in ToSet(list) |-> Score(m, load)])]
                 ELSE [why |-> "inflight", list |-> list, load |-> load,
                       member |-> Least(list, load)]
    /\ UNCHANGED <<cond, lasted, snap, shifts>>

-----------------------------------------------------------------------------
(* The probe.                                                                *)

Goes(how) == probe' = how /\ placed' = Nowhere /\ UNCHANGED <<snap, shifts>>

\* GET /running: the members of the pool that are resident now are asked next.
AskRunning ==
    /\ probe.at = "running"
    /\ Goes([probe EXCEPT !.at = "slots", !.todo = {m \in ToSet(probe.list) : cond[m] # "out"}])
    /\ UNCHANGED <<cond, lasted>>

\* It fails: an empty picture is stored, over whatever is there.
RunningFails ==
    /\ probe.at = "running"
    /\ Goes([probe EXCEPT !.at = "store"])
    /\ UNCHANGED <<cond, lasted>>

\* The pool's first member that is still to be asked.
NextAsked ==
    LET list == probe.list
    IN  list[CHOOSE i \in DOMAIN list : list[i] \in probe.todo /\ \A j \in 1..(i - 1) : list[j] \notin probe.todo]

\* GET /upstream/<model>/slots for the next resident member. One that has left
\* since it was listed is started by the question, if that reaches the server.
AskSlots(reads) ==
    LET m == NextAsked
        note == [probe.got EXCEPT !.ready = @ \union {m},
                                  !.busy = IF reads /\ cond[m] = "busy" THEN @ \union {m} ELSE @,
                                  !.unread = IF reads THEN @ ELSE @ \union {m}]
    IN  /\ probe.at = "slots" /\ probe.todo # {}
        /\ Goes([probe EXCEPT !.todo = @ \ {m}, !.got = note])
        /\ \/ (cond[m] # "out" \/ ~reads) /\ UNCHANGED <<cond, lasted>>
           \/ /\ cond[m] = "out"
              /\ cond' = [cond EXCEPT ![m] = "idle"] /\ lasted' = [lasted EXCEPT ![m] = 0]

SlotsAsked ==
    /\ probe.at = "slots" /\ probe.todo = {}
    /\ Goes([probe EXCEPT !.at = "store"])
    /\ UNCHANGED <<cond, lasted>>

\* storePoolLoad, and then the mark of the refresh is taken away.
StoreSnapshot ==
    /\ probe.at = "store" /\ probe' = [NoProbe EXCEPT !.at = "stored"]
    /\ snap' = probe.got /\ placed' = Nowhere
    /\ UNCHANGED <<cond, lasted, shifts>>

ProbeDone == probe.at = "stored" /\ Goes(NoProbe) /\ UNCHANGED <<cond, lasted>>

-----------------------------------------------------------------------------

\* An instance is loaded, swapped out, gets to work or ends it.
Shift(m, to) ==
    /\ shifts > 0 /\ shifts' = shifts - 1 /\ cond[m] # to
    /\ cond' = [cond EXCEPT ![m] = to] /\ lasted' = [lasted EXCEPT ![m] = 0]
    /\ placed' = Nowhere /\ UNCHANGED <<snap, probe>>

\* A tick passes; the probe's context ends it in time.
TickLoad ==
    /\ probe.at \in {"running", "slots"} => probe.got.age < ProbeTotal
    /\ probe.at \notin {"store", "stored"}
    /\ lasted' = [m \in Instances |-> Later(lasted[m])]
    /\ snap' = [snap EXCEPT !.age = Later(@)]
    /\ probe' = IF probe.at = "idle" THEN probe ELSE [probe EXCEPT !.got.age = @ + 1]
    /\ placed' = Nowhere /\ UNCHANGED <<cond, shifts>>

PoolLoadNext ==
    \/ \E list \in Lists : \E load \in [ToSet(list) -> Loads] : PlaceCold(list, load)
    \/ AskRunning \/ RunningFails \/ (\E reads \in BOOLEAN : AskSlots(reads)) \/ SlotsAsked
    \/ StoreSnapshot \/ ProbeDone
    \/ \E m \in Instances, to \in {"out", "idle", "busy"} : Shift(m, to)
    \/ TickLoad

PoolLoadSpec == PoolLoadInit /\ [][PoolLoadNext]_poolLoadVars

-----------------------------------------------------------------------------

\* Whoever's probe it was, however late it came and whatever of it failed: a
\* conversation placed by the slots is not sent to an instance that has been
\* out for as long as a picture is used, nor, at equal in-flight counts, to one
\* that was busy all that time while another member the probe asked was idle
\* (pickColdMember, poolLoad, refreshPoolLoad). Slots that were not read count
\* as idle, and a member that another pool's probe did not ask as out.
PlacedBySight ==
    placed.why = "slots" =>
        /\ ~(cond[placed.member] = "out" /\ lasted[placed.member] = Long)
        /\ \A m \in ToSet(placed.list) \cap snap.of :
              /\ cond[m] = "idle" /\ lasted[m] = Long
              /\ cond[placed.member] = "busy" /\ lasted[placed.member] = Long
              /\ placed.member \notin snap.unread
              => placed.load[m] > placed.load[placed.member]
=============================================================================
