------------------------------ MODULE PoolRouting ------------------------------
(***************************************************************************)
(* Prefix-affine routing of a pooled model (internal/proxy/poolaffinity.go,*)
(* modelpool.go) with the part of handleCore that dispatches the request,  *)
(* walks to the siblings and moves the bindings.  Requests run             *)
(* concurrently and meet in two places: the in-flight counters, read one   *)
(* by one, and the table of bindings, one locked get or put at a time.     *)
(***************************************************************************)
EXTENDS Integers, Sequences, FiniteSets

CONSTANTS Request,    \* handler goroutines
          Member,     \* upstream model names
          Conv,       \* conversations (poolConvKey)
          Prefix,     \* static heads: system prompt and tools (poolPrefixKey)
          PrefixOf,   \* the static head of each conversation
          Specs,      \* values the model_pools setting takes for this model
          Loads,      \* busy slots per member a load snapshot can show
          None,       \* no member
          Elsewhere   \* a candidate further down the chain, outside the pool

YieldDepth == 1        \* poolYieldDepth
NotResident == 2^20    \* score of a member that is not loaded upstream

\* the members a pool lists
Listed(members) == {members[i] : i \in DOMAIN members}

IsSpec(s) == /\ s.members \in Seq(Member) /\ Len(s.members) >= 2
             /\ \A i, j \in DOMAIN s.members : s.members[i] = s.members[j] => i = j
             /\ {s.affinity, s.probe, s.failover} \subseteq BOOLEAN

ASSUME PoolAssumption ==
    /\ IsFiniteSet(Request)
    /\ Conv # {} /\ Specs # {} /\ Conv \cap Prefix = {}
    /\ PrefixOf \in [Conv -> Prefix]
    /\ None \notin Member /\ Elsewhere \notin Member /\ None # Elsewhere
    /\ \A s \in Specs : IsSpec(s)
    /\ Loads \subseteq [Member -> Nat]

VARIABLES setting,    \* the pool's entry in model_pools
          inflight,   \* p.inflight
          bind,       \* poolAffinity: live binding of a key, None if there is none
          pc, turn,   \* each handler's position and locals
          scan,       \* its locals while it reads the counters
          home        \* history: the member that last answered an undisturbed turn

vars == <<setting, inflight, bind, pc, turn, scan, home>>

NoTurn == [conv |-> CHOOSE c \in Conv : TRUE, spec |-> CHOOSE s \in Specs : TRUE,
           member |-> None, at |-> None, next |-> 1, clean |-> TRUE, reply |-> "none"]

NoWeight == [m \in Member |-> 0]

\* a pass over the members' counters, towards `aim`
Scan(aim, weight, owner) ==
    [aim |-> aim, weight |-> weight, owner |-> owner, next |-> 1, best |-> None, low |-> 0]

NoScan == Scan("busy", NoWeight, None)

Active == {r \in Request : pc[r] # "idle"}
TurnsOf(c) == {r \in Active : turn[r].conv = c}
PrefKey(r) == PrefixOf[turn[r].conv]
\* faulty: the fingerprint of the static head alone
ConvKeyHeadOnly(r) == PrefixOf[turn[r].conv]
ConvKey(r) == turn[r].conv

\* boundMember: a live binding that still names a member of the pool
Bound(key, spec) == IF bind[key] \in Listed(spec.members) THEN bind[key] ELSE None

Init == /\ setting \in Specs
        /\ inflight = [m \in Member |-> 0]
        /\ bind = [k \in Conv \cup Prefix |-> None]
        /\ pc = [r \in Request |-> "idle"]
        /\ turn = [r \in Request |-> NoTurn]
        /\ scan = [r \in Request |-> NoScan]
        /\ home = [c \in Conv |-> None]

Goto(r, to) == pc' = [pc EXCEPT ![r] = to]

\* The member is chosen; the bindings come next when the pool has affinity.
Choose(r, m) ==
    /\ turn' = [turn EXCEPT ![r].member = m]
    /\ scan' = [scan EXCEPT ![r] = NoScan]
    /\ Goto(r, IF turn[r].spec.affinity THEN "pinConv" ELSE "dispatch")

-------------------------------------------------------------------------------
\* history: a second turn of a running conversation disturbs those that run
Disturb(c) == [r \in Request |-> IF r \in TurnsOf(c) THEN [turn[r] EXCEPT !.clean = FALSE]
                                                     ELSE turn[r]]

\* history: the turn will look the conversation's home up, or leave it alone
KeepsHome(c) == /\ TurnsOf(c) = {}
                /\ setting.affinity => home[c] \in Listed(setting.members)

\* The request arrives and poolSpecFor reads the setting.
Arrive(r, c) ==
    /\ pc[r] = "idle"
    /\ turn' = [Disturb(c) EXCEPT
                  ![r] = [NoTurn EXCEPT !.conv = c, !.spec = setting,
                                        !.clean = (TurnsOf(c) = {})]]
    /\ Goto(r, IF setting.affinity THEN "conv" ELSE "scan")
    /\ home' = IF KeepsHome(c) THEN home ELSE [home EXCEPT ![c] = None]
    /\ UNCHANGED <<setting, inflight, bind, scan>>

\* first look-up: the conversation's own binding never yields to load
LookupConv(r) ==
    LET m == Bound(ConvKey(r), turn[r].spec)
    IN /\ pc[r] = "conv"
       /\ \/ m # None /\ Choose(r, m)
          \/ m = None /\ Goto(r, "prefix") /\ UNCHANGED <<turn, scan>>
       /\ UNCHANGED <<setting, inflight, bind, home>>

\* second look-up: the owner of the static prefix, unless it is deeper in work
LookupPrefix(r) ==
    LET m == Bound(PrefKey(r), turn[r].spec)
    IN /\ pc[r] = "prefix"
       /\ \/ m = None /\ Goto(r, "cold") /\ UNCHANGED scan
          \/ /\ m # None
             /\ scan' = [scan EXCEPT ![r] = Scan("yield", NoWeight, m)]
             /\ Goto(r, "scan")
       /\ UNCHANGED <<setting, inflight, bind, turn, home>>

\* pickColdMember: weigh the members by a usable load snapshot, if there is one
Usable(load, spec) == \E m \in Listed(spec.members) : load[m] < NotResident

ColdStart(r) ==
    /\ pc[r] = "cold"
    /\ \/ scan' = [scan EXCEPT ![r] = Scan("cold", NoWeight, None)]
       \/ \E load \in Loads :
            /\ turn[r].spec.probe /\ Usable(load, turn[r].spec)
            /\ scan' = [scan EXCEPT ![r] = Scan("cold", load, None)]
    /\ Goto(r, "scan")
    /\ UNCHANGED <<setting, inflight, bind, turn, home>>

\* one counter is read: strictly less wins, a tie keeps the earlier member
Lighter(cost, s) == s.best = None \/ cost < s.low

ScanOne(r) ==
    LET s == scan[r]
        m == turn[r].spec.members[s.next]
        cost == s.weight[m] * 8 + inflight[m]
    IN /\ pc[r] = "scan" /\ s.next <= Len(turn[r].spec.members)
       /\ scan' = [scan EXCEPT ![r] = [s EXCEPT !.next = s.next + 1,
                                                !.best = IF Lighter(cost, s) THEN m ELSE @,
                                                !.low = IF Lighter(cost, s) THEN cost ELSE @]]
       /\ UNCHANGED <<setting, inflight, bind, home, pc, turn>>

ScanEnd(r) ==
    /\ pc[r] = "scan" /\ scan[r].next > Len(turn[r].spec.members)
    /\ \/ scan[r].aim = "yield" /\ Goto(r, "near") /\ UNCHANGED <<turn, scan>>
       \/ scan[r].aim # "yield" /\ Choose(r, scan[r].best)
    /\ UNCHANGED <<setting, inflight, bind, home>>

\* poolDeeperThanSiblings reads the winner's counter again, then the owner's
ReadNear(r) ==
    /\ pc[r] = "near"
    /\ scan' = [scan EXCEPT ![r].low = inflight[scan[r].best]]
    /\ Goto(r, "far")
    /\ UNCHANGED <<setting, inflight, bind, turn, home>>

Deeper(r) == inflight[scan[r].owner] - scan[r].low >= YieldDepth

ReadFar(r) ==
    /\ pc[r] = "far"
    /\ \/ Deeper(r) /\ Goto(r, "cold") /\ UNCHANGED <<turn, scan>>
       \/ ~Deeper(r) /\ Choose(r, scan[r].owner)
    /\ UNCHANGED <<setting, inflight, bind, home>>

-------------------------------------------------------------------------------
\* the conversation's binding is refreshed on every turn
PinConv(r) ==
    /\ pc[r] = "pinConv"
    /\ bind' = [bind EXCEPT ![ConvKey(r)] = turn[r].member]
    /\ Goto(r, "seePrefix")
    /\ UNCHANGED <<setting, inflight, turn, scan, home>>

\* the prefix is bound only when it is not: a look, then a separate put
SeePrefix(r) ==
    /\ pc[r] = "seePrefix"
    /\ Goto(r, IF Bound(PrefKey(r), turn[r].spec) = None THEN "pinPrefix" ELSE "dispatch")
    /\ UNCHANGED <<setting, inflight, bind, turn, scan, home>>

PinPrefix(r) ==
    /\ pc[r] = "pinPrefix"
    /\ bind' = [bind EXCEPT ![PrefKey(r)] = turn[r].member]
    /\ Goto(r, "dispatch")
    /\ UNCHANGED <<setting, inflight, turn, scan, home>>

\* othersThan: from position i on, the first that is not the picked member's
SkipPicked(t, i) ==
    IF i <= Len(t.spec.members) /\ t.spec.members[i] = t.member THEN i + 1 ELSE i

\* where the retry candidates start: the siblings, if the pool offers them
FirstSibling(t) == IF t.spec.failover THEN SkipPicked(t, 1) ELSE Len(t.spec.members) + 1

Dispatch(r) ==
    /\ pc[r] = "dispatch"
    /\ inflight' = [inflight EXCEPT ![turn[r].member] = @ + 1]
    /\ turn' = [turn EXCEPT ![r].at = turn[r].member, ![r].next = FirstSibling(turn[r])]
    /\ Goto(r, "attempt")
    /\ UNCHANGED <<setting, bind, scan, home>>

-------------------------------------------------------------------------------
\* history: a member answered an undisturbed turn of an affinity pool
Settles(t) == t.clean /\ t.spec.affinity /\ t.at \in Member

\* faulty: the binding stays on the member that failed
RebindsNever(t) == FALSE
\* pooled.rebind is called when a sibling's response is used
Rebinds(t) == t.at \in Member /\ t.at # t.member /\ t.spec.affinity

\* The candidate at hand responds and the chain stops: a completion ("ok"), or
\* a 4xx that is no reason to move on ("error") and is passed to the client.
Answer(r, reply) ==
    /\ pc[r] = "attempt"
    /\ turn' = [turn EXCEPT ![r].reply = reply]
    /\ Goto(r, IF Rebinds(turn[r]) THEN "rebindConv" ELSE "relay")
    /\ home' = IF Settles(turn[r]) THEN [home EXCEPT ![turn[r].conv] = turn[r].at] ELSE home
    /\ UNCHANGED <<setting, inflight, bind, scan>>

RebindConv(r) ==
    /\ pc[r] = "rebindConv"
    /\ bind' = [bind EXCEPT ![ConvKey(r)] = turn[r].at]
    /\ Goto(r, "rebindPrefix")
    /\ UNCHANGED <<setting, inflight, turn, scan, home>>

RebindPrefix(r) ==
    /\ pc[r] = "rebindPrefix"
    /\ bind' = [bind EXCEPT ![PrefKey(r)] = turn[r].at]
    /\ Goto(r, "relay")
    /\ UNCHANGED <<setting, inflight, turn, scan, home>>

\* The candidate is down, overloaded or out of quota: the next sibling in the
\* pool's order, then whatever the chain holds outside the pool.
TryNext(r) ==
    LET t == turn[r]
    IN /\ pc[r] = "attempt" /\ t.at # Elsewhere
       /\ \/ /\ t.next <= Len(t.spec.members)
             /\ turn' = [turn EXCEPT ![r].at = t.spec.members[t.next],
                                     ![r].next = SkipPicked(t, t.next + 1)]
          \/ /\ t.next > Len(t.spec.members)
             /\ turn' = [turn EXCEPT ![r].at = Elsewhere]
       /\ UNCHANGED <<setting, inflight, bind, pc, scan, home>>

\* faulty: the member that served is released instead
ReleasedServing(t) == IF t.at \in Member THEN t.at ELSE t.member
\* the deferred decrement names the member picked at dispatch, whoever served
Released(t) == t.member

Finish(r) ==
    /\ inflight' = [inflight EXCEPT ![Released(turn[r])] = @ - 1]
    /\ turn' = [turn EXCEPT ![r] = NoTurn]
    /\ Goto(r, "idle")
    /\ UNCHANGED <<setting, bind, scan, home>>

\* the response has been relayed, or the client left while it was
Relayed(r) == pc[r] = "relay" /\ Finish(r)

\* faulty: the early return skips the decrement
GiveUpLeaking(r) == /\ pc[r] = "attempt"
                    /\ turn' = [turn EXCEPT ![r] = NoTurn]
                    /\ Goto(r, "idle")
                    /\ UNCHANGED <<setting, inflight, bind, scan, home>>
\* every candidate failed (502), or the client is gone during an attempt
GiveUp(r) == pc[r] = "attempt" /\ Finish(r)

-------------------------------------------------------------------------------
\* the operator edits model_pools
Reconfigure == /\ setting' \in Specs \ {setting}
               /\ UNCHANGED <<inflight, bind, pc, turn, scan, home>>

\* A binding's life ends: it outlived poolAffinityTTL or was evicted from a full
\* table (module PinTable, which also has the restarts).
Forget(k) ==
    /\ bind[k] # None
    /\ bind' = [bind EXCEPT ![k] = None]
    /\ home' = [c \in Conv |-> IF c = k THEN None ELSE home[c]]
    /\ turn' = Disturb(k)
    /\ UNCHANGED <<setting, inflight, pc, scan>>

Route(r) == \/ LookupConv(r) \/ LookupPrefix(r) \/ ColdStart(r) \/ ScanOne(r) \/ ScanEnd(r)
            \/ ReadNear(r) \/ ReadFar(r) \/ PinConv(r) \/ SeePrefix(r) \/ PinPrefix(r)
            \/ Dispatch(r)

Serve(r) == \/ \E reply \in {"ok", "error"} : Answer(r, reply)
            \/ RebindConv(r) \/ RebindPrefix(r) \/ TryNext(r) \/ Relayed(r) \/ GiveUp(r)

Next == \/ \E r \in Request : \/ \E c \in Conv : Arrive(r, c)
                              \/ Route(r)
                              \/ Serve(r)
        \/ Reconfigure
        \/ \E k \in Conv \cup Prefix : Forget(k)

Spec == Init /\ [][Next]_vars

-------------------------------------------------------------------------------
Positions == {"idle", "conv", "prefix", "scan", "near", "far", "cold", "pinConv",
              "seePrefix", "pinPrefix", "dispatch", "attempt", "rebindConv",
              "rebindPrefix", "relay"}

Holding == {"attempt", "rebindConv", "rebindPrefix", "relay"}
Placed == Holding \cup {"pinConv", "seePrefix", "pinPrefix", "dispatch"}

\* the member a request is counted on
LeaseOf(r) == IF pc[r] \in Holding THEN turn[r].member ELSE None

Turn == [conv : Conv, spec : Specs, member : Member \cup {None},
         at : Member \cup {None, Elsewhere}, next : Nat, clean : BOOLEAN,
         reply : {"none", "ok", "error"}]

Scans == [aim : {"busy", "yield", "cold"}, weight : [Member -> Nat],
          owner : Member \cup {None}, next : Nat, best : Member \cup {None}, low : Int]

\* Every variable has its type, and a request past the choice has a member.
TypeOK == /\ setting \in Specs
          /\ inflight \in [Member -> Int]
          /\ bind \in [Conv \cup Prefix -> Member \cup {None}]
          /\ pc \in [Request -> Positions]
          /\ turn \in [Request -> Turn]
          /\ scan \in [Request -> Scans]
          /\ \A r \in Request : pc[r] \in Placed => turn[r].member \in Member
          /\ home \in [Conv -> Member \cup {None}]

HeldBy(m) == {r \in Request : LeaseOf(r) = m}

\* The counter of a member is the number of requests dispatched to it and not
\* finished, on every path: answered, failed over, given up, client gone.
CountsHeld == \A m \in Member : inflight[m] = Cardinality(HeldBy(m))

Chosen == {"pinConv", "seePrefix", "pinPrefix", "dispatch", "attempt"}

\* poolaffinity.go:30: the same conversation always returns to the instance that
\* holds its KV.  A turn no other turn of its conversation overlaps is sent to
\* the member that answered the last such turn, whatever the counters, the
\* setting's order and the other conversations did meanwhile.
ReturnsHome ==
    \A r \in Request :
        /\ pc[r] \in Chosen /\ turn[r].clean /\ turn[r].spec.affinity
        /\ home[turn[r].conv] # None
        => turn[r].member = home[turn[r].conv]

\* Between turns the binding names the member that answered last, also when that
\* was a sibling: the next turn does not pay the failed round trip again.
BoundToHome == \A c \in Conv : home[c] # None /\ TurnsOf(c) = {} => bind[c] = home[c]

Leases == INSTANCE PoolLeases
            WITH lease <- [r \in Request |-> LeaseOf(r)], load <- inflight

\* The dispatch accounting implements PoolLeases: the in-flight counters are loads,
\* the requests between their dispatch and their end hold the leases.
LeaseSpec == Leases!Spec

-------------------------------------------------------------------------------
(* What the comments say and the code does not do.                         *)

WorkingOn(m) == {r \in Request : pc[r] \in Holding /\ turn[r].at = m}

\* modelpool.go:31: inflight counts the requests currently dispatched to each
\* upstream model, so a member's count is the requests it is working on.
CountsWork == \A m \in Member : inflight[m] = Cardinality(WorkingOn(m))

\* poolaffinity.go:197: rebind moves the conversation's binding to the member
\* that actually served it, so a binding is never moved onto a member whose
\* reply to this turn was an error.
RebindsToServer ==
    [][\A r \in Request : pc[r] = "rebindConv" /\ pc'[r] # pc[r]
            => turn[r].reply = "ok"]_vars
===============================================================================
