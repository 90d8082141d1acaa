----------------------------- MODULE SmartRouter ------------------------------
(***************************************************************************)
(* The smart auto-router (internal/proxy/smartroute.go): a request is      *)
(* graded, the candidates of its tier are judged by cached facts about     *)
(* them, the first of the best is chosen, and the conversation is pinned   *)
(* to it.  Turns overlap: the pin is read before the grading call and the  *)
(* probes, and written after them.                                         *)
(***************************************************************************)
EXTENDS KvxSeed, Sequences, SequencesExt

CONSTANTS Req,         \* request goroutines
          Conv, Model,
          HeadOf,      \* the static head of each conversation
          Role,        \* the tier roleTier gives it, None if it has none
          Fork,        \* the conversations of forked agents
          Grades,      \* what the classifier or the heuristic may answer
          Lists,       \* the tiers and "vision": sequences of entries, each the
                       \* sequence of the models it names, by name
          ProviderOf,
          LlamaSwap,   \* providers that answer /running
          Forced,      \* those of them listed in local_providers
          Members,     \* the runtimes of a local model or pool, <<>> for the others
          Pools,       \* the names of pools among the models
          Window, Sighted,
          Size, Est,   \* real prompt sizes, and what estTokens makes of them
          Images,      \* conversations that may carry a picture
          HeadSize, LocalMax, Budget, \* in the unit of the sizes
          Shaky,       \* bound on the facts that change: a World
          Default,     \* the route when nothing qualifies
          None

ASSUME RouterAssumption ==
    /\ {HeadOf[c] : c \in Conv} \subseteq Prefix
    /\ \A m \in Model : ProviderOf[m] \in LlamaSwap <=> Members[m] # <<>>
    /\ {Default, None} \cap (Model \cup Instance) = {}
    /\ \A l \in DOMAIN Lists : Lists[l] \in Seq(Seq(Model))

VARIABLES req,     \* the turns in flight
          pin,     \* routeCache: the live pins
          bound,   \* poolAffinity: conversations and heads
          tokens,  \* convTokens: the provider's count of the last turn
          world,   \* external: what the probes and the traces would say now
          view,    \* p.running: what they said, while the cache holds
          health,  \* p.health
          last     \* history: where the last turn that ran alone went

routerVars == <<req, pin, bound, tokens, world, view, health, last>>
vars == <<routerVars, seedVars>>

Tiers == <<"routine", "careful", "hard">>
Tier == ToSet(Tiers) \cup {"vision"}
Pin == [model : Model, tier : Tier]
World == [ready : SUBSET Instance, full : SUBSET Instance, mute : SUBSET LlamaSwap,
          sick : SUBSET Model, served : SUBSET Model]
Routed == [at : {"routed"}, conv : Conv, real : Size, size : Size \cup Range(Est),
           billed : Size \cup {0}, image : BOOLEAN, tier : Tier,
           pinned : Model \cup {None}, alone : BOOLEAN]
Sent == [at : {"sent"}, conv : Conv, real : Size, billed : Size \cup {0}, image : BOOLEAN,
         chosen : Model \cup {Default}, miss : Instance \cup {None},
         yielded : BOOLEAN]
Free == [at |-> "free"]

ASSUME RangesAssumption ==
    /\ \A m \in Model : Members[m] \in Seq(Instance)
    /\ \A c \in Conv : Role[c] \in Tier \cup {None}
    /\ Grades \subseteq Tier /\ Shaky \in World
    /\ Size \subseteq Nat /\ Est \in [Size -> Nat]

TypeOK ==
    /\ SeedTypeOK
    /\ req \in [Req -> Routed \cup Sent \cup {Free}]
    /\ pin \in [Conv -> Pin \cup {None}]
    /\ bound \in [Conv \cup Prefix -> Instance \cup Model \cup {None}]
    /\ tokens \in [Conv -> Size \cup {0}]
    /\ world \in World
    /\ health \in (SUBSET Model) \cup {None}
    /\ last \in [Conv -> Model \cup {None}]

Init == /\ SeedInit
        /\ req = [r \in Req |-> Free]
        /\ pin = [c \in Conv |-> None]
        /\ bound = [k \in Conv \cup Prefix |-> None]
        /\ tokens = [c \in Conv |-> 0]
        /\ world = [ready |-> Instance, full |-> {}, mute |-> {}, sick |-> {}, served |-> Model]
        /\ view = [p \in LlamaSwap |-> None]
        /\ health = None
        /\ last = [c \in Conv |-> None]

-------------------------------------------------------------------------------
\* Facts: what describe finds out about a candidate

\* runningFor: the snapshot while it is fresh, else a probe
Probe(p) == IF p \in world.mute THEN [supported |-> FALSE, ready |-> {}, slots |-> {}]
            ELSE [supported |-> TRUE, ready |-> world.ready, slots |-> {}]
Running(p) == IF view[p] = None THEN Probe(p) ELSE view[p]

\* slotsFor: <<instance, full>> for the resident members that answer
Slots(p, asks) ==
    LET run == Running(p)
        new == {i \in asks \cap run.ready : \A s \in run.slots : s[1] # i}
    IN [run EXCEPT !.slots = @ \cup IF p \in world.mute THEN {}
                                    ELSE {<<i, i \in world.full>> : i \in new}]

MembersOf(m) == ToSet(Members[m])
View(models) == [p \in LlamaSwap |->
                   LET own == {m \in models : ProviderOf[m] = p}
                   IN IF own = {} THEN view[p] ELSE Slots(p, UNION {MembersOf(m) : m \in own})]

Snap(v, m) == v[ProviderOf[m]]

\* isLocalProvider
Local(v, m) == /\ ProviderOf[m] \in LlamaSwap
               /\ ProviderOf[m] \in Forced \/ Snap(v, m).supported
Warm(v, m) == Snap(v, m).supported /\ Snap(v, m).ready \cap MembersOf(m) # {}
Cold(v, m) == Snap(v, m).supported /\ ~Warm(v, m)
Busy(v, m) == LET seen == {s \in Snap(v, m).slots : s[1] \in MembersOf(m)}
              IN seen # {} /\ \A s \in seen : s[2]

\* prefixKnownOn
PrefixKnown(c, m) == bound[c] \in MembersOf(m) \/ bound[HeadOf[c]] \in MembersOf(m)

Need(n) == (n * 11) \div 10
Fits(n, m) == Need(n) <= Window[m]

\* probeCandidates: an artifact of the daemon leaves only the rest to prefill
Covered(q, v, m) == /\ Warm(v, m) /\ Fits(q.size, m)
                    /\ <<HeadOf[q.conv], Members[m][1]>> \in held
                    /\ q.size - HeadSize <= Budget

ColdPrefill(q, v, m) == /\ ~PrefixKnown(q.conv, m)
                        /\ q.size > Budget
                        /\ ~Covered(q, v, m)

-------------------------------------------------------------------------------
\* faulty: the prompt is compared with the window without the headroom
UnfitWithoutHeadroom(q, v, m) ==
    \/ m \notin world.served
    \/ q.image /\ m \notin Sighted
    \/ q.size > Window[m]
    \/ Local(v, m) /\ q.size > LocalMax
\* judge: what rules a candidate out
Unfit(q, v, m) == \/ m \notin world.served
                  \/ q.image /\ m \notin Sighted
                  \/ ~Fits(q.size, m)
                  \/ Local(v, m) /\ q.size > LocalMax

\* judge: 9 is ruled out, the others rank how bad a candidate looks
Soft(q, v, sick, m) ==
    IF Unfit(q, v, m) THEN 9
    ELSE IF m \in sick THEN 4
    ELSE IF Local(v, m) /\ Cold(v, m) THEN 3
    ELSE IF Local(v, m) /\ Busy(v, m) THEN 2
    ELSE IF Local(v, m) /\ ColdPrefill(q, v, m) THEN 1
    ELSE 0

\* tierList: the list of the tier, of the next harder one, of the next easier
Level(tier) == IF \E i \in 1..3 : Tiers[i] = tier
               THEN CHOOSE i \in 1..3 : Tiers[i] = tier ELSE 1
ListedTier(tier) ==
    LET full == {i \in 1..3 : Lists[Tiers[i]] # <<>>}
        harder == {i \in full : i >= Level(tier)}
    IN IF harder # {} THEN Tiers[Min(harder)]
       ELSE IF full # {} THEN Tiers[Max(full)] ELSE tier
ListFor(q) == IF q.image /\ Lists["vision"] # <<>> THEN "vision" ELSE ListedTier(q.tier)
Entries(list) == IF list \in DOMAIN Lists THEN Lists[list] ELSE <<>>

\* The walk over the list: the first candidate nothing in it looks better than
Best(cands, soft) ==
    LET fit == {i \in DOMAIN cands : soft[cands[i]] # 9}
        least == {i \in fit : \A j \in fit : soft[cands[i]] <= soft[cands[j]]}
    IN IF fit = {} THEN None ELSE cands[Min(least)]

\* faulty: a pin is kept whatever its model looks like
PinKeptAlways(q, v, sick) == q.pinned # None
\* the fast path: a pinned model that is viable, dear to prefill or busy is kept
PinKept(q, v, sick) == q.pinned # None /\ Soft(q, v, sick, q.pinned) <= 2

\* faulty: any local candidate ends the search, not only a local winner
LosersOfCloud(q, v, sick, cands, winner) ==
    IF q.conv \in Fork \/ winner = None \/ \E i \in DOMAIN cands : Local(v, cands[i])
    THEN {} ELSE {Members[m][1] : m \in {n \in ToSet(cands) : Soft(q, v, sick, n) = 1}}
\* seedColdLosers: the warm local candidate that lost first on its cold prefill
\* to a model that is not local; a forked agent's head is not worth it
Yields(q, v, sick, m, winner) == m # winner /\ Soft(q, v, sick, m) = 1 /\ Warm(v, m)
Losers(q, v, sick, cands, winner) ==
    IF q.conv \in Fork \/ winner = None THEN {}
    ELSE IF Local(v, winner) THEN {}
    ELSE LET lost == {i \in DOMAIN cands : Yields(q, v, sick, cands[i], winner)}
         IN IF lost = {} THEN {} ELSE {Members[cands[Min(lost)]][1]}

\* rememberPrefix looks at the first candidate only, and binds the head to the
\* winner's name when that is the one
First(list) == LET named == {i \in DOMAIN Entries(list) : Entries(list)[i] # <<>>}
               IN IF named = {} THEN {} ELSE ToSet(Entries(list)[Min(named)])
Remembers(q, v, winner, kept, list) ==
    /\ winner # None
    /\ kept \/ winner \in First(list)
    /\ Local(v, winner)
    /\ ~PrefixKnown(q.conv, winner)
    /\ kept \/ ~(q.size > Budget /\ Covered(q, v, winner))
NameOf(m) == IF m \in Pools THEN m ELSE Members[m][1]

\* Where the pool or the runtime binds the turn (routePool, kvxUnpooledWhy):
\* the conversation's own member first; a head that no member owns is taken.
Seats(c, m) == IF MembersOf(m) = {} THEN {None}
               ELSE IF bound[c] \in MembersOf(m) THEN {bound[c]} ELSE MembersOf(m)
Bindings(c, m, i, known) ==
    [known EXCEPT ![c] = i,
                  ![HeadOf[c]] = IF m \in Pools /\ @ \notin MembersOf(m) THEN i ELSE @]

-------------------------------------------------------------------------------
\* faulty: the provider's count is forgotten
SizeEstimated(c, size) == Est[size]
\* knownConvTokens: the provider's count of the last turn beats the estimate
SizeOf(c, size) == Max({Est[size], tokens[c]})

\* a pin of another grade than the role's is dropped
PinOf(c) == IF pin[c] = None \/ (Role[c] # None /\ pin[c].tier # Role[c])
            THEN None ELSE pin[c].model

\* smartRoute up to the grading call: profile, pin, role
Begin(r, c, size, image, grade) ==
    /\ req[r].at = "free"
    /\ image => c \in Images
    /\ LET tier == IF Role[c] # None THEN Role[c]
                   ELSE IF pin[c] # None THEN pin[c].tier ELSE grade
           others == {o \in Req : req[o].at = "routed" /\ req[o].conv = c}
           turn == [at |-> "routed", conv |-> c, size |-> SizeOf(c, size), real |-> size,
                    billed |-> tokens[c], image |-> image, tier |-> tier,
                    pinned |-> PinOf(c), alone |-> others = {}]
       IN req' = [o \in Req |-> IF o = r THEN turn
                                ELSE IF o \in others THEN [req[o] EXCEPT !.alone = FALSE]
                                ELSE req[o]]
    /\ UNCHANGED <<pin, bound, tokens, world, view, health, last, seedVars>>

\* faulty: a conversation that moves keeps its old pin
PutsFirst(q, winner) == winner # None /\ q.pinned = None
Puts(q, winner) == winner # None /\ winner # q.pinned

\* the rest of smartRoute, and handleCore up to the dispatch
Decide(r) ==
    LET q == req[r]
        sick == IF health = None THEN world.sick ELSE health
        list == ListFor(q)
        cands == FlattenSeq(Entries(list))
        kept == PinKept(q, View({q.pinned} \cap Model), sick)
        v == View(({q.pinned} \cap Model) \cup IF kept THEN {} ELSE ToSet(cands))
        winner == IF kept THEN q.pinned
                  ELSE Best(cands, [m \in ToSet(cands) |-> Soft(q, v, sick, m)])
        seed == IF kept THEN {} ELSE Losers(q, v, sick, cands, winner)
        known == IF Remembers(q, v, winner, kept, list)
                 THEN [bound EXCEPT ![HeadOf[q.conv]] = NameOf(winner)] ELSE bound
    IN /\ q.at = "routed"
       /\ view' = v
       /\ health' = sick
       /\ pin' = IF Puts(q, winner)
                 THEN [pin EXCEPT ![q.conv] = [model |-> winner, tier |-> list]] ELSE pin
       /\ IF seed = {} THEN UNCHANGED seedVars
          ELSE \E i \in seed : AutoSeed(<<HeadOf[q.conv], i>>)
       /\ \E i \in IF winner = None THEN {None} ELSE Seats(q.conv, winner) :
            /\ bound' = IF i = None THEN known ELSE Bindings(q.conv, winner, i, known)
            /\ req' = [req EXCEPT ![r] =
                 [at |-> "sent", conv |-> q.conv, real |-> q.real, billed |-> q.billed,
                  image |-> q.image, chosen |-> IF winner = None THEN Default ELSE winner,
                  miss |-> IF bound[q.conv] = i \/ <<HeadOf[q.conv], i>> \in held
                           THEN None ELSE i,
                  yielded |-> /\ ~kept /\ winner # None /\ ~Local(v, winner)
                              /\ \E m \in ToSet(cands) : Yields(q, v, sick, m, winner)]]
       /\ last' = [last EXCEPT ![q.conv] = IF q.alone THEN winner ELSE None]
       /\ UNCHANGED <<tokens, world>>

\* The turn ends: an answer brings the provider's count, under the tag only the
\* router's own note carries, and seeds a head that missed.
Finish(r, answered) ==
    LET q == req[r]
    IN /\ q.at = "sent"
       /\ req' = [req EXCEPT ![r] = Free]
       /\ tokens' = IF answered /\ q.chosen # Default
                    THEN [tokens EXCEPT ![q.conv] = q.real] ELSE tokens
       /\ IF answered /\ q.miss # None THEN AutoSeed(<<HeadOf[q.conv], q.miss>>)
          ELSE UNCHANGED seedVars
       /\ UNCHANGED <<pin, bound, world, view, health, last>>

-------------------------------------------------------------------------------
\* What changes without the router: the runtimes load, fill and fall silent,
\* traces make a model look sick, a listing drops it.  External.
Flip(set, e) == IF e \in set THEN set \ {e} ELSE set \cup {e}
Shift == /\ \/ \E i \in Shaky.ready : world' = [world EXCEPT !.ready = Flip(@, i)]
            \/ \E i \in Shaky.full : world' = [world EXCEPT !.full = Flip(@, i)]
            \/ \E p \in Shaky.mute : world' = [world EXCEPT !.mute = Flip(@, p)]
            \/ \E m \in Shaky.sick : world' = [world EXCEPT !.sick = Flip(@, m)]
            \/ \E m \in Shaky.served : world' = [world EXCEPT !.served = Flip(@, m)]
         /\ UNCHANGED <<req, pin, bound, tokens, view, health, last, seedVars>>

\* The caches outlive their times, each on its own.
ViewLapses(p) == /\ view[p] # None
                 /\ view' = [view EXCEPT ![p] = None]
                 /\ UNCHANGED <<req, pin, bound, tokens, world, health, last, seedVars>>
SlotsLapse(p) == /\ view[p] # None /\ view[p].slots # {}
                 /\ view' = [view EXCEPT ![p].slots = {}]
                 /\ UNCHANGED <<req, pin, bound, tokens, world, health, last, seedVars>>
HealthLapses == /\ health # None
                /\ health' = None
                /\ UNCHANGED <<req, pin, bound, tokens, world, view, last, seedVars>>
PinExpires(c) == /\ pin[c] # None
                 /\ pin' = [pin EXCEPT ![c] = None]
                 /\ UNCHANGED <<req, bound, tokens, world, view, health, last, seedVars>>
BindingExpires(k) == /\ bound[k] # None
                     /\ bound' = [bound EXCEPT ![k] = None]
                     /\ UNCHANGED <<req, pin, tokens, world, view, health, last, seedVars>>

Next == \/ \E r \in Req, c \in Conv, size \in Size, image \in BOOLEAN, grade \in Grades :
             Begin(r, c, size, image, grade)
        \/ \E r \in Req : Decide(r) \/ \E answered \in BOOLEAN : Finish(r, answered)
        \/ Shift \/ HealthLapses
        \/ \E p \in LlamaSwap : ViewLapses(p) \/ SlotsLapse(p)
        \/ \E c \in Conv : PinExpires(c)
        \/ \E k \in Conv \cup Prefix : BindingExpires(k)
        \/ SeedNext(world.ready) /\ UNCHANGED routerVars

\* A seed ends: its call has a deadline.  The slot comes round to everyone who
\* waits, a window ends, and a daemon that is asked again and again seeds in the
\* end.  Nothing is assumed of the clients or of the turns.
Fairness == /\ \A k \in SeedKey : SF_vars(TakeSlot(k) /\ UNCHANGED routerVars)
                                /\ WF_vars(Lapse(k) /\ UNCHANGED routerVars)
                                /\ SF_vars(seeding = k /\ Seeded(world.ready) /\ UNCHANGED routerVars)
            /\ WF_vars((Declined \/ SeedFails) /\ UNCHANGED routerVars)

Spec == Init /\ [][Next]_vars /\ Fairness

-------------------------------------------------------------------------------
\* A turn the router placed went to a model that is able to take it, by what was
\* known when it was placed: the picture is seen, and the size the provider
\* counted on the conversation's last turn, not the estimate, fits the window
\* with the headroom.  Sticky turns of a conversation that grew included.
Capable == \A r \in Req :
    req[r].at = "sent" /\ req[r].chosen # Default =>
        /\ req[r].image => req[r].chosen \in Sighted
        /\ Fits(Max({Est[req[r].real], req[r].billed}), req[r].chosen)

\* Whether a model would be kept by a turn that decides now.
Usable(q, m) == Soft(q, View({m}), IF health = None THEN world.sick ELSE health, m) <= 2

Moved(r, c) == /\ req[r].at = "routed" /\ req'[r].at = "sent"
               /\ req[r].conv = c /\ req[r].alone
               /\ last[c] # None /\ last'[c] # last[c]

\* While the pin lives, a conversation whose turns do not overlap stays on the
\* model that took the last turn, as long as that one is usable: also after it
\* moved from another.
StaysPut == [][\A r \in Req, c \in Conv :
                 Moved(r, c) /\ Role[c] = None /\ req[r].pinned # None
                   => ~Usable(req[r], last[c])]_vars

\* The same of a conversation whose tier is its role's: its grade never changes,
\* so its pin is never of an old grade.
RoleStaysPut == [][\A r \in Req, c \in Conv :
                     Moved(r, c) /\ Role[c] # None /\ pin[c] # None /\ pin'[c] # None
                       => ~Usable(req[r], last[c])]_vars

\* A turn leaves a warm local model for its cold prefill.
Loses(r) == /\ req[r].at = "routed" /\ req'[r].at = "sent"
            /\ req[r].conv \notin Fork
            /\ req'[r].yielded

\* A head does not stay in the cloud for ever because no local runtime has seen
\* it (the comment on seedColdLosers): while the runtimes stay loaded, no turn
\* loses a warm local model to a cold prefill any more in the end.
ComesHome == <>[](Instance \subseteq world.ready) => <>[][\A r \in Req : ~Loses(r)]_vars
===============================================================================
