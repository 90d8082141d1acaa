------------------------------ MODULE Catalog ------------------------------
(* What the proxy says it serves, and where a name leads                     *)
(* (src/internal/proxy/models.go, endpoint.go, visionfallback.go,            *)
(* modelcontext.go). A provider's listing is scanned at most once a TTL and  *)
(* kept, an empty one too; a request looks its model up in the listings, one *)
(* provider after the other, while other requests scan, and later asks       *)
(* whether the model sees, which may scan again with the settings the        *)
(* request began with; the catalogue and the shares advertise ids, windows   *)
(* and image input. That a name contains another, or equals it but for its   *)
(* case or punctuation, is a constant relation. Time is counted in ticks.    *)
EXTENDS Integers, Sequences, FiniteSets

CONSTANTS
    Providers,    \* 1..n, in the order of their priority
    Ids,          \* model ids
    Catalogues,   \* what an upstream may list, Ids for one
    Asks,         \* what requests ask for: <<provider or 0, name>>, "" no name
    Folds,        \* Folds[w]: the ids that equal w but for case
    Within,       \* Within[w]: the ids that contain w
    Blind,        \* Blind[w]: those that do when only letters and digits count
    MapTo,        \* the model map: [bare alias -> <<provider or 0, id>>]
    Configs,      \* Configs[p]: settings provider p may have
    Declares,     \* Declares[p][id]: the upstream's word on sight and window
    Shares,       \* share endpoints: [force, exact, globs, cap]
    Published,    \* catalogContextFor: the published window of an id, 0 unknown
    Rules,        \* values of vision_models and default_context_length
    Lookups,      \* requests with a candidate of their own at once
    TTL,          \* modelCacheTTL in ticks
    Timeout,      \* of a scan
    Changes,      \* bound on changes of upstreams and settings
    None          \* no listing, no model, no provider, an upstream that is down

\* A name leads to a provider there is, or to none; windows are numbers; an
\* upstream that is down is not one that serves something, and a listing is
\* not the lack of one.
ASSUME CatalogAssumption ==
    /\ TTL \in Nat \ {0} /\ Timeout \in Nat /\ Changes \in Nat
    /\ IsFiniteSet(Providers) /\ Providers = 1..Cardinality(Providers)
    /\ Ids \in Catalogues /\ Catalogues \subseteq SUBSET Ids /\ None \notin Catalogues
    /\ \A ask \in Asks : ask[1] \in Providers \union {0}
    /\ \A a \in DOMAIN MapTo : MapTo[a][1] \in Providers \union {0}
    /\ \A p \in Providers : \A c \in Configs[p] : c.window \in Int
    /\ \A p \in Providers, id \in Ids :
          /\ Declares[p][id].sight \in {"none", "sees", "blind"} /\ Declares[p][id].window \in Int
          /\ Published[id] \in Int
    /\ \A r \in Rules : r.window \in Int
    /\ \A share \in Shares : share.cap \in Int
    /\ \A ids \in SUBSET Ids : None # [models |-> ids, age |-> 0]

VARIABLES
    provs,        \* [provider -> its settings]
    serves,       \* [provider -> the ids its upstream lists, or None: it is down]
    listing,      \* p.models: [provider -> None or [models, age]]
    learned,      \* p.vision and p.ctxmeta: [provider -> [id -> sight, window]]
    rules,        \* vision_models: [off, include, exclude], and the window
    lookup,       \* [lookup -> where its ResolveModel or its picture is]
    listedAgo,    \* [provider -> ticks since its upstream listed these ids]
    keptAgo,      \* [provider -> ticks since it, or a request, had this filter]
    edits         \* changes left

catalogVars == <<provs, serves, listing, learned, rules, lookup, listedAgo, keptAgo, edits>>

\* What a listing was made from is at most so old, in ticks.
Window == TTL - 1 + Timeout

\* Ticks since something was so: not so again, it ages, and past the window
\* how long ago it was is forgotten.
Since(now, ago) == IF now THEN 0 ELSE IF ago > Window THEN ago ELSE ago + 1
Never == Window + 1

\* The filters a provider may have, and what its upstream gives: nothing, when
\* it is down.
Answers == Catalogues \union {{}}
Filters(p) == {c.keep : c \in Configs[p]}
Offered(ids) == IF ids = None THEN {} ELSE ids

\* Before a request came, and once it was answered, refused or given up.
Idle == [at |-> "idle"]
Over == [at |-> "over"]

CatalogInit ==
    /\ provs \in [Providers -> UNION {Configs[p] : p \in Providers}]
    /\ \A p \in Providers : provs[p] \in Configs[p]
    /\ serves = [p \in Providers |-> Ids]
    /\ listing = [p \in Providers |-> None]
    /\ learned = [p \in Providers |-> [id \in Ids |-> [sight |-> "none", window |-> 0]]]
    /\ rules \in Rules
    /\ lookup = [l \in Lookups |-> Idle]
    /\ listedAgo = [p \in Providers |-> [ids \in Answers |-> IF ids = Ids THEN 0 ELSE Never]]
    /\ keptAgo = [p \in Providers |-> [k \in Filters(p) |-> IF k = provs[p].keep THEN 0 ELSE Never]]
    /\ edits = Changes

-----------------------------------------------------------------------------
(* Names.                                                                    *)

\* FuzzyModel: exact, then but for case, then the only one that contains it,
\* then the only one that does without its punctuation.
Only(models) == IF Cardinality(models) = 1 THEN CHOOSE m \in models : TRUE ELSE None
FuzzyModel(models, want) ==
    IF want \in models THEN want
    ELSE IF models \cap Folds[want] # {} THEN CHOOSE m \in models \cap Folds[want] : TRUE
    ELSE IF Only(models \cap Within[want]) # None THEN Only(models \cap Within[want])
    ELSE Only(models \cap Blind[want])

\* applyModelsFilter: a filter is the ids it lets through; none lets all.
Filtered(ids, keep) == ids \cap keep

\* The next enabled provider of the snapshot after k; past the end, none.
After(conf, k) ==
    LET next == {p \in Providers : p > k /\ conf[p].on}
    IN  IF next = {} THEN None ELSE CHOOSE p \in next : \A q \in next : p <= q

First(conf) == After(conf, 0)

\* Where a request is once it has a model, and the last step of finding one:
\* the first enabled provider and its default model.
Done(conf, p, model) == [at |-> "done", conf |-> conf, prov |-> p, model |-> model]

Fallback(conf) ==
    IF First(conf) = None THEN Over ELSE Done(conf, First(conf), conf[First(conf)].default)

\* At a provider's listing: for the name it was asked for by, for any, or to
\* learn what the model sees; with the settings of before.
Consulting(ask, conf, p, want, mode) ==
    [at |-> "look", ask |-> ask, conf |-> conf, prov |-> p, want |-> want, mode |-> mode,
     under |-> IF mode = "sight" THEN rules ELSE None, age |-> 0, got |-> "pending", ids |-> {}]

\* What an entry of a listing stands for: the model map, for a bare name.
Target(entry) == IF entry[1] = 0 /\ entry[2] \in DOMAIN MapTo THEN MapTo[entry[2]] ELSE entry

\* ResolveModel up to its first listing: a name with a provider, which must be
\* enabled, its default when only the provider is named; then an alias some
\* provider has; no name, and the name "default", are looked up nowhere.
BeginResolve(l, ask) ==
    LET conf == provs
        prov == Target(ask)[1]
        name == Target(ask)[2]
        aliased == {q \in Providers : conf[q].on /\ name \in conf[q].aliases}
    IN  /\ lookup[l].at = "idle"
        /\ lookup' = [lookup EXCEPT ![l] =
              IF prov # 0 THEN
                  IF ~conf[prov].on THEN Over
                  ELSE IF name = "" THEN Done(conf, prov, conf[prov].default)
                  ELSE Consulting(ask, conf, prov, name, "named")
              ELSE IF aliased # {} THEN
                  Done(conf, CHOOSE q \in aliased : \A r \in aliased : q <= r, name)
              ELSE IF name \in {"", "default"} \/ First(conf) = None THEN Fallback(conf)
              ELSE Consulting(ask, conf, First(conf), name, "any")]
        /\ UNCHANGED <<provs, serves, listing, learned, rules, listedAgo, keptAgo, edits>>

\* With the provider's listing in hand: a match ends it; a named provider
\* passes the name on as typed unless its filter forbids; otherwise the next.
Decided(look, models) ==
    LET m == FuzzyModel(models, look.want)
        next == After(look.conf, look.prov)
    IN  IF look.mode = "sight" THEN
             [Consulting(look.ask, look.conf, look.prov, look.want, "sight")
                 EXCEPT !.at = "again", !.under = look.under]
        ELSE IF m # None THEN Done(look.conf, look.prov, m)
        ELSE IF look.mode = "named" THEN
             IF look.want \in look.conf[look.prov].keep
             THEN Done(look.conf, look.prov, look.want)
             ELSE Over
        ELSE IF next = None THEN Fallback(look.conf)
        ELSE Consulting(look.ask, look.conf, next, look.want, "any")

-----------------------------------------------------------------------------
(* The listings.                                                             *)

Fresh(p) == listing[p] # None /\ listing[p].age < TTL

\* ModelsCached with a fresh entry.
Consult(l) ==
    /\ lookup[l].at = "look" /\ Fresh(lookup[l].prov)
    /\ lookup' = [lookup EXCEPT ![l] = Decided(@, listing[@.prov].models)]
    /\ UNCHANGED <<provs, serves, listing, learned, rules, listedAgo, keptAgo, edits>>

\* ModelsCached without one: a scan of its own, whoever else scans.
StartScan(l) ==
    /\ lookup[l].at = "look" /\ ~Fresh(lookup[l].prov)
    /\ lookup' = [lookup EXCEPT ![l].at = "scan"]
    /\ UNCHANGED <<provs, serves, listing, learned, rules, listedAgo, keptAgo, edits>>

\* recordVisionMeta and recordContextMeta: what is declared replaces what was.
Heard(old, new) == [sight  |-> IF new.sight = "none" THEN old.sight ELSE new.sight,
                    window |-> IF new.window = 0 THEN old.window ELSE new.window]

\* ListModels: the upstream answers, declaring what its models see; or it is
\* down, or answers with an error.
ScanAnswers(l) ==
    LET p == lookup[l].prov
    IN  /\ lookup[l].at = "scan" /\ lookup[l].got = "pending" /\ serves[p] # None
        /\ lookup' = [lookup EXCEPT ![l].got = "ids", ![l].ids = serves[p]]
        /\ learned' = [learned EXCEPT ![p] = [id \in Ids |->
              IF id \in serves[p] THEN Heard(@[id], Declares[p][id]) ELSE @[id]]]
        /\ UNCHANGED <<provs, serves, listing, rules, listedAgo, keptAgo, edits>>

ScanFails(l) ==
    /\ lookup[l].at = "scan" /\ lookup[l].got = "pending"
    /\ lookup' = [lookup EXCEPT ![l].got = "nothing"]
    /\ listedAgo' = [listedAgo EXCEPT ![lookup[l].prov][{}] = 0]
    /\ UNCHANGED <<provs, serves, listing, learned, rules, keptAgo, edits>>

Scanned(l) ==
    IF lookup[l].got = "ids" THEN Filtered(lookup[l].ids, lookup[l].conf[lookup[l].prov].keep) ELSE {}

\* Faulty: a failed scan renews the listing there is.
Renewed(l) ==
    IF lookup[l].got = "ids" \/ listing[lookup[l].prov] = None
    THEN [models |-> Scanned(l), age |-> 0]
    ELSE [listing[lookup[l].prov] EXCEPT !.age = 0]

\* What is kept: the filtered ids, or nothing after a failure.
Kept(l) == [models |-> Scanned(l), age |-> 0]

\* The end of ModelsCached: the entry is stored, over whatever is there, and
\* the lookup goes on with it.
StoreScan(l) ==
    /\ lookup[l].at = "scan" /\ lookup[l].got # "pending"
    /\ listing' = [listing EXCEPT ![lookup[l].prov] = Kept(l)]
    /\ lookup' = [lookup EXCEPT ![l] = Decided(@, Scanned(l))]
    /\ UNCHANGED <<provs, serves, learned, rules, listedAgo, keptAgo, edits>>

-----------------------------------------------------------------------------
(* The picture.                                                              *)

\* What the upstream said of a model; of a name it does not list, nothing.
Word(p, id) == IF id \in Ids THEN learned[p][id] ELSE [sight |-> "none", window |-> 0]

\* visionCapable, matchVisionPat over the setting: the ids known to see.
NameSees(r, id) == r.off \/ (id \in r.include /\ id \notin r.exclude)

\* Faulty: the word for capable looked up by name only.
CapableByName(r, p, id) ==
    r.off \/ NameSees(r, id) \/ Word(p, id).sight = "sees"

\* visionCapableFor up to its scan: the upstream's word, then the name's.
CapableFor(r, p, id) ==
    \/ r.off
    \/ IF Word(p, id).sight # "none" THEN Word(p, id).sight = "sees" ELSE NameSees(r, id)

Told(x, model, sees) ==
    [at |-> "told", conf |-> x.conf, prov |-> x.prov, model |-> model, sees |-> sees]

\* The request carries a picture, and whether its candidate sees is asked, as
\* long after the resolving as an earlier attempt takes, and again (handleCore
\* asks for the primary, and for each candidate in its turn). Where neither
\* the upstream nor the name says, the listing is consulted for what it
\* teaches.
AskSight(l) ==
    LET x == lookup[l]
        unsaid == Word(x.prov, x.model).sight = "none" /\ ~NameSees(rules, x.model)
    IN  /\ x.at \in {"done", "told"}
        /\ lookup' = [lookup EXCEPT ![l] =
              IF unsaid THEN Consulting(None, x.conf, x.prov, x.model, "sight")
              ELSE Told(x, x.model, CapableFor(rules, x.prov, x.model))]
        /\ UNCHANGED <<provs, serves, listing, learned, rules, listedAgo, keptAgo, edits>>

\* The end of visionCapableFor: what is known now, and known to see.
LookAgain(l) ==
    LET x == lookup[l]
    IN  /\ x.at = "again"
        /\ lookup' = [lookup EXCEPT ![l] =
              Told(x, x.want, Word(x.prov, x.want).sight = "sees")]
        /\ UNCHANGED <<provs, serves, listing, learned, rules, listedAgo, keptAgo, edits>>

\* The request is answered, or given up; its snapshot goes with it.
EndRequest(l) ==
    /\ lookup[l].at \in {"done", "told"}
    /\ lookup' = [lookup EXCEPT ![l] = Over]
    /\ UNCHANGED <<provs, serves, listing, learned, rules, listedAgo, keptAgo, edits>>

-----------------------------------------------------------------------------
(* Time, the upstreams and the operator.                                     *)

\* The filters of p: its own, and those running requests were given with it.
InHand(p) == {provs[p].keep} \union
    {lookup[l].conf[p].keep : l \in {m \in Lookups : lookup[m].at \notin {"idle", "over"}}}

\* A tick passes; no scan outlives its timeout, and between scans only a
\* request that has its model takes time.
Tick ==
    /\ \A l \in Lookups : /\ lookup[l].at \notin {"look", "again"}
                          /\ lookup[l].at = "scan" => lookup[l].age < Timeout
    /\ listing' = [p \in Providers |-> IF listing[p] = None \/ listing[p].age = TTL THEN listing[p]
                                       ELSE [listing[p] EXCEPT !.age = @ + 1]]
    /\ lookup' = [l \in Lookups |-> IF lookup[l].at = "scan" THEN [lookup[l] EXCEPT !.age = @ + 1]
                                    ELSE lookup[l]]
    /\ listedAgo' = [p \in Providers |->
          [ids \in Answers |-> Since(ids = Offered(serves[p]), listedAgo[p][ids])]]
    /\ keptAgo' = [p \in Providers |-> [k \in Filters(p) |-> Since(k \in InHand(p), keptAgo[p][k])]]
    /\ UNCHANGED <<provs, serves, learned, rules, edits>>

\* The upstream's models change, or it goes down or comes back; a provider's
\* settings, or those of vision and windows, are saved. The listing is not told.
UpstreamChanges(p, ids) ==
    /\ edits > 0 /\ edits' = edits - 1 /\ ids # serves[p]
    /\ serves' = [serves EXCEPT ![p] = ids]
    /\ listedAgo' = [listedAgo EXCEPT ![p][Offered(ids)] = 0]
    /\ UNCHANGED <<provs, listing, learned, rules, lookup, keptAgo>>

SaveProvider(p, conf) ==
    /\ edits > 0 /\ edits' = edits - 1 /\ conf # provs[p]
    /\ provs' = [provs EXCEPT ![p] = conf]
    /\ keptAgo' = [keptAgo EXCEPT ![p][conf.keep] = 0]
    /\ UNCHANGED <<serves, listing, learned, rules, lookup, listedAgo>>

SaveRules(r) ==
    /\ edits > 0 /\ edits' = edits - 1 /\ r # rules
    /\ rules' = r
    /\ UNCHANGED <<provs, serves, listing, learned, lookup, listedAgo, keptAgo>>

-----------------------------------------------------------------------------
(* What is advertised.                                                       *)

\* visionAdvertised: sees, blind, or nothing said; a name that stands for no
\* provider's model goes by the name alone.
Advertised(r, entry) ==
    LET p == Target(entry)[1]
        id == Target(entry)[2]
    IN  IF p = 0 THEN IF NameSees(r, entry[2]) THEN "sees" ELSE "none"
        ELSE IF Word(p, id).sight # "none" THEN Word(p, id).sight
        ELSE IF r.off THEN "none"
        ELSE IF id \in r.exclude THEN "blind"
        ELSE IF NameSees(r, id) THEN "sees" ELSE "none"

\* ContextLengthFor: the operator's window, else the upstream's, else the
\* published one, else the one for all, else none.
LengthFor(conf, p, id) ==
    IF conf[p].window > 0 THEN conf[p].window
    ELSE IF Word(p, id).window > 0 THEN Word(p, id).window
    ELSE IF id \in Ids /\ Published[id] > 0 THEN Published[id]
    ELSE IF rules.window > 0 THEN rules.window ELSE 0

\* Faulty: the cap wins whenever there is one.
LimitRaised(cap, conf, p, id) == IF cap > 0 THEN cap ELSE LengthFor(conf, p, id)

\* ContextLimitFor: a share's cap lowers it, or stands in where none is known.
LimitFor(cap, conf, p, id) ==
    LET derived == LengthFor(conf, p, id)
    IN  IF cap <= 0 THEN derived
        ELSE IF derived <= 0 \/ cap < derived THEN cap ELSE derived

\* advertisedContext: the window the public listing gives an entry, an alias
\* that of its model.
ListedWindow(entry) ==
    IF Target(entry)[1] = 0 THEN 0 ELSE LengthFor(provs, Target(entry)[1], Target(entry)[2])

\* endpointAdvertisedContext: the window a share gives an entry, the forced
\* model's if there is one; a bare name is given the share's cap, whatever it
\* stands for.
ShareWindow(share, entry) ==
    LET target == IF share.force # None THEN share.force ELSE entry
    IN  IF target[1] = 0 THEN share.cap ELSE LimitFor(share.cap, provs, target[1], target[2])

\* AllModelIDs: per enabled provider its pins, or its listing, or its default
\* while that is empty; its aliases; and the map's, unless they lead to a
\* provider that is out.
Listed(L) ==
    LET own(p) == IF provs[p].pins # {} THEN provs[p].pins
                  ELSE IF L[p] # {} THEN L[p] ELSE {provs[p].default} \ {""}
        on == {p \in Providers : provs[p].on}
    IN  (UNION {{<<p, id>> : id \in own(p)} : p \in on})
          \union (UNION {{<<0, a>> : a \in provs[p].aliases} : p \in on})
          \union {<<0, a>> : a \in {b \in DOMAIN MapTo : MapTo[b][1] \in on \union {0}}}

\* endpointModels and modelAllowed: what a share lists, and what it lets pass.
ShareLists(L, share) ==
    IF share.force # None THEN {share.force}
    ELSE IF share.globs = {} /\ share.exact = {} THEN Listed(L)
    ELSE (Listed(L) \cap share.globs) \union share.exact

ModelAllowed(share, id) ==
    share.force # None \/ (share.globs = {} /\ share.exact = {}) \/ id \in share.globs \union share.exact

CatalogNext ==
    \/ \E l \in Lookups, ask \in Asks : BeginResolve(l, ask)
    \/ \E l \in Lookups : Consult(l) \/ StartScan(l) \/ ScanAnswers(l) \/ ScanFails(l) \/ StoreScan(l)
    \/ \E l \in Lookups : AskSight(l) \/ LookAgain(l) \/ EndRequest(l)
    \/ Tick
    \/ \E p \in Providers, ids \in Catalogues \union {None} : UpstreamChanges(p, ids)
    \/ \E p \in Providers : \E conf \in Configs[p] : SaveProvider(p, conf)
    \/ \E r \in Rules : SaveRules(r)

CatalogSpec == CatalogInit /\ [][CatalogNext]_catalogVars

-----------------------------------------------------------------------------

\* A listing that is served shows what the upstream listed, or that it did not
\* answer, within its time to live and a scan's timeout: however scans overlap
\* and whatever fails, a stale picture does not live on. The filter it went
\* through is one the provider had, or one a running request had been given
\* with it, within that time (ModelsCached, from ResolveModel and from
\* visionCapableFor).
ListingFresh ==
    \A p \in Providers : Fresh(p) =>
        \E ids \in Answers, k \in Filters(p) :
            /\ listedAgo[p][ids] <= Window /\ keptAgo[p][k] <= Window
            /\ listing[p].models = Filtered(ids, k)

\* What the gate answers for a picture is what the listing says of the model
\* then, unless the rules were saved since it was asked.
GateAsAdvertised(l) ==
    LET x == lookup'[l]
        said == Advertised(rules, <<x.prov, x.model>>)
    IN  x.at = "told" /\ x # lookup[l] /\ ~rules.off /\ said # "none"
        /\ (lookup[l].at = "again" => lookup[l].under = rules)
            => (x.sees <=> said = "sees")

\* A name that is looked up and that the catalogue lists from a scan then leads
\* to the very model it is listed for, and that model has the window the
\* listing gives; a share that lists the name lets it pass, and gives it, if it
\* names a provider, no window above the model's.
RoutedAsListed(l) ==
    LET x == lookup'[l]
        ask == lookup[l].ask
        t == Target(ask)
        L == [p \in Providers |-> IF listing'[p] = None THEN {} ELSE listing'[p].models]
        known == LengthFor(x.conf, x.prov, x.model)
    IN  lookup[l].at \in {"look", "scan"} /\ x.at = "done"
        /\ t[1] # 0 /\ t \in Listed(L) /\ provs[t[1]].pins = {}
            => /\ x.prov = t[1] /\ x.model = t[2]
               /\ \A share \in Shares : ask \in ShareLists(L, share) => ModelAllowed(share, ask)
               /\ x.conf[x.prov].window = provs[x.prov].window =>
                     /\ ListedWindow(ask) = known
                     /\ \A share \in Shares :
                           known > 0 /\ ask[1] # 0 /\ ask \in ShareLists(L, share)
                               => ShareWindow(share, ask) <= known

\* What is advertised is what a request then meets, however the look-ups, the
\* scans that teach sight and windows, and the operator's changes interleave
\* (visionAdvertised against visionCapableFor, AllModelIDs and
\* advertisedContext against ResolveModel, endpointModels and
\* endpointAdvertisedContext against modelAllowed and ContextLimitFor).
AdvertisedHonest ==
    [][\A l \in Lookups : GateAsAdvertised(l) /\ RoutedAsListed(l)]_catalogVars
=============================================================================
