---------------------------- MODULE FallbackChain ----------------------------
(***************************************************************************)
(* The candidates handleCore tries for one request, in order               *)
(* (internal/proxy/proxy.go, globalfallback.go, visionfallback.go): the    *)
(* requested model, the other members of its pool, the per-provider        *)
(* fallbacks, the global chain, and for a picture the vision chain, which  *)
(* goes in front of a model that cannot see.                               *)
(***************************************************************************)
EXTENDS Naturals, Sequences, SequencesExt

CONSTANTS Target,         \* provider/model pairs
          Provider,
          ProviderOf,     \* the provider of each target
          DialectOf,      \* the dialect each target speaks
          NoTarget,       \* a provider without a fallback
          MaxVisionHops,  \* maxVisionHops
          MaxGlobalHops   \* maxGlobalHops

Dialect == {"openai", "anthropic", "responses", "ollama", "commandcode"}

ASSUME ChainAssumption == /\ ProviderOf \in [Target -> Provider]
                          /\ DialectOf \in [Target -> Dialect]
                          /\ NoTarget \notin Target
                          /\ {MaxVisionHops, MaxGlobalHops} \subseteq Nat

(***************************************************************************)
(* What a request and the settings say at the moment the chain is built:   *)
(*   primary     the target ResolveModel or the pool chose                 *)
(*   rest        the pool's other members, if its failover is on           *)
(*   image       the body carries a picture                                *)
(*   noFallback  the provider or the share endpoint pins the request       *)
(*   fallbackOf  each provider's own fallback, NoTarget if it is off       *)
(*   vision, global   the targets of the two chains                        *)
(*   offered     targets that resolve, are enabled and allowed to this key *)
(*   sees        targets visionCapableFor says can read a picture          *)
(*   client      the dialect the client speaks                             *)
(*   stream      it wants the reply streamed                               *)
(*   rewritten   targets whose body is no longer the client's: rules, docs *)
(*               or skills of theirs, or a router that changed the request *)
(***************************************************************************)
Setup == [primary : Target, rest : Seq(Target), image : BOOLEAN, noFallback : BOOLEAN,
          fallbackOf : [Provider -> Target \cup {NoTarget}],
          vision : Seq(Target), global : Seq(Target),
          offered : SUBSET Target, sees : SUBSET Target,
          client : Dialect, stream : BOOLEAN, rewritten : SUBSET Target]

Candidate(t) == [target |-> t, failover |-> FALSE, vision |-> FALSE, sibling |-> FALSE]
Sibling(t) == [Candidate(t) EXCEPT !.sibling = TRUE]
Failover(t) == [Candidate(t) EXCEPT !.failover = TRUE]

TargetsOf(cands) == {cands[i].target : i \in DOMAIN cands}

\* one more hop along the providers' own fallbacks, unless it leads back
Follow(path, s) ==
    LET hop == s.fallbackOf[ProviderOf[Last(path)]]
        seen == {ProviderOf[path[i]] : i \in DOMAIN path}
    IN IF hop # NoTarget /\ ProviderOf[hop] \notin seen THEN Append(path, hop) ELSE path

\* at most three of them
Hops(s) == IF s.noFallback THEN <<>>
           ELSE Tail(Follow(Follow(Follow(<<s.primary>>, s), s), s))

Each(Op(_), ts) == [i \in DOMAIN ts |-> Op(ts[i])]

\* faulty: a target that is in the chain already is tried again
TakesAgain(t, cands, s) == t \in s.offered
Takes(t, cands, s) == t \in s.offered /\ t \notin TargetsOf(cands)

\* the candidates so far and one more, if it is one to take and there is room
Joined(cands, t, room, vision, s) ==
    IF Len(cands) < room /\ Takes(t, cands, s)
    THEN Append(cands, [Failover(t) EXCEPT !.vision = vision]) ELSE cands

\* appendVisionFallback, appendGlobalFallback: the first `cap` targets it takes
Extend(cands, targets, cap, vision, s) ==
    LET upto[n \in 0..Len(targets)] ==
          IF n = 0 THEN cands ELSE Joined(upto[n - 1], targets[n], Len(cands) + cap, vision, s)
    IN upto[Len(targets)]

\* faulty: the siblings come after the providers' fallbacks
OwnLast(s) == <<Candidate(s.primary)>> \o Each(Failover, Hops(s)) \o Each(Sibling, s.rest)
Own(s) == <<Candidate(s.primary)>> \o Each(Sibling, s.rest) \o Each(Failover, Hops(s))

WithVision(s) == IF s.image /\ ~s.noFallback
                   THEN Extend(Own(s), s.vision, MaxVisionHops, TRUE, s)
                   ELSE Own(s)

\* the primary cannot see, and the vision chain has something to offer
BlindPrimary(s) == s.primary \notin s.sees /\ Len(WithVision(s)) > Len(Own(s))

Ordered(s) ==
    LET all == WithVision(s)
        own == Len(Own(s))
    IN IF BlindPrimary(s) THEN SubSeq(all, own + 1, Len(all)) \o SubSeq(all, 1, own)
                          ELSE all

\* faulty: the global chain ignores the pin
ChainUnpinned(s) == Extend(Ordered(s), s.global, MaxGlobalHops, FALSE, s)
Chain(s) == IF s.noFallback THEN Ordered(s)
            ELSE Extend(Ordered(s), s.global, MaxGlobalHops, FALSE, s)

VisionActive(cands) == \E i \in DOMAIN cands : cands[i].vision
===============================================================================
