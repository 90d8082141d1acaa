------------------------------ MODULE MCFailover ------------------------------
(* Instance of Failover for TLC: a pool of two on one provider, and two more  *)
(* providers, the last of which always sees.                                  *)
EXTENDS Failover, TLC

CONSTANTS a1, a2, b, v, A, B, V

MCProviderOf == (a1 :> A) @@ (a2 :> A) @@ (b :> B) @@ (v :> V)
MCDialectOf == (b :> "anthropic") @@ [t \in {a1, a2, v} |-> "openai"]

NoHops   == [q \in Provider |-> NoTarget]
HopsBack == (A :> b) @@ (B :> v) @@ (V :> a1)

Base == [primary |-> a1, rest |-> <<>>, image |-> FALSE, noFallback |-> FALSE,
         fallbackOf |-> NoHops, vision |-> <<>>, global |-> <<>>,
         offered |-> Target, sees |-> {v},
         client |-> "openai", stream |-> TRUE, rewritten |-> {}]

TextSetups ==
    {[Base EXCEPT !.rest = rest, !.noFallback = pin, !.fallbackOf = hops,
                  !.global = global, !.offered = offered, !.stream = stream] :
        rest \in {<<>>, <<a2>>}, pin \in BOOLEAN, hops \in {NoHops, HopsBack},
        global \in {<<>>, <<a1, a2, b, v>>}, offered \in {Target, {a2, v}},
        stream \in BOOLEAN}

ImageSetups ==
    {[Base EXCEPT !.image = TRUE, !.rest = rest, !.noFallback = pin, !.vision = vision,
                  !.global = global, !.sees = sees, !.client = client, !.rewritten = rewritten] :
        rest \in {<<>>, <<a2>>}, pin \in BOOLEAN, vision \in {<<>>, <<b, v>>},
        global \in {<<>>, <<a2, b, v>>}, sees \in {{v}, {a1, v}},
        client \in {"openai", "anthropic"}, rewritten \in {{}, {b, v}}}

MCSetups == TextSetups \cup ImageSetups
===============================================================================
