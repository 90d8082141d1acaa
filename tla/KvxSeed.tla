------------------------------- MODULE KvxSeed --------------------------------
(***************************************************************************)
(* The background seeds (internal/proxy/kvxseed.go): a static head that no *)
(* artifact covers is prefilled once in the cache daemon, one seed at a    *)
(* time, and not asked for again while a window is open.  The daemon,      *)
(* kvxd, is outside of the repository.                                     *)
(***************************************************************************)
EXTENDS Integers, FiniteSets

CONSTANTS Prefix,    \* static heads: system prompt and tools
          Instance,  \* local runtimes
          Worth,     \* the heads between auto_seed_min_tokens and _max_tokens
          Idle,      \* nothing holds the slot
          MaxWaiting \* bound on the goroutines waiting with one key

SeedKey == Prefix \X Instance

ASSUME SeedAssumption == Worth \subseteq Prefix /\ Idle \notin SeedKey /\ MaxWaiting \in Nat

VARIABLES asked,    \* the keys of autoSeedDebounce inside their window
          waiting,  \* goroutines at the slot, by key
          seeding,  \* the key that holds autoSeedSlot
          held      \* the daemon's artifacts

seedVars == <<asked, waiting, seeding, held>>

SeedTypeOK == /\ asked \subseteq SeedKey
              /\ waiting \in [SeedKey -> 0..MaxWaiting]
              /\ seeding \in SeedKey \cup {Idle}
              /\ held \subseteq SeedKey

SeedInit == /\ asked = {}
            /\ waiting = [k \in SeedKey |-> 0]
            /\ seeding = Idle
            /\ held = {}

\* autoSeedAfterMiss: the key is tested and stored under one lock, then the
\* goroutine queues for the slot
AutoSeed(k) ==
    IF k[1] \in Worth /\ k \notin asked /\ waiting[k] < MaxWaiting
    THEN /\ asked' = asked \cup {k}
         /\ waiting' = [waiting EXCEPT ![k] = @ + 1]
         /\ UNCHANGED <<seeding, held>>
    ELSE UNCHANGED seedVars

TakeSlot(k) == /\ seeding = Idle /\ waiting[k] > 0
               /\ seeding' = k
               /\ waiting' = [waiting EXCEPT ![k] = @ - 1]
               /\ UNCHANGED <<asked, held>>

\* the daemon answers: seeded, or held already; it wakes no runtime
Seeded(resident) == /\ seeding # Idle /\ seeding[2] \in resident
                    /\ held' = held \cup {seeding}
                    /\ seeding' = Idle
                    /\ UNCHANGED <<asked, waiting>>

\* every slot was busy: the key is forgotten, so that the next miss asks again
Declined == /\ seeding # Idle
            /\ asked' = asked \ {seeding}
            /\ seeding' = Idle
            /\ UNCHANGED <<waiting, held>>

\* the call failed or timed out: the key stays for the rest of its window
SeedFails == /\ seeding # Idle
             /\ seeding' = Idle
             /\ UNCHANGED <<asked, waiting, held>>

\* the window of a key is over
Lapse(k) == /\ k \in asked
            /\ asked' = asked \ {k}
            /\ UNCHANGED <<waiting, seeding, held>>

SeedNext(resident) == \/ \E k \in SeedKey : TakeSlot(k) \/ Lapse(k)
                      \/ Seeded(resident) \/ Declined \/ SeedFails
===============================================================================
