------------------------------ MODULE StoreCache ------------------------------
(***************************************************************************)
(* The store's memory of its database (internal/store/store.go): every     *)
(* look-up is served from a cache that the store's own writes refresh and  *)
(* that a throttled probe of SQLite's data_version refreshes after another *)
(* process (the CLI) wrote.  Goroutines share the cache under a lock that  *)
(* is held for the assignments only, never across the queries.             *)
(*                                                                         *)
(* A row is the number of writes made to it, so a cached row is stale when *)
(* it is smaller than the stored one.                                      *)
(***************************************************************************)
EXTENDS Naturals, Sequences

CONSTANTS Goroutine,
          Tables,     \* the order in which reload queries them
          Item,       \* rows
          TableOf,    \* the table of each row
          Patched,    \* rows whose own writes patch the cache: the settings
          Toggled,    \* rows SetTransformEnabled writes
          Fails,      \* may a query fail, or a key not decrypt
          MaxWrites   \* bound: how often each row is written

ASSUME StoreAssumption ==
    /\ Tables \in Seq(STRING) /\ Tables # <<>>
    /\ TableOf \in [Item -> {Tables[n] : n \in DOMAIN Tables}]
    /\ Item # {} /\ Patched \subseteq Item /\ Toggled \subseteq Item \ Patched
    /\ Fails \in BOOLEAN /\ MaxWrites \in [Item -> Nat]

VARIABLES db,           \* the stored rows
          version,      \* data_version of the store's connection
          cache,        \* s.cache, s.settings, s.transforms, s.endpoints
          dataVersion,  \* s.dataVersion
          recent,       \* the last probe is younger than reloadProbeEvery
          pc, task,     \* each goroutine's position and locals
          author,       \* history: who wrote a row last
          doubt         \* history: rows a refresh may have missed

vars == <<db, version, cache, dataVersion, recent, pc, task, author, doubt>>

\* why a goroutine refreshes, what it has read, what it saw of the others
NoTask == [probe |-> FALSE, ver |-> 0, next |-> 1, got |-> [i \in Item |-> 0],
           item |-> CHOOSE i \in Item : TRUE, crossed |-> FALSE]

AtRest == \A g \in Goroutine : pc[g] = "idle"

\* Open has loaded the cache; s.dataVersion still has its zero value.
Init == /\ db = [i \in Item |-> 0]
        /\ version = 1
        /\ cache = db
        /\ dataVersion = 0
        /\ recent = FALSE
        /\ pc = [g \in Goroutine |-> "idle"]
        /\ task = [g \in Goroutine |-> NoTask]
        /\ author = [i \in Item |-> "none"]
        /\ doubt = {}

Goto(g, to) == pc' = [pc EXCEPT ![g] = to]

\* history: g wrote, installed or lost something while the others were at work
Cross(g, t) == [h \in Goroutine |->
                  IF h = g THEN t
                  ELSE [task[h] EXCEPT !.crossed = @ \/ pc[h] # "idle"]]

-------------------------------------------------------------------------------
\* One statement changes a row.  Bound: MaxWrites.
Write(i, who) == /\ db[i] < MaxWrites[i]
                 /\ db' = [db EXCEPT ![i] = @ + 1]
                 /\ author' = [author EXCEPT ![i] = who]

\* another process writes: only that moves data_version
External(i) == /\ Write(i, "external")
               /\ version' = version + 1
               /\ UNCHANGED <<cache, dataVersion, recent, pc, task, doubt>>

\* SaveProvider, DeleteProvider, Reorder, SaveTransform, DeleteTransform,
\* SaveEndpoint, DeleteEndpoint: write, then reload
Save(g, i) == /\ pc[g] = "idle" /\ i \notin Patched
              /\ Write(i, "own")
              /\ task' = Cross(g, NoTask)
              /\ Goto(g, "read")
              /\ UNCHANGED <<version, cache, dataVersion, recent, doubt>>

\* SetSetting: write, then patch the one entry of the map
SetSetting(g, i) == /\ pc[g] = "idle" /\ i \in Patched
                    /\ Write(i, "own")
                    /\ task' = Cross(g, [NoTask EXCEPT !.item = i, !.got[i] = db[i] + 1])
                    /\ Goto(g, "patch")
                    /\ UNCHANGED <<version, cache, dataVersion, recent, doubt>>

Patch(g) == LET i == task[g].item
            IN /\ pc[g] = "patch"
               /\ cache' = [cache EXCEPT ![i] = task[g].got[i]]
               /\ doubt' = IF task[g].crossed THEN doubt \cup {i} ELSE doubt
               /\ task' = Cross(g, NoTask)
               /\ Goto(g, "idle")
               /\ UNCHANGED <<db, version, dataVersion, recent, author>>

\* SetTransformEnabled: write, and nothing else
Toggle(g, i) == /\ pc[g] = "idle" /\ i \in Toggled
                /\ Write(i, "own")
                /\ task' = Cross(g, NoTask)
                /\ doubt' = doubt \cup {i}
                /\ UNCHANGED <<version, cache, dataVersion, recent, pc>>

-------------------------------------------------------------------------------
\* reload: one query after the other, a failing one abandons the rest
Refreshed(g) == IF task[g].probe THEN "record" ELSE "idle"

ReadTable(g) ==
    /\ pc[g] = "read" /\ task[g].next <= Len(Tables)
    /\ task' = [task EXCEPT
                  ![g].got = [i \in Item |-> IF TableOf[i] = Tables[task[g].next]
                                               THEN db[i] ELSE @[i]],
                  ![g].next = @ + 1]
    /\ UNCHANGED <<db, version, cache, dataVersion, recent, pc, author, doubt>>

ReadFails(g) == /\ Fails
                /\ pc[g] = "read" /\ task[g].next <= Len(Tables)
                /\ task' = Cross(g, task[g])
                /\ doubt' = Item
                /\ Goto(g, Refreshed(g))
                /\ UNCHANGED <<db, version, cache, dataVersion, recent, author>>

Install(g) == /\ pc[g] = "read" /\ task[g].next > Len(Tables)
              /\ cache' = task[g].got
              /\ doubt' = IF task[g].crossed THEN Item ELSE {}
              /\ task' = Cross(g, task[g])
              /\ Goto(g, Refreshed(g))
              /\ UNCHANGED <<db, version, dataVersion, recent, author>>

-------------------------------------------------------------------------------
\* maybeReload, called by every look-up: the throttle
Lookup(g) == /\ pc[g] = "idle" /\ ~recent
             /\ task' = [task EXCEPT ![g] = [NoTask EXCEPT !.probe = TRUE]]
             /\ Goto(g, "pragma")
             /\ UNCHANGED <<db, version, cache, dataVersion, recent, author, doubt>>

ReadVersion(g) == /\ pc[g] = "pragma"
                  /\ task' = [task EXCEPT ![g].ver = version]
                  /\ Goto(g, "compare")
                  /\ UNCHANGED <<db, version, cache, dataVersion, recent, author, doubt>>

\* the PRAGMA fails: the look-up is served from the cache as it is
PragmaFails(g) == /\ Fails /\ pc[g] = "pragma"
                  /\ Goto(g, "idle")
                  /\ UNCHANGED <<db, version, cache, dataVersion, recent, task, author, doubt>>

\* faulty: a single foreign write is not noticed
StaleSkipsOne(g) == task[g].ver > dataVersion + 1
Stale(g) == task[g].ver # dataVersion

Compare(g) == /\ pc[g] = "compare"
              /\ recent' = TRUE
              /\ task' = [task EXCEPT ![g].crossed = FALSE]
              /\ Goto(g, IF Stale(g) THEN "read" ELSE "idle")
              /\ UNCHANGED <<db, version, cache, dataVersion, author, doubt>>

\* faulty: data_version is read again after the reload
LatestVersion(g) == version
\* the version seen before the reload, whether the reload succeeded or not
SeenVersion(g) == task[g].ver

Record(g) == /\ pc[g] = "record"
             /\ dataVersion' = SeenVersion(g)
             /\ task' = [task EXCEPT ![g] = NoTask]
             /\ Goto(g, "idle")
             /\ UNCHANGED <<db, version, cache, recent, author, doubt>>

\* reloadProbeEvery passes
Elapse == /\ recent
          /\ recent' = FALSE
          /\ UNCHANGED <<db, version, cache, dataVersion, pc, task, author, doubt>>

Step(g) == \/ Patch(g) \/ ReadTable(g) \/ ReadFails(g) \/ Install(g)
           \/ ReadVersion(g) \/ PragmaFails(g) \/ Compare(g) \/ Record(g)

Next == \/ \E i \in Item : External(i)
        \/ \E g \in Goroutine, i \in Item : Save(g, i) \/ SetSetting(g, i) \/ Toggle(g, i)
        \/ \E g \in Goroutine : Lookup(g) \/ Step(g)
        \/ Elapse

Spec == Init /\ [][Next]_vars

\* A started call goes on, time passes, and requests keep looking things up.  A
\* PRAGMA that can be answered is in the end.
FairSpec == /\ Spec
            /\ \A g \in Goroutine : WF_vars(Step(g)) /\ SF_vars(ReadVersion(g))
            /\ WF_vars(Elapse)
            /\ WF_vars(\E g \in Goroutine : Lookup(g))

-------------------------------------------------------------------------------
Task == [probe : BOOLEAN, ver : Nat, next : Nat, got : [Item -> Nat], item : Item,
         crossed : BOOLEAN]

\* Every variable has its type; what is cached, or about to be, was stored.
TypeOK == /\ db \in [Item -> Nat] /\ version \in Nat /\ cache \in [Item -> Nat]
          /\ dataVersion \in Nat /\ recent \in BOOLEAN
          /\ pc \in [Goroutine -> {"idle", "patch", "read", "pragma", "compare", "record"}]
          /\ task \in [Goroutine -> Task]
          /\ author \in [Item -> {"none", "own", "external"}]
          /\ doubt \subseteq Item
          /\ \A i \in Item : cache[i] <= db[i]
          /\ \A g \in Goroutine, i \in Item : task[g].got[i] <= db[i]

\* maybeReload's comment: the probe notices what other processes wrote, and our
\* own writes reload directly.  When nothing is in progress, a stale row either
\* awaits the next probe, or one of the known gaps hid it: a toggle, a reload
\* that failed, a refresh that another goroutine's write or refresh crossed.
StaleExplained ==
    AtRest /\ dataVersion = version
        => \A i \in Item : cache[i] # db[i] => i \in doubt

\* store.go:193: a change made by another process is picked up.  Every stale row
\* is refreshed in the end, unless one of the same gaps hid it.
PickedUp == \A i \in Item : (cache[i] # db[i]) ~> (cache[i] = db[i] \/ i \in doubt)

-------------------------------------------------------------------------------
(* What the comments say and the code does not always do.                  *)

\* cache_test.go:49 and store.go:193: an external write becomes visible once the
\* probe has passed.
ExternalVisible ==
    AtRest /\ dataVersion = version
        => \A i \in Item : author[i] = "external" => cache[i] = db[i]
===============================================================================
