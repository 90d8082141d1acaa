------------------------------- MODULE PinTable -------------------------------
(***************************************************************************)
(* The table of pins behind the sticky routes and the pool affinity        *)
(* (internal/proxy/routesticky.go): bindings with the time they were put,  *)
(* bounded by dropping the oldest share, written back by a ticker through  *)
(* a temporary file and a rename, and read again by the next process.      *)
(***************************************************************************)
EXTENDS Integers, FiniteSets, FiniteSetsExt

CONSTANTS Key, Model,
          MaxEntries,  \* stickyMaxEntries
          Share,       \* a full table drops a Share-th of its pins (the code: 4)
          MaxAge,      \* older pins are not loaded
          Gone,        \* no pin
          MaxClock,    \* bound on the clock
          MaxRestarts  \* bound on the restarts

ASSUME PinAssumption == /\ IsFiniteSet(Key)
                        /\ MaxEntries \in Nat /\ Share \in 1..MaxEntries
                        /\ {MaxAge, MaxClock, MaxRestarts} \subseteq Nat

VARIABLES clock,
          up,        \* a process serves
          restarts,
          table,     \* s.m of that process
          dirty,     \* s.dirty
          flusher,   \* where the ticker's flush is
          snap,      \* the copy it took
          file,      \* the table on disk
          last,      \* history: the last pin put, forgotten if a crash took it
          fate       \* history: how far that pin has come

vars == <<clock, up, restarts, table, dirty, flusher, snap, file, last, fate>>

Pin == [model : Model, at : Nat]
ASSUME GoneAssumption == Gone \notin Pin

Empty == [k \in Key |-> Gone]
Pinned(t) == {k \in Key : t[k] # Gone}

Init == /\ clock = 0 /\ up = TRUE /\ restarts = 0
        /\ table = Empty /\ dirty = FALSE
        /\ flusher = "idle" /\ snap = Empty /\ file = Empty
        /\ last = Empty /\ fate = [k \in Key |-> "none"]

-------------------------------------------------------------------------------
\* evictOldestLocked drops this many
Quota(t) == Cardinality(Pinned(t)) \div Share

\* faulty: the sort is reversed
NewestOf(t) == {D \in kSubset(Quota(t), Pinned(t)) :
                  \A k \in D, j \in Pinned(t) \ D : t[k].at >= t[j].at}
\* the oldest pins, in the order of a sort that leaves ties open
OldestOf(t) == {D \in kSubset(Quota(t), Pinned(t)) :
                  \A k \in D, j \in Pinned(t) \ D : t[k].at <= t[j].at}

Full(t) == Cardinality(Pinned(t)) >= MaxEntries

Dropped(t) == IF Full(t) THEN OldestOf(t) ELSE {{}}

\* A turn is routed: the pin is put with the time of the turn.
Put(k, m) ==
    /\ up
    /\ \E D \in Dropped(table) :
         /\ table' = [j \in Key |-> IF j = k THEN [model |-> m, at |-> clock]
                                    ELSE IF j \in D THEN Gone ELSE table[j]]
         /\ fate' = [j \in Key |-> IF j = k THEN "new"
                                   ELSE IF j \in D THEN "none" ELSE fate[j]]
    /\ last' = [last EXCEPT ![k] = [model |-> m, at |-> clock]]
    /\ dirty' = TRUE
    /\ UNCHANGED <<clock, up, restarts, flusher, snap, file>>

-------------------------------------------------------------------------------
\* flush: copy under the lock, then write and rename without it
Snapshot == /\ up /\ flusher = "idle" /\ dirty
            /\ snap' = table
            /\ dirty' = FALSE
            /\ flusher' = "write"
            /\ fate' = [k \in Key |-> IF fate[k] \in {"new", "lost"} THEN "copied"
                                      ELSE fate[k]]
            /\ UNCHANGED <<clock, up, restarts, table, file, last>>

WriteTemp == /\ flusher = "write"
             /\ flusher' = "rename"
             /\ UNCHANGED <<clock, up, restarts, table, dirty, snap, file, last, fate>>

\* the flag is not set again, so the next tick does not retry
Abandoned == [k \in Key |-> IF fate[k] = "copied" THEN "lost" ELSE fate[k]]

\* the disk is full, or the directory is not writable
FlushFails == /\ flusher \in {"write", "rename"}
              /\ flusher' = "idle"
              /\ fate' = Abandoned
              /\ UNCHANGED <<clock, up, restarts, table, dirty, snap, file, last>>

\* faulty: the flag is cleared only here
RenameClears == /\ flusher = "rename"
                /\ file' = snap
                /\ dirty' = FALSE
                /\ flusher' = "idle"
                /\ fate' = [k \in Key |-> IF fate[k] = "copied" THEN "saved" ELSE fate[k]]
                /\ UNCHANGED <<clock, up, restarts, table, snap, last>>
Rename == /\ flusher = "rename"
          /\ file' = snap
          /\ flusher' = "idle"
          /\ fate' = [k \in Key |-> IF fate[k] = "copied" THEN "saved" ELSE fate[k]]
          /\ UNCHANGED <<clock, up, restarts, table, dirty, snap, last>>

-------------------------------------------------------------------------------
\* faulty: the table is written in place
TornInPlace(f) == IF flusher = "write" THEN Empty ELSE f
\* a crash while the temporary file is written leaves the table's file alone
AfterCrash(f) == f

Crash == /\ up /\ restarts < MaxRestarts
         /\ up' = FALSE
         /\ restarts' = restarts + 1
         /\ table' = Empty /\ dirty' = FALSE /\ flusher' = "idle" /\ snap' = Empty
         /\ file' = AfterCrash(file)
         /\ last' = [k \in Key |-> IF fate[k] = "saved" THEN last[k] ELSE Gone]
         /\ fate' = [k \in Key |-> IF fate[k] = "saved" THEN "saved" ELSE "none"]
         /\ UNCHANGED clock

TooOld(pin) == pin # Gone /\ clock - pin.at > MaxAge

Loaded == [k \in Key |-> IF TooOld(file[k]) THEN Gone ELSE file[k]]

\* EnablePins: load, before the first request is served.  A file the process
\* cannot read or parse loads nothing.
Start(t) ==
    /\ ~up
    /\ up' = TRUE
    /\ table' = t
    /\ UNCHANGED <<clock, restarts, dirty, flusher, snap, file>>

Restart == /\ Start(Loaded)
           /\ last' = [k \in Key |-> IF fate[k] # "saved" THEN Loaded[k]
                                     ELSE IF TooOld(last[k]) THEN Gone ELSE last[k]]
           /\ fate' = [k \in Key |-> IF TooOld(last[k]) THEN "none" ELSE fate[k]]

RestartUnread == /\ Start(Empty)
                 /\ last' = Empty
                 /\ fate' = [k \in Key |-> "none"]

Tick == /\ clock < MaxClock
        /\ clock' = clock + 1
        /\ UNCHANGED <<up, restarts, table, dirty, flusher, snap, file, last, fate>>

Next == \/ \E k \in Key, m \in Model : Put(k, m)
        \/ Snapshot \/ WriteTemp \/ Rename \/ FlushFails
        \/ Crash \/ Restart \/ RestartUnread
        \/ Tick

Spec == Init /\ [][Next]_vars

-------------------------------------------------------------------------------
Table == [Key -> Pin \cup {Gone}]

\* Every variable has its type, and the table never outgrows its bound: neither
\* by puts nor by what a restart loads.
TypeOK == /\ clock \in 0..MaxClock /\ up \in BOOLEAN /\ restarts \in 0..MaxRestarts
          /\ {table, snap, file, last} \subseteq Table
          /\ dirty \in BOOLEAN /\ flusher \in {"idle", "write", "rename"}
          /\ fate \in [Key -> {"none", "new", "copied", "lost", "saved"}]
          /\ Cardinality(Pinned(table)) <= MaxEntries

\* routesticky.go:27: losing the table on a restart let every live conversation
\* hop models.  A pin whose flush completed is the one the next process uses,
\* not an older one of its key, whatever was being written when the last process
\* died; and a running process serves the last pin of every key it still has.
SavedKept == \A k \in Key :
    /\ fate[k] = "saved" => file[k] = last[k]
    /\ up /\ fate[k] # "none" => table[k] = last[k]

\* routesticky.go:154: a full table drops the least recently pinned share and no
\* more.  A conversation stays pinned as long as fewer than MaxEntries minus one
\* share of the others took a turn since its own last turn.
RecentSurvives ==
    \A k \in Key :
        /\ up /\ last[k] # Gone
        /\ Cardinality({j \in Key \ {k} : last[j] # Gone /\ last[j].at >= last[k].at})
               < MaxEntries - MaxEntries \div Share
        => table[k] = last[k]

\* routesticky.go:27: the table is written shortly after every change.  A put
\* that no copy has taken yet keeps the table dirty, also one that meets a
\* running flush, so the next tick writes it; and a copied pin is on its way.
NextFlushSees == \A k \in Key :
    /\ up /\ fate[k] = "new" => dirty
    /\ fate[k] = "copied" => flusher # "idle" /\ snap[k] = last[k]
===============================================================================
