---------------------------- MODULE PinTable_proofs ----------------------------
(***************************************************************************)
(* Proofs about PinTable, for any set of keys, table bound, share and age: *)
(* the table keeps its bound, what was saved is what the next process      *)
(* uses, the next flush sees every put, and a recent pin survives.         *)
(***************************************************************************)
EXTENDS PinTable, FiniteSetTheorems, TLAPS

\* The pins put at or after k's, of other keys; and how many of them it takes to
\* push k's pin out.
Newer(k) == {j \in Key \ {k} : last[j] # Gone /\ last[j].at >= last[k].at}
Crowd == MaxEntries - MaxEntries \div Share

\* A running flush holds a copy of every pin it is to save, and of every one saved before.
FlushHolds == \A k \in Key :
    /\ fate[k] = "copied" => flusher # "idle"
    /\ flusher # "idle" /\ fate[k] \in {"copied", "saved"} => snap[k] = last[k]

\* Between two processes nothing is under way.
DownRests == ~up => flusher = "idle" /\ \A k \in Key : fate[k] \in {"none", "saved"}

\* No table outgrows the bound, in memory, in the copy or on disk.
Bounded == /\ Cardinality(Pinned(table)) <= MaxEntries
           /\ Cardinality(Pinned(snap)) <= MaxEntries
           /\ Cardinality(Pinned(file)) <= MaxEntries

\* No pin is of the future.
DatedBy(t, c) == \A k \in Key : t[k] # Gone => t[k].at <= c
Dated == DatedBy(table, clock) /\ DatedBy(snap, clock) /\ DatedBy(file, clock) /\ DatedBy(last, clock)

\* A pin that is not served any more was crowded out.
Explained == up => \A k \in Key :
    \/ table[k] = last[k]
    \/ table[k] = Gone /\ last[k] # Gone /\ Cardinality(Newer(k)) >= Crowd

\* The types, one by one.
Tables == table \in Table /\ snap \in Table /\ file \in Table /\ last \in Table
Marks == /\ clock \in 0..MaxClock /\ up \in BOOLEAN /\ restarts \in 0..MaxRestarts
         /\ dirty \in BOOLEAN /\ flusher \in {"idle", "write", "rename"}
         /\ fate \in [Key -> {"none", "new", "copied", "lost", "saved"}]
Typed == Tables /\ Marks

PinInv == /\ Typed /\ FlushHolds /\ DownRests /\ Bounded /\ Dated /\ Explained
          /\ SavedKept /\ NextFlushSees

\* The pins of a table are finitely many.
LEMMA PinnedFinite ==
  ASSUME NEW t
  PROVE  IsFiniteSet(Pinned(t)) /\ Cardinality(Pinned(t)) \in Nat
<1>1. Pinned(t) \subseteq Key
  BY DEF Pinned
<1>. QED
  BY <1>1, PinAssumption, FS_Subset, FS_CardinalityType

\* A table with fewer pins keeps the bound.
LEMMA FewerPins ==
  ASSUME NEW t, NEW u, Pinned(u) \subseteq Pinned(t), Cardinality(Pinned(t)) <= MaxEntries
  PROVE  Cardinality(Pinned(u)) <= MaxEntries
  BY PinnedFinite, FS_Subset, PinAssumption

\* An empty table has none.
LEMMA EmptyPins == Cardinality(Pinned(Empty)) <= MaxEntries /\ Pinned(Empty) = {}
<1>1. Pinned(Empty) = {}
  BY DEF Pinned, Empty
<1>. QED
  BY <1>1, FS_EmptySet, PinAssumption

\* What is dropped from a full table are pins of it, as many as the share says,
\* none newer than one that stays.
LEMMA DroppedFacts ==
  ASSUME NEW t \in Table, Cardinality(Pinned(t)) <= MaxEntries, NEW D \in Dropped(t)
  PROVE  /\ D \subseteq Pinned(t)
         /\ \/ D = {} /\ Cardinality(Pinned(t)) < MaxEntries
            \/ /\ Cardinality(Pinned(t)) = MaxEntries
               /\ Cardinality(Pinned(t) \ D) = Crowd /\ Crowd < MaxEntries
               /\ \A k \in D, j \in Pinned(t) \ D : t[k].at <= t[j].at
<1>. DEFINE n == Cardinality(Pinned(t))
<1>0. n \in Nat /\ MaxEntries \in Nat /\ Share \in Nat /\ Share >= 1 /\ Share <= MaxEntries
  BY PinnedFinite, PinAssumption
<1>1. CASE Full(t)
  <2>1. n = MaxEntries
    BY <1>0, <1>1 DEF Full
  <2>2. /\ D \subseteq Pinned(t) /\ Cardinality(D) = MaxEntries \div Share
        /\ \A k \in D, j \in Pinned(t) \ D : t[k].at <= t[j].at
    BY <1>1, <2>1 DEF Dropped, OldestOf, kSubset, Quota
  <2>3. MaxEntries \div Share >= 1 /\ MaxEntries \div Share \in Nat
    BY <1>0
  <2>4. Cardinality(Pinned(t) \ D) = MaxEntries - MaxEntries \div Share
    <3>1. Pinned(t) \cap D = D
      BY <2>2
    <3>2. Cardinality(Pinned(t) \ D) = Cardinality(Pinned(t)) - Cardinality(Pinned(t) \cap D)
      BY PinnedFinite, FS_Difference, Zenon
    <3>. QED
      BY <2>1, <2>2, <3>1, <3>2
  <2>. QED
    BY <1>0, <2>1, <2>2, <2>3, <2>4 DEF Crowd
<1>2. CASE ~Full(t)
  BY <1>0, <1>2 DEF Dropped, Full
<1>. QED
  BY <1>1, <1>2

\* A pin that is put.
LEMMA PutPin ==
  ASSUME Typed, NEW m \in Model
  PROVE  /\ clock \in Nat /\ [model |-> m, at |-> clock] \in Pin
         /\ [model |-> m, at |-> clock] # Gone
<1>1. clock \in Nat
  <2>1. MaxClock \in Nat
    BY PinAssumption, Zenon
  <2>. QED
    BY <2>1 DEF Typed, Marks
<1>. QED
  BY <1>1, GoneAssumption DEF Pin

\* The tables hold pins or nothing.
LEMMA EmptyFacts == Empty \in Table /\ \A k \in Key : Empty[k] = Gone
  BY DEF Empty, Table

\* Those put later than k's pin are finitely many.
LEMMA NewerFinite ==
  ASSUME NEW k \in Key, NEW S, S \subseteq Newer(k)
  PROVE  /\ IsFiniteSet(Newer(k)) /\ Cardinality(S) <= Cardinality(Newer(k))
         /\ Cardinality(S) \in Nat /\ Cardinality(Newer(k)) \in Nat
<1>1. IsFiniteSet(Newer(k))
  BY PinAssumption, FS_Subset DEF Newer
<1>. QED
  BY <1>1, FS_Subset, FS_CardinalityType

\* It holds at the start.
LEMMA PinInit == Init => PinInv
<1>. SUFFICES ASSUME Init PROVE PinInv
  OBVIOUS
<1>1. Typed
  <2>1. MaxClock \in Nat /\ MaxRestarts \in Nat
    BY PinAssumption, Zenon
  <2>2. Tables
    BY EmptyFacts DEF Init, Tables
  <2>3. Marks
    <3>1. 0 \in 0..MaxClock /\ 0 \in 0..MaxRestarts
      BY <2>1
    <3>2. fate \in [Key -> {"none", "new", "copied", "lost", "saved"}]
      BY DEF Init
    <3>. QED
      BY <3>1, <3>2 DEF Init, Marks
  <2>. QED
    BY <2>2, <2>3 DEF Typed
<1>2. FlushHolds /\ DownRests /\ SavedKept /\ NextFlushSees
  BY DEF Init, FlushHolds, DownRests, SavedKept, NextFlushSees, Empty
<1>3. Dated
  BY EmptyFacts DEF Init, Dated, DatedBy
<1>4. Bounded
  BY EmptyPins DEF Init, Bounded
<1>5. Explained
  BY DEF Init, Explained, Empty
<1>. QED
  BY <1>1, <1>2, <1>3, <1>4, <1>5 DEF PinInv

\* A turn is put.
LEMMA PutStep == ASSUME PinInv, NEW k \in Key, NEW m \in Model, Put(k, m) PROVE PinInv'
<1>. DEFINE p == [model |-> m, at |-> clock]
<1>1. /\ Typed /\ Tables /\ Marks /\ FlushHolds /\ DownRests /\ Bounded /\ Dated /\ Explained
      /\ SavedKept /\ NextFlushSees
  BY DEF PinInv, Typed
<1>2. PICK D \in Dropped(table) :
        /\ table' = [j \in Key |-> IF j = k THEN p ELSE IF j \in D THEN Gone ELSE table[j]]
        /\ fate' = [j \in Key |-> IF j = k THEN "new" ELSE IF j \in D THEN "none" ELSE fate[j]]
  BY DEF Put
<1>3. /\ up /\ last' = [last EXCEPT ![k] = p] /\ dirty' = TRUE
      /\ UNCHANGED <<clock, up, restarts, flusher, snap, file>>
  BY DEF Put
<1>4. clock \in Nat /\ p \in Pin /\ p # Gone /\ p.at = clock
  BY <1>1, PutPin
<1>5. /\ D \subseteq Pinned(table)
      /\ \/ D = {} /\ Cardinality(Pinned(table)) < MaxEntries
         \/ /\ Cardinality(Pinned(table)) = MaxEntries
            /\ Cardinality(Pinned(table) \ D) = Crowd /\ Crowd < MaxEntries
            /\ \A i \in D, j \in Pinned(table) \ D : table[i].at <= table[j].at
  BY <1>1, <1>2, DroppedFacts DEF Tables, Bounded
<1>. HIDE DEF p
<1>6. /\ last'[k] = p /\ \A j \in Key \ {k} : last'[j] = last[j]
      /\ table'[k] = p /\ \A j \in Key \ {k} : table'[j] = IF j \in D THEN Gone ELSE table[j]
      /\ fate'[k] = "new" /\ \A j \in Key \ {k} : fate'[j] = IF j \in D THEN "none" ELSE fate[j]
  BY <1>1, <1>2, <1>3 DEF Tables, Table
<1>7. Typed'
  <2>1. table' \in Table /\ last' \in Table
    BY <1>1, <1>2, <1>3, <1>4 DEF Tables, Table
  <2>2. fate' \in [Key -> {"none", "new", "copied", "lost", "saved"}]
    BY <1>1, <1>2 DEF Marks
  <2>. QED
    BY <1>1, <1>3, <2>1, <2>2 DEF Typed, Tables, Marks
<1>8. FlushHolds' /\ DownRests' /\ SavedKept' /\ NextFlushSees'
  BY <1>1, <1>3, <1>6 DEF FlushHolds, DownRests, SavedKept, NextFlushSees
<1>9. Dated'
  <2>1. DatedBy(last', clock)
    BY <1>1, <1>4, <1>6 DEF Dated, DatedBy
  <2>2. DatedBy(table', clock)
    BY <1>1, <1>4, <1>6 DEF Dated, DatedBy
  <2>. QED
    BY <1>1, <1>3, <2>1, <2>2 DEF Dated
<1>10. Bounded'
  <2>1. Pinned(table') \subseteq (Pinned(table) \ D) \cup {k}
    BY <1>6 DEF Pinned
  <2>2. IsFiniteSet(Pinned(table) \ D) /\ Cardinality(Pinned(table) \ D) \in Nat
    BY PinnedFinite, FS_Difference, FS_CardinalityType, Zenon
  <2>3. /\ IsFiniteSet((Pinned(table) \ D) \cup {k})
        /\ Cardinality((Pinned(table) \ D) \cup {k}) <= Cardinality(Pinned(table) \ D) + 1
    <3>1. /\ IsFiniteSet((Pinned(table) \ D) \cup {k})
          /\ Cardinality((Pinned(table) \ D) \cup {k}) =
                IF k \in Pinned(table) \ D THEN Cardinality(Pinned(table) \ D)
                                           ELSE Cardinality(Pinned(table) \ D) + 1
      BY <2>2, FS_AddElement, Zenon
    <3>. QED
      BY <2>2, <3>1
  <2>4. Cardinality(Pinned(table) \ D) + 1 <= MaxEntries
    <3>1. CASE D = {} /\ Cardinality(Pinned(table)) < MaxEntries
      <4>1. Pinned(table) \ D = Pinned(table)
        BY <3>1
      <4>. QED
        BY <3>1, <4>1, PinnedFinite, PinAssumption
    <3>2. CASE Cardinality(Pinned(table) \ D) = Crowd /\ Crowd < MaxEntries
      BY <2>2, <3>2, PinAssumption
    <3>. QED
      BY <1>5, <3>1, <3>2
  <2>5. Cardinality(Pinned(table')) <= Cardinality((Pinned(table) \ D) \cup {k})
    BY <2>1, <2>3, FS_Subset
  <2>6. Cardinality(Pinned(table')) \in Nat /\ Cardinality((Pinned(table) \ D) \cup {k}) \in Nat
    BY <2>3, PinnedFinite, FS_CardinalityType
  <2>7. Cardinality(Pinned(table')) <= MaxEntries
    BY <2>2, <2>3, <2>4, <2>5, <2>6, PinAssumption
  <2>. QED
    BY <1>1, <1>3, <2>7 DEF Bounded
<1>11. Explained'
  <2>. SUFFICES ASSUME NEW j \in Key
                PROVE  \/ table'[j] = last'[j]
                       \/ /\ table'[j] = Gone /\ last'[j] # Gone
                          /\ Cardinality(Newer(j)') >= Crowd
    BY DEF Explained
  <2>1. CASE j = k
    BY <1>6, <2>1
  <2>2. ASSUME j # k, NEW S, S \subseteq Newer(j)', Cardinality(S) >= Crowd
        PROVE  Cardinality(Newer(j)') >= Crowd
    <3>1. IsFiniteSet(Newer(j)')
      BY PinAssumption, FS_Subset DEF Newer
    <3>2. Cardinality(S) <= Cardinality(Newer(j)')
      BY <2>2, <3>1, FS_Subset
    <3>3. Cardinality(S) \in Nat /\ Cardinality(Newer(j)') \in Nat /\ IsFiniteSet(S)
      BY <2>2, <3>1, FS_Subset, FS_CardinalityType
    <3>4. Crowd \in Int
      BY PinAssumption DEF Crowd
    <3>. QED
      BY <2>2, <3>2, <3>3, <3>4
  <2>3. CASE j # k /\ j \notin D
    <3>1. table'[j] = table[j] /\ last'[j] = last[j]
      BY <1>6, <2>3
    <3>2. CASE table[j] = last[j]
      BY <3>1, <3>2
    <3>3. CASE table[j] = Gone /\ last[j] # Gone /\ Cardinality(Newer(j)) >= Crowd
      <4>1. Newer(j) \subseteq Newer(j)'
        BY <1>1, <1>4, <1>6, <3>1, <3>3 DEF Newer, Dated, DatedBy
      <4>. QED
        BY <2>2, <2>3, <3>1, <3>3, <4>1
    <3>. QED
      BY <1>1, <1>3, <3>2, <3>3 DEF Explained
  <2>4. CASE j # k /\ j \in D
    <3>1. table'[j] = Gone /\ last'[j] = last[j] /\ table[j] # Gone
      BY <1>5, <1>6, <2>4 DEF Pinned
    <3>2. \A i \in Key : table[i] # Gone => table[i] = last[i]
      BY <1>1, <1>3 DEF Explained
    <3>3. /\ Cardinality(Pinned(table) \ D) = Crowd
          /\ \A i \in Pinned(table) \ D : table[j].at <= table[i].at
      BY <1>5, <2>4
    <3>4. \A i \in Pinned(table) \ D : last'[i] # Gone /\ last'[i].at >= last'[j].at
      <4>. TAKE i \in Pinned(table) \ D
      <4>1. CASE i = k
        BY <1>1, <1>4, <1>6, <3>1, <3>2, <4>1 DEF Dated, DatedBy
      <4>2. CASE i # k
        <5>1. i \in Key /\ table[i] # Gone
          BY DEF Pinned
        <5>2. table[i] \in Pin /\ table[j] \in Pin
          BY <1>1, <3>1, <5>1 DEF Tables, Table
        <5>. QED
          BY <1>6, <3>1, <3>2, <3>3, <4>2, <5>1, <5>2 DEF Pin
      <4>. QED
        BY <4>1, <4>2
    <3>5. Pinned(table) \ D \subseteq Newer(j)'
      BY <2>4, <3>4 DEF Newer, Pinned
    <3>6. Crowd \in Int
      BY PinAssumption DEF Crowd
    <3>7. Cardinality(Newer(j)') >= Crowd
      BY <2>2, <2>4, <3>3, <3>5, <3>6
    <3>. QED
      BY <3>1, <3>2, <3>7
  <2>. QED
    BY <2>1, <2>3, <2>4
<1>. QED
  BY <1>7, <1>8, <1>9, <1>10, <1>11 DEF PinInv

\* The ticker takes its copy.
LEMMA SnapshotStep == ASSUME PinInv, Snapshot PROVE PinInv'
<1>1. /\ Typed /\ Tables /\ Marks /\ FlushHolds /\ DownRests /\ Bounded /\ Dated /\ Explained
      /\ SavedKept /\ NextFlushSees
  BY DEF PinInv, Typed
<1>2. /\ up /\ flusher = "idle" /\ snap' = table /\ dirty' = FALSE /\ flusher' = "write"
      /\ UNCHANGED <<clock, up, restarts, table, file, last>>
  BY DEF Snapshot
<1>3. \A k \in Key : fate'[k] = IF fate[k] \in {"new", "lost"} THEN "copied" ELSE fate[k]
  BY DEF Snapshot
<1>4. Typed'
  <2>1. fate' \in [Key -> {"none", "new", "copied", "lost", "saved"}]
    BY <1>1, <1>3 DEF Marks, Snapshot
  <2>. QED
    BY <1>1, <1>2, <2>1 DEF Typed, Tables, Marks
<1>5. FlushHolds' /\ DownRests' /\ SavedKept' /\ NextFlushSees'
  <2>1. FlushHolds'
    BY <1>1, <1>2, <1>3 DEF FlushHolds, SavedKept
  <2>2. DownRests' /\ SavedKept'
    BY <1>1, <1>2, <1>3 DEF DownRests, SavedKept
  <2>3. NextFlushSees'
    BY <1>1, <1>2, <1>3 DEF FlushHolds, SavedKept, NextFlushSees
  <2>. QED
    BY <2>1, <2>2, <2>3
<1>6. Bounded' /\ Dated' /\ Explained'
  BY <1>1, <1>2 DEF Bounded, Dated, DatedBy, Explained, Newer
<1>. QED
  BY <1>4, <1>5, <1>6 DEF PinInv

\* It has written the temporary file, or gives up.
LEMMA WriteTempStep == ASSUME PinInv, WriteTemp \/ FlushFails PROVE PinInv'
<1>1. /\ Typed /\ Tables /\ Marks /\ FlushHolds /\ DownRests /\ Bounded /\ Dated /\ Explained
      /\ SavedKept /\ NextFlushSees
  BY DEF PinInv, Typed
<1>2. /\ flusher # "idle" /\ UNCHANGED <<clock, up, restarts, table, dirty, snap, file, last>>
      /\ \/ flusher' = "rename" /\ fate' = fate
         \/ flusher' = "idle" /\ fate' = Abandoned
  BY DEF WriteTemp, FlushFails
<1>3. \A k \in Key : \/ fate'[k] = fate[k] /\ (flusher' = "idle" => fate[k] # "copied")
                     \/ fate[k] = "copied" /\ fate'[k] = "lost"
                     \/ flusher' = "rename" /\ fate'[k] = fate[k]
  BY <1>2 DEF Abandoned
<1>4. Typed'
  <2>1. fate' \in [Key -> {"none", "new", "copied", "lost", "saved"}]
    BY <1>1, <1>2 DEF Marks, Abandoned
  <2>2. flusher' \in {"idle", "write", "rename"}
    BY <1>2
  <2>. QED
    BY <1>1, <1>2, <2>1, <2>2 DEF Typed, Tables, Marks
<1>5. FlushHolds' /\ DownRests' /\ SavedKept' /\ NextFlushSees'
  BY <1>1, <1>2, <1>3 DEF FlushHolds, DownRests, SavedKept, NextFlushSees
<1>6. Bounded' /\ Dated' /\ Explained'
  BY <1>1, <1>2 DEF Bounded, Dated, DatedBy, Explained, Newer
<1>. QED
  BY <1>4, <1>5, <1>6 DEF PinInv

\* The copy becomes the file.
LEMMA RenameStep == ASSUME PinInv, Rename PROVE PinInv'
<1>1. /\ Typed /\ Tables /\ Marks /\ FlushHolds /\ DownRests /\ Bounded /\ Dated /\ Explained
      /\ SavedKept /\ NextFlushSees
  BY DEF PinInv, Typed
<1>2. /\ flusher = "rename" /\ flusher' = "idle" /\ file' = snap
      /\ UNCHANGED <<clock, up, restarts, table, dirty, snap, last>>
  BY DEF Rename
<1>3. \A k \in Key : fate'[k] = IF fate[k] = "copied" THEN "saved" ELSE fate[k]
  BY DEF Rename
<1>4. Typed'
  <2>1. fate' \in [Key -> {"none", "new", "copied", "lost", "saved"}]
    BY <1>1 DEF Marks, Rename
  <2>. QED
    BY <1>1, <1>2, <2>1 DEF Typed, Tables, Marks
<1>5. FlushHolds' /\ DownRests' /\ SavedKept' /\ NextFlushSees'
  BY <1>1, <1>2, <1>3 DEF FlushHolds, DownRests, SavedKept, NextFlushSees
<1>6. Bounded' /\ Dated' /\ Explained'
  BY <1>1, <1>2 DEF Bounded, Dated, DatedBy, Explained, Newer
<1>. QED
  BY <1>4, <1>5, <1>6 DEF PinInv

\* The process dies, at any point of a flush.
LEMMA CrashStep == ASSUME PinInv, Crash PROVE PinInv'
<1>1. /\ Typed /\ Tables /\ Marks /\ FlushHolds /\ DownRests /\ Bounded /\ Dated /\ Explained
      /\ SavedKept /\ NextFlushSees
  BY DEF PinInv, Typed
<1>2. /\ restarts < MaxRestarts /\ up' = FALSE /\ restarts' = restarts + 1
      /\ table' = Empty /\ dirty' = FALSE /\ flusher' = "idle" /\ snap' = Empty
      /\ file' = file /\ clock' = clock
  BY DEF Crash, AfterCrash
<1>3. /\ last' = [k \in Key |-> IF fate[k] = "saved" THEN last[k] ELSE Gone]
      /\ fate' = [k \in Key |-> IF fate[k] = "saved" THEN "saved" ELSE "none"]
  BY DEF Crash
<1>4. Typed'
  <2>1. last' \in Table
    BY <1>1, <1>3 DEF Tables, Table
  <2>2. fate' \in [Key -> {"none", "new", "copied", "lost", "saved"}]
    BY <1>3
  <2>3. restarts' \in 0..MaxRestarts
    <3>1. MaxRestarts \in Nat
      BY PinAssumption, Zenon
    <3>. QED
      BY <1>1, <1>2, <3>1 DEF Marks
  <2>. QED
    BY <1>1, <1>2, <2>1, <2>2, <2>3, EmptyFacts DEF Typed, Tables, Marks
<1>5. FlushHolds' /\ DownRests' /\ SavedKept' /\ NextFlushSees'
  BY <1>1, <1>2, <1>3 DEF FlushHolds, DownRests, SavedKept, NextFlushSees
<1>6. Bounded'
  BY <1>1, <1>2, EmptyPins DEF Bounded
<1>7. Dated'
  <2>1. DatedBy(Empty, clock)
    BY EmptyFacts DEF DatedBy
  <2>2. DatedBy(last', clock)
    BY <1>1, <1>3 DEF Dated, DatedBy
  <2>. QED
    BY <1>1, <1>2, <2>1, <2>2 DEF Dated
<1>8. Explained'
  BY <1>2 DEF Explained
<1>. QED
  BY <1>4, <1>5, <1>6, <1>7, <1>8 DEF PinInv

\* What a start loads was in the file.
LEMMA LoadedFacts ==
  ASSUME Tables
  PROVE  /\ Loaded \in Table /\ Pinned(Loaded) \subseteq Pinned(file)
         /\ \A k \in Key : Loaded[k] = IF TooOld(file[k]) THEN Gone ELSE file[k]
  BY DEF Tables, Table, Loaded, Pinned

\* The next process starts from the file.
LEMMA RestartStep == ASSUME PinInv, Restart PROVE PinInv'
<1>1. /\ Typed /\ Tables /\ Marks /\ FlushHolds /\ DownRests /\ Bounded /\ Dated /\ Explained
      /\ SavedKept /\ NextFlushSees
  BY DEF PinInv, Typed
<1>2. /\ ~up /\ up' = TRUE /\ table' = Loaded
      /\ UNCHANGED <<clock, restarts, dirty, flusher, snap, file>>
  BY DEF Restart, Start
<1>3. /\ last' = [k \in Key |-> IF fate[k] # "saved" THEN Loaded[k]
                                ELSE IF TooOld(last[k]) THEN Gone ELSE last[k]]
      /\ fate' = [k \in Key |-> IF TooOld(last[k]) THEN "none" ELSE fate[k]]
  BY DEF Restart
<1>4. \A k \in Key : last'[k] = Loaded[k]
  BY <1>1, <1>3, LoadedFacts DEF SavedKept
<1>5. Typed'
  <2>1. last' \in Table
    BY <1>1, <1>3, <1>4, LoadedFacts DEF Table
  <2>2. fate' \in [Key -> {"none", "new", "copied", "lost", "saved"}]
    BY <1>1, <1>3 DEF Marks
  <2>. QED
    BY <1>1, <1>2, <2>1, <2>2, LoadedFacts DEF Typed, Tables, Marks
<1>6. flusher = "idle" /\ \A k \in Key : fate[k] \in {"none", "saved"}
  BY <1>1, <1>2 DEF DownRests
<1>7. SavedKept'
  <2>. SUFFICES ASSUME NEW k \in Key
                PROVE  fate'[k] = "saved" => file'[k] = last'[k]
    BY <1>2, <1>4 DEF SavedKept
  <2>. SUFFICES ASSUME fate'[k] = "saved" PROVE file'[k] = last'[k]
    OBVIOUS
  <2>1. ~TooOld(last[k]) /\ fate[k] = "saved"
    BY <1>3
  <2>2. file[k] = last[k]
    BY <1>1, <2>1 DEF SavedKept
  <2>. QED
    BY <1>2, <1>3, <2>1, <2>2
<1>8. FlushHolds' /\ DownRests' /\ NextFlushSees'
  BY <1>2, <1>3, <1>6 DEF FlushHolds, DownRests, NextFlushSees
<1>9. Bounded'
  <2>1. Cardinality(Pinned(Loaded)) <= MaxEntries
    BY <1>1, LoadedFacts, FewerPins DEF Bounded
  <2>. QED
    BY <1>1, <1>2, <2>1 DEF Bounded
<1>10. Dated'
  <2>1. \A k \in Key : Loaded[k] # Gone => Loaded[k].at <= clock
    BY <1>1, LoadedFacts DEF Dated, DatedBy
  <2>. QED
    BY <1>1, <1>2, <1>4, <2>1 DEF Dated, DatedBy
<1>11. Explained'
  BY <1>2, <1>4 DEF Explained
<1>. QED
  BY <1>5, <1>7, <1>8, <1>9, <1>10, <1>11 DEF PinInv

\* It starts without a file it can read.
LEMMA RestartUnreadStep == ASSUME PinInv, RestartUnread PROVE PinInv'
<1>1. /\ Typed /\ Tables /\ Marks /\ FlushHolds /\ DownRests /\ Bounded /\ Dated /\ Explained
      /\ SavedKept /\ NextFlushSees
  BY DEF PinInv, Typed
<1>2. /\ ~up /\ up' = TRUE /\ table' = Empty /\ last' = Empty /\ fate' = [k \in Key |-> "none"]
      /\ UNCHANGED <<clock, restarts, dirty, flusher, snap, file>>
  BY DEF RestartUnread, Start
<1>3. Typed'
  <2>1. fate' \in [Key -> {"none", "new", "copied", "lost", "saved"}]
    BY <1>2
  <2>. QED
    BY <1>1, <1>2, <2>1, EmptyFacts DEF Typed, Tables, Marks
<1>4. FlushHolds' /\ DownRests' /\ SavedKept' /\ NextFlushSees'
  BY <1>1, <1>2 DEF FlushHolds, DownRests, SavedKept, NextFlushSees
<1>5. Bounded'
  BY <1>1, <1>2, EmptyPins DEF Bounded
<1>6. Dated'
  BY <1>1, <1>2, EmptyFacts DEF Dated, DatedBy
<1>7. Explained'
  BY <1>2 DEF Explained
<1>. QED
  BY <1>3, <1>4, <1>5, <1>6, <1>7 DEF PinInv

\* Time passes.
LEMMA TickStep == ASSUME PinInv, Tick PROVE PinInv'
<1>1. /\ Typed /\ Tables /\ Marks /\ FlushHolds /\ DownRests /\ Bounded /\ Dated /\ Explained
      /\ SavedKept /\ NextFlushSees
  BY DEF PinInv, Typed
<1>2. /\ clock < MaxClock /\ clock' = clock + 1
      /\ UNCHANGED <<up, restarts, table, dirty, flusher, snap, file, last, fate>>
  BY DEF Tick
<1>3. MaxClock \in Nat /\ clock \in Nat
  <2>1. MaxClock \in Nat
    BY PinAssumption, Zenon
  <2>. QED
    BY <1>1, <2>1 DEF Marks
<1>4. Typed'
  <2>1. clock' \in 0..MaxClock
    BY <1>2, <1>3
  <2>. QED
    BY <1>1, <1>2, <2>1 DEF Typed, Tables, Marks
<1>5. FlushHolds' /\ DownRests' /\ SavedKept' /\ NextFlushSees'
  BY <1>1, <1>2 DEF FlushHolds, DownRests, SavedKept, NextFlushSees
<1>6. Bounded' /\ Explained'
  BY <1>1, <1>2 DEF Bounded, Explained, Newer
<1>7. ASSUME NEW t \in Table, DatedBy(t, clock) PROVE DatedBy(t, clock')
  <2>. SUFFICES ASSUME NEW k \in Key, t[k] # Gone PROVE t[k].at <= clock'
    BY DEF DatedBy
  <2>1. t[k].at \in Nat
    BY DEF Table, Pin
  <2>. QED
    BY <1>2, <1>3, <1>7, <2>1 DEF DatedBy
<1>8. Dated'
  BY <1>1, <1>2, <1>7 DEF Dated, Tables
<1>. QED
  BY <1>4, <1>5, <1>6, <1>8 DEF PinInv

\* Nothing happens.
LEMMA PinStutter == ASSUME PinInv, UNCHANGED vars PROVE PinInv'
  BY DEF vars, PinInv, Typed, Tables, Marks, FlushHolds, DownRests, Bounded, Dated, DatedBy,
         Explained, Newer, SavedKept, NextFlushSees

\* Every step keeps the invariant.
LEMMA PinStep == PinInv /\ [Next]_vars => PinInv'
<1>. SUFFICES ASSUME PinInv, [Next]_vars PROVE PinInv'
  OBVIOUS
<1>1. ASSUME NEW k \in Key, NEW m \in Model, Put(k, m) PROVE PinInv'
  BY <1>1, PutStep
<1>2. CASE Snapshot \/ WriteTemp \/ Rename \/ FlushFails
  BY <1>2, SnapshotStep, WriteTempStep, RenameStep
<1>3. CASE Crash \/ Restart \/ RestartUnread
  BY <1>3, CrashStep, RestartStep, RestartUnreadStep
<1>4. CASE Tick
  BY <1>4, TickStep
<1>5. CASE UNCHANGED vars
  BY <1>5, PinStutter
<1>. QED
  BY <1>1, <1>2, <1>3, <1>4, <1>5 DEF Next

\* The inductive invariant holds in every behaviour.
THEOREM PinAlways == Spec => []PinInv
  BY PinInit, PinStep, PTL DEF Spec

\* The table of pins never outgrows its bound, by puts or by what a start loads,
\* for any bound and any share that a full table drops.
THEOREM TypesHold == Spec => []TypeOK
<1>1. PinInv => TypeOK
  BY DEF PinInv, Typed, Tables, Marks, Bounded, TypeOK
<1>. QED
  BY <1>1, PinAlways, PTL

\* A pin whose flush completed is the one the next process uses, wherever a crash
\* fell, and a running process serves the last pin of every key it still has.
THEOREM SavedIsKept == Spec => []SavedKept
<1>1. PinInv => SavedKept
  BY DEF PinInv
<1>. QED
  BY <1>1, PinAlways, PTL

\* A put that no copy has taken yet keeps the table dirty, so no put is forgotten
\* by the ticker, and one that was copied is on its way to the disk.
THEOREM FlushSees == Spec => []NextFlushSees
<1>1. PinInv => NextFlushSees
  BY DEF PinInv
<1>. QED
  BY <1>1, PinAlways, PTL

\* Fewer than MaxEntries less one share of other keys cannot push a pin out.
THEOREM RecentStays == Spec => []RecentSurvives
<1>1. PinInv => RecentSurvives
  <2>. SUFFICES ASSUME PinInv, NEW k \in Key, up, last[k] # Gone, Cardinality(Newer(k)) < Crowd
                PROVE  table[k] = last[k]
    BY DEF RecentSurvives, Newer, Crowd
  <2>1. Cardinality(Newer(k)) \in Nat /\ Crowd \in Int
    BY NewerFinite, PinAssumption DEF Crowd
  <2>. QED
    BY <2>1 DEF PinInv, Explained
<1>. QED
  BY <1>1, PinAlways, PTL
===============================================================================
