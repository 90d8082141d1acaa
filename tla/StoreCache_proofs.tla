--------------------------- MODULE StoreCache_proofs ---------------------------
(***************************************************************************)
(* Proofs about StoreCache, for any number of goroutines, rows and tables: *)
(* type correctness, and that every stale row is explained: it awaits the  *)
(* next probe, or one of the named gaps hid it.                            *)
(***************************************************************************)
EXTENDS StoreCache, TLAPS

\* The probe has not caught up with the database's version and nobody is about to
\* record that it has.
Outdated == /\ dataVersion # version
            /\ \A h \in Goroutine : ~(pc[h] = "record" /\ task[h].ver = version)

\* g has queried the table of row i.
HasRead(g, i) == \E n \in DOMAIN Tables : n < task[g].next /\ TableOf[i] = Tables[n]
Accurate(g) == \A i \in Item : HasRead(g, i) => task[g].got[i] = db[i]

\* A reload that no one crossed has read the stored rows, unless another process
\* wrote meanwhile; then it does not record the present version.
ReaderRight == \A g \in Goroutine :
    pc[g] = "read" /\ ~task[g].crossed =>
        Accurate(g) \/ (Outdated /\ ~(task[g].probe /\ task[g].ver = version))

\* So it is with the value that SetSetting is about to patch in.
PatchRight == \A g \in Goroutine :
    pc[g] = "patch" /\ ~task[g].crossed =>
        task[g].got[task[g].item] = db[task[g].item] \/ Outdated

\* Someone is about to refresh row i.
Promise(i) == \E g \in Goroutine : pc[g] = "read" \/ (pc[g] = "patch" /\ task[g].item = i)

\* Every row is as stored, doubtful or about to be refreshed, or a probe will see
\* that it is not.
Accounted == Outdated \/ \A i \in Item : cache[i] = db[i] \/ i \in doubt \/ Promise(i)

\* Nobody has seen a version that is yet to come, and a reload starts at the first table.
Versions == dataVersion <= version /\ \A g \in Goroutine : task[g].ver <= version
FirstTable == \A g \in Goroutine : pc[g] \in {"pragma", "compare"} => task[g].next = 1

\* What is cached, or about to be, was stored.
Stored == /\ \A i \in Item : cache[i] <= db[i]
          /\ \A g \in Goroutine, i \in Item : task[g].got[i] <= db[i]

\* The types, one by one.
Rows == db \in [Item -> Nat] /\ cache \in [Item -> Nat] /\ version \in Nat /\ dataVersion \in Nat
Calls == /\ pc \in [Goroutine -> {"idle", "patch", "read", "pragma", "compare", "record"}]
         /\ task \in [Goroutine -> Task]
Notes == recent \in BOOLEAN /\ author \in [Item -> {"none", "own", "external"}] /\ doubt \subseteq Item
Typed == Rows /\ Calls /\ Notes

CacheInv == Typed /\ Stored /\ ReaderRight /\ PatchRight /\ Accounted /\ Versions /\ FirstTable

\* A call that has not begun.
LEMMA NoTaskFacts ==
  /\ NoTask \in Task /\ NoTask.probe = FALSE /\ NoTask.ver = 0 /\ NoTask.next = 1
  /\ NoTask.crossed = FALSE /\ NoTask.got = [i \in Item |-> 0]
<1>1. (CHOOSE i \in Item : TRUE) \in Item
  BY StoreAssumption
<1>. QED
  BY <1>1 DEF NoTask, Task

\* What the locals of a call are.
LEMMA TaskFacts ==
  ASSUME Typed, NEW g \in Goroutine
  PROVE  /\ task[g].probe \in BOOLEAN /\ task[g].ver \in Nat /\ task[g].next \in Nat
         /\ task[g].got \in [Item -> Nat] /\ task[g].item \in Item /\ task[g].crossed \in BOOLEAN
  BY DEF Typed, Calls, Task

\* What crossing does: the actor's locals are t, those of the others are as they
\* were, but for the mark on a call in progress.
LEMMA CrossFacts ==
  ASSUME Typed, NEW g \in Goroutine, NEW t \in Task, task' = Cross(g, t)
  PROVE  /\ task' \in [Goroutine -> Task] /\ task'[g] = t
         /\ \A h \in Goroutine \ {g} :
               /\ task'[h].probe = task[h].probe /\ task'[h].ver = task[h].ver
               /\ task'[h].next = task[h].next /\ task'[h].got = task[h].got
               /\ task'[h].item = task[h].item
               /\ task'[h].crossed = (task[h].crossed \/ pc[h] # "idle")
<1>1. \A h \in Goroutine \ {g} : task'[h] = [task[h] EXCEPT !.crossed = @ \/ pc[h] # "idle"]
  BY DEF Cross
<1>2. task'[g] = t /\ DOMAIN task' = Goroutine
  BY DEF Cross
<1>3. \A h \in Goroutine \ {g} :
         /\ task'[h] \in Task
         /\ task'[h].probe = task[h].probe /\ task'[h].ver = task[h].ver
         /\ task'[h].next = task[h].next /\ task'[h].got = task[h].got
         /\ task'[h].item = task[h].item
         /\ task'[h].crossed = (task[h].crossed \/ pc[h] # "idle")
  <2>. TAKE h \in Goroutine \ {g}
  <2>1. task[h] \in Task
    BY DEF Typed, Calls
  <2>. QED
    BY <1>1, <2>1 DEF Task
<1>4. task' \in [Goroutine -> Task]
  BY <1>1, <1>2, <1>3 DEF Cross
<1>. QED
  BY <1>2, <1>3, <1>4

\* The probe stays behind while nobody gets ready to record the present version.
LEMMA StaysOutdated ==
  ASSUME Outdated, NEW g \in Goroutine, version' = version, dataVersion' # version,
         \A h \in Goroutine \ {g} : pc'[h] = pc[h] /\ task'[h].ver = task[h].ver,
         ~(pc'[g] = "record" /\ task'[g].ver = version)
  PROVE  Outdated'
  BY DEF Outdated

\* Who has promised to refresh a row goes on doing so while another one acts.
LEMMA PromiseKept ==
  ASSUME NEW g \in Goroutine, NEW i \in Item, Promise(i),
         pc[g] # "read" /\ ~(pc[g] = "patch" /\ task[g].item = i),
         \A h \in Goroutine \ {g} : pc'[h] = pc[h] /\ task'[h].item = task[h].item
  PROVE  Promise(i)'
  BY DEF Promise

\* It holds at the start.
LEMMA CacheInit == Init => CacheInv
<1>. SUFFICES ASSUME Init PROVE CacheInv
  OBVIOUS
<1>1. Typed
  BY NoTaskFacts DEF Init, Typed, Rows, Calls, Notes
<1>2. Stored
  BY NoTaskFacts DEF Init, Stored
<1>3. ReaderRight /\ PatchRight /\ FirstTable
  BY DEF Init, ReaderRight, PatchRight, FirstTable
<1>4. Accounted
  BY DEF Init, Accounted
<1>5. Versions
  BY NoTaskFacts DEF Init, Versions
<1>. QED
  BY <1>1, <1>2, <1>3, <1>4, <1>5 DEF CacheInv

\* Another process writes: the probe is behind now.
LEMMA ExternalStep == ASSUME CacheInv, NEW i \in Item, External(i) PROVE CacheInv'
<1>1. /\ db' = [db EXCEPT ![i] = @ + 1] /\ author' = [author EXCEPT ![i] = "external"]
      /\ version' = version + 1
      /\ UNCHANGED <<cache, dataVersion, recent, pc, task, doubt>>
  BY DEF External, Write
<1>2. Typed /\ Rows /\ Calls /\ Notes /\ Stored /\ Versions /\ FirstTable
  BY DEF CacheInv, Typed
<1>3. Typed'
  BY <1>1, <1>2 DEF Typed, Rows, Calls, Notes
<1>4. \A j \in Item : db[j] \in Nat /\ db'[j] \in Nat /\ db[j] <= db'[j]
  BY <1>1, <1>2 DEF Rows
<1>5. Stored'
  <2>1. \A j \in Item : cache'[j] <= db'[j]
    BY <1>1, <1>2, <1>4 DEF Rows, Stored
  <2>2. ASSUME NEW g \in Goroutine, NEW j \in Item PROVE task'[g].got[j] <= db'[j]
    BY <1>1, <1>2, <1>4, TaskFacts DEF Stored
  <2>. QED
    BY <2>1, <2>2 DEF Stored
<1>6. Outdated' /\ \A g \in Goroutine : task'[g].ver # version'
  <2>1. ASSUME NEW g \in Goroutine PROVE task'[g].ver # version'
    BY <1>1, <1>2, TaskFacts DEF Versions, Rows
  <2>2. dataVersion' # version'
    BY <1>1, <1>2 DEF Versions, Rows
  <2>. QED
    BY <2>1, <2>2 DEF Outdated
<1>7. ReaderRight' /\ PatchRight' /\ Accounted'
  BY <1>6 DEF ReaderRight, PatchRight, Accounted
<1>8. Versions'
  <2>1. ASSUME NEW g \in Goroutine PROVE task'[g].ver <= version'
    BY <1>1, <1>2, TaskFacts DEF Versions, Rows
  <2>. QED
    BY <1>1, <1>2, <2>1 DEF Versions, Rows
<1>9. FirstTable'
  BY <1>1, <1>2 DEF FirstTable
<1>. QED
  BY <1>3, <1>5, <1>7, <1>8, <1>9 DEF CacheInv
\* The conjuncts of the invariant, one by one.
LEMMA Parts ==
  ASSUME CacheInv
  PROVE  /\ Typed /\ Rows /\ Calls /\ Notes /\ Stored /\ ReaderRight /\ PatchRight /\ Accounted
         /\ Versions /\ FirstTable
  BY DEF CacheInv, Typed

\* A call that changes a row first marks the others: what is left to prove of it.
LEMMA WriteMarks ==
  ASSUME CacheInv, NEW g \in Goroutine, NEW i \in Item, NEW t \in Task,
         db' = [db EXCEPT ![i] = @ + 1], task' = Cross(g, t),
         t.ver = 0, t.next = 1, \A j \in Item : t.got[j] <= db'[j],
         UNCHANGED <<version, cache, dataVersion>>,
         \A h \in Goroutine \ {g} : pc'[h] = pc[h],
         pc'[g] # "record" /\ (pc'[g] = "patch" => t.got[t.item] = db'[t.item])
  PROVE  /\ Stored' /\ ReaderRight' /\ PatchRight' /\ Versions' /\ FirstTable'
         /\ (Outdated => Outdated')
         /\ \A j \in Item \ {i} : db'[j] = db[j]
<1>1. Typed /\ Rows /\ Calls /\ Notes /\ Stored /\ Versions /\ FirstTable
  BY Parts
<1>2. /\ task'[g] = t
      /\ \A h \in Goroutine \ {g} :
            /\ task'[h].ver = task[h].ver /\ task'[h].next = task[h].next
            /\ task'[h].got = task[h].got
            /\ task'[h].crossed = (task[h].crossed \/ pc[h] # "idle")
  BY <1>1, CrossFacts
<1>3. \A j \in Item : db[j] \in Nat /\ db'[j] \in Nat /\ db[j] <= db'[j]
  BY <1>1 DEF Rows
<1>4. Stored'
  <2>1. \A j \in Item : cache'[j] <= db'[j]
    BY <1>1, <1>3 DEF Rows, Stored
  <2>2. ASSUME NEW h \in Goroutine, NEW j \in Item PROVE task'[h].got[j] <= db'[j]
    <3>1. CASE h = g
      BY <1>2, <3>1
    <3>2. CASE h # g
      BY <1>1, <1>2, <1>3, <3>2, TaskFacts DEF Stored
    <3>. QED
      BY <3>1, <3>2
  <2>. QED
    BY <2>1, <2>2 DEF Stored
<1>5. ReaderRight'
  <2>. SUFFICES ASSUME NEW h \in Goroutine, pc'[h] = "read", ~task'[h].crossed
                PROVE  Accurate(h)'
    BY DEF ReaderRight
  <2>1. h = g
    BY <1>2
  <2>2. task'[h].next = 1
    BY <1>2, <2>1
  <2>3. \A n \in DOMAIN Tables : ~(n < 1)
    BY StoreAssumption
  <2>. QED
    BY <2>2, <2>3 DEF Accurate, HasRead
<1>6. PatchRight'
  <2>. SUFFICES ASSUME NEW h \in Goroutine, pc'[h] = "patch", ~task'[h].crossed
                PROVE  task'[h].got[task'[h].item] = db'[task'[h].item]
    BY DEF PatchRight
  <2>1. h = g
    BY <1>2
  <2>. QED
    BY <1>2, <2>1
<1>7. Versions'
  <2>1. ASSUME NEW h \in Goroutine PROVE task'[h].ver <= version'
    BY <1>1, <1>2 DEF Versions, Rows
  <2>. QED
    BY <1>1, <2>1 DEF Versions
<1>8. FirstTable'
  <2>. SUFFICES ASSUME NEW h \in Goroutine, pc'[h] \in {"pragma", "compare"}
                PROVE  task'[h].next = 1
    BY DEF FirstTable
  <2>. QED
    BY <1>1, <1>2 DEF FirstTable
<1>9. Outdated => Outdated'
  <2>. SUFFICES ASSUME Outdated PROVE Outdated'
    OBVIOUS
  <2>. QED
    BY <1>2, StaysOutdated DEF Outdated
<1>10. \A j \in Item \ {i} : db'[j] = db[j]
  BY <1>1 DEF Rows
<1>. QED
  BY <1>4, <1>5, <1>6, <1>7, <1>8, <1>9, <1>10

\* A row is saved, and a reload begins.
LEMMA SaveStep == ASSUME CacheInv, NEW g \in Goroutine, NEW i \in Item, Save(g, i) PROVE CacheInv'
<1>1. /\ pc[g] = "idle" /\ pc' = [pc EXCEPT ![g] = "read"]
      /\ db' = [db EXCEPT ![i] = @ + 1] /\ author' = [author EXCEPT ![i] = "own"]
      /\ task' = Cross(g, NoTask)
      /\ UNCHANGED <<version, cache, dataVersion, recent, doubt>>
  BY DEF Save, Write, Goto
<1>2. Typed /\ Rows /\ Calls /\ Notes
  BY Parts
<1>3. pc'[g] = "read" /\ \A h \in Goroutine \ {g} : pc'[h] = pc[h]
  BY <1>1, <1>2 DEF Calls
<1>4. \A j \in Item : NoTask.got[j] <= db'[j]
  BY <1>1, <1>2, NoTaskFacts DEF Rows
<1>5. Typed'
  <2>1. task' \in [Goroutine -> Task]
    BY <1>1, <1>2, NoTaskFacts, CrossFacts
  <2>. QED
    BY <1>1, <1>2, <2>1 DEF Typed, Rows, Calls, Notes
<1>6. Stored' /\ ReaderRight' /\ PatchRight' /\ Versions' /\ FirstTable'
  BY <1>1, <1>3, <1>4, NoTaskFacts, WriteMarks
<1>7. Accounted'
  BY <1>3 DEF Accounted, Promise
<1>. QED
  BY <1>5, <1>6, <1>7 DEF CacheInv

\* The locals of SetSetting.
LEMMA SettingTask ==
  ASSUME NEW u \in Task, NEW i \in Item, NEW x \in Nat
  PROVE  [u EXCEPT !.item = i, !.got[i] = x] \in Task
<1>1. [u EXCEPT !.item = i] \in Task
  BY DEF Task
<1>2. ASSUME NEW v \in Task PROVE [v EXCEPT !.got[i] = x] \in Task
  BY DEF Task
<1>. QED
  BY <1>1, <1>2

\* A setting is written, to be patched in.
LEMMA SetSettingStep ==
  ASSUME CacheInv, NEW g \in Goroutine, NEW i \in Item, SetSetting(g, i) PROVE CacheInv'
<1>. DEFINE t == [NoTask EXCEPT !.item = i, !.got[i] = db[i] + 1]
<1>1. /\ pc[g] = "idle" /\ pc' = [pc EXCEPT ![g] = "patch"]
      /\ db' = [db EXCEPT ![i] = @ + 1] /\ author' = [author EXCEPT ![i] = "own"]
      /\ task' = Cross(g, t)
      /\ UNCHANGED <<version, cache, dataVersion, recent, doubt>>
  BY DEF SetSetting, Write, Goto
<1>2. Typed /\ Rows /\ Calls /\ Notes /\ Accounted
  BY Parts
<1>3. pc'[g] = "patch" /\ \A h \in Goroutine \ {g} : pc'[h] = pc[h]
  BY <1>1, <1>2 DEF Calls
<1>4. db[i] \in Nat
  BY <1>2 DEF Rows
<1>5. /\ t \in Task /\ t.ver = 0 /\ t.next = 1 /\ t.item = i
      /\ t.got = [[j \in Item |-> 0] EXCEPT ![i] = db[i] + 1]
  <2>1. t.ver = 0 /\ t.next = 1 /\ t.item = i
    BY DEF NoTask
  <2>2. t.got = [[j \in Item |-> 0] EXCEPT ![i] = db[i] + 1]
    BY DEF NoTask
  <2>3. t \in Task
    <3>1. db[i] + 1 \in Nat /\ NoTask \in Task
      BY <1>4, NoTaskFacts
    <3>. QED
      BY <3>1, SettingTask, Zenon
  <2>. QED
    BY <2>1, <2>2, <2>3
<1>. HIDE DEF t
<1>6. (\A j \in Item : t.got[j] <= db'[j]) /\ t.got[t.item] = db'[t.item]
  BY <1>1, <1>2, <1>5 DEF Rows
<1>7. Typed'
  <2>1. task' \in [Goroutine -> Task]
    BY <1>1, <1>2, <1>5, CrossFacts
  <2>. QED
    BY <1>1, <1>2, <2>1 DEF Typed, Rows, Calls, Notes
<1>8. /\ Stored' /\ ReaderRight' /\ PatchRight' /\ Versions' /\ FirstTable'
      /\ (Outdated => Outdated') /\ \A j \in Item \ {i} : db'[j] = db[j]
  BY <1>1, <1>3, <1>5, <1>6, WriteMarks
<1>9. Accounted'
  <2>. SUFFICES ASSUME ~Outdated, NEW j \in Item
                PROVE  cache'[j] = db'[j] \/ j \in doubt' \/ Promise(j)'
    BY <1>8 DEF Accounted
  <2>1. CASE j = i
    <3>1. task'[g].item = i
      BY <1>1, <1>2, <1>5, CrossFacts
    <3>. QED
      BY <1>3, <2>1, <3>1 DEF Promise
  <2>2. CASE j # i
    <3>1. \A h \in Goroutine \ {g} : task'[h].item = task[h].item
      BY <1>1, <1>2, <1>5, CrossFacts
    <3>2. Promise(j) => Promise(j)'
      BY <1>1, <1>3, <3>1, PromiseKept
    <3>. QED
      BY <1>1, <1>2, <1>8, <2>2, <3>2 DEF Accounted
  <2>. QED
    BY <2>1, <2>2
<1>. QED
  BY <1>7, <1>8, <1>9 DEF CacheInv

\* A transform is switched: nothing will refresh it, so it is doubtful.
LEMMA ToggleStep ==
  ASSUME CacheInv, NEW g \in Goroutine, NEW i \in Item, Toggle(g, i) PROVE CacheInv'
<1>1. /\ pc[g] = "idle" /\ pc' = pc
      /\ db' = [db EXCEPT ![i] = @ + 1] /\ author' = [author EXCEPT ![i] = "own"]
      /\ task' = Cross(g, NoTask) /\ doubt' = doubt \cup {i}
      /\ UNCHANGED <<version, cache, dataVersion, recent>>
  BY DEF Toggle, Write
<1>2. Typed /\ Rows /\ Calls /\ Notes /\ Accounted
  BY Parts
<1>3. \A j \in Item : NoTask.got[j] <= db'[j]
  BY <1>1, <1>2, NoTaskFacts DEF Rows
<1>4. Typed'
  <2>1. task' \in [Goroutine -> Task]
    BY <1>1, <1>2, NoTaskFacts, CrossFacts
  <2>2. doubt' \subseteq Item
    BY <1>1, <1>2 DEF Notes
  <2>. QED
    BY <1>1, <1>2, <2>1, <2>2 DEF Typed, Rows, Calls, Notes
<1>5. /\ Stored' /\ ReaderRight' /\ PatchRight' /\ Versions' /\ FirstTable'
      /\ (Outdated => Outdated') /\ \A j \in Item \ {i} : db'[j] = db[j]
  <2>1. \A h \in Goroutine \ {g} : pc'[h] = pc[h]
    BY <1>1
  <2>2. pc'[g] # "record" /\ (pc'[g] = "patch" => NoTask.got[NoTask.item] = db'[NoTask.item])
    BY <1>1
  <2>. QED
    BY <1>1, <1>3, <2>1, <2>2, NoTaskFacts, WriteMarks
<1>6. Accounted'
  <2>. SUFFICES ASSUME ~Outdated, NEW j \in Item \ {i}
                PROVE  cache'[j] = db'[j] \/ j \in doubt' \/ Promise(j)'
    BY <1>1, <1>5 DEF Accounted
  <2>1. \A h \in Goroutine \ {g} : task'[h].item = task[h].item
    BY <1>1, <1>2, NoTaskFacts, CrossFacts
  <2>2. Promise(j) => Promise(j)'
    BY <1>1, <2>1, PromiseKept
  <2>. QED
    BY <1>1, <1>2, <1>5, <2>2 DEF Accounted
<1>. QED
  BY <1>4, <1>5, <1>6 DEF CacheInv

\* A call that ends a refresh marks the others too.
LEMMA RefreshMarks ==
  ASSUME CacheInv, NEW g \in Goroutine, NEW t \in Task, task' = Cross(g, t),
         t.ver <= version, \A j \in Item : t.got[j] <= db[j],
         UNCHANGED <<db, version, dataVersion>>,
         \A h \in Goroutine \ {g} : pc'[h] = pc[h], pc'[g] \in {"idle", "record"}
  PROVE  /\ ReaderRight' /\ PatchRight' /\ Versions' /\ FirstTable'
         /\ \A h \in Goroutine, j \in Item : task'[h].got[j] <= db'[j]
<1>1. Typed /\ Rows /\ Calls /\ Notes /\ Stored /\ Versions /\ FirstTable
  BY Parts
<1>2. /\ task'[g] = t
      /\ \A h \in Goroutine \ {g} :
            /\ task'[h].ver = task[h].ver /\ task'[h].next = task[h].next
            /\ task'[h].got = task[h].got
            /\ task'[h].crossed = (task[h].crossed \/ pc[h] # "idle")
  BY <1>1, CrossFacts
<1>3. ReaderRight' /\ PatchRight'
  BY <1>2 DEF ReaderRight, PatchRight
<1>4. Versions'
  <2>1. ASSUME NEW h \in Goroutine PROVE task'[h].ver <= version'
    BY <1>1, <1>2 DEF Versions, Rows
  <2>. QED
    BY <1>1, <2>1 DEF Versions
<1>5. FirstTable'
  <2>. SUFFICES ASSUME NEW h \in Goroutine, pc'[h] \in {"pragma", "compare"}
                PROVE  task'[h].next = 1
    BY DEF FirstTable
  <2>. QED
    BY <1>1, <1>2 DEF FirstTable
<1>6. ASSUME NEW h \in Goroutine, NEW j \in Item PROVE task'[h].got[j] <= db'[j]
  <2>1. CASE h = g
    BY <1>2, <2>1
  <2>2. CASE h # g
    BY <1>1, <1>2, <2>2 DEF Stored
  <2>. QED
    BY <2>1, <2>2
<1>. QED
  BY <1>3, <1>4, <1>5, <1>6

\* The setting is patched in: the row is as stored, or crossed and doubtful.
LEMMA PatchStep == ASSUME CacheInv, NEW g \in Goroutine, Patch(g) PROVE CacheInv'
<1>. DEFINE i == task[g].item
<1>1. /\ pc[g] = "patch" /\ cache' = [cache EXCEPT ![i] = task[g].got[i]]
      /\ doubt' = IF task[g].crossed THEN doubt \cup {i} ELSE doubt
      /\ task' = Cross(g, NoTask) /\ pc' = [pc EXCEPT ![g] = "idle"]
      /\ UNCHANGED <<db, version, dataVersion, recent, author>>
  BY DEF Patch, Goto
<1>2. Typed /\ Rows /\ Calls /\ Notes /\ Stored /\ PatchRight /\ Accounted
  BY Parts
<1>3. i \in Item /\ task[g].got \in [Item -> Nat] /\ task[g].crossed \in BOOLEAN
  BY <1>2, TaskFacts
<1>4. pc'[g] = "idle" /\ \A h \in Goroutine \ {g} : pc'[h] = pc[h]
  BY <1>1, <1>2 DEF Calls
<1>. HIDE DEF i
<1>5. \A j \in Item : cache'[j] = IF j = i THEN task[g].got[i] ELSE cache[j]
  BY <1>1, <1>2, <1>3 DEF Rows
<1>6. Typed'
  <2>1. task' \in [Goroutine -> Task]
    BY <1>1, <1>2, NoTaskFacts, CrossFacts
  <2>2. doubt' \subseteq Item
    BY <1>1, <1>2, <1>3 DEF Notes
  <2>3. cache' \in [Item -> Nat]
    BY <1>1, <1>2, <1>3 DEF Rows
  <2>. QED
    BY <1>1, <1>2, <2>1, <2>2, <2>3 DEF Typed, Rows, Calls, Notes
<1>7. /\ ReaderRight' /\ PatchRight' /\ Versions' /\ FirstTable'
      /\ \A h \in Goroutine, j \in Item : task'[h].got[j] <= db'[j]
  <2>1. NoTask.ver <= version /\ \A j \in Item : NoTask.got[j] <= db[j]
    BY <1>2, NoTaskFacts DEF Rows
  <2>. QED
    BY <1>1, <1>4, <2>1, NoTaskFacts, RefreshMarks
<1>8. Stored'
  <2>1. \A j \in Item : cache'[j] <= db'[j]
    BY <1>1, <1>2, <1>3, <1>5 DEF Stored
  <2>. QED
    BY <1>7, <2>1 DEF Stored
<1>9. \A h \in Goroutine \ {g} : task'[h].item = task[h].item /\ task'[h].ver = task[h].ver
  BY <1>1, <1>2, NoTaskFacts, CrossFacts
<1>10. Accounted'
  <2>1. CASE Outdated
    <3>1. Outdated'
      BY <1>1, <1>4, <1>9, <2>1, StaysOutdated DEF Outdated
    <3>. QED
      BY <3>1 DEF Accounted
  <2>2. CASE ~Outdated
    <3>. SUFFICES ASSUME NEW j \in Item
                  PROVE  cache'[j] = db'[j] \/ j \in doubt' \/ Promise(j)'
      BY DEF Accounted
    <3>1. CASE j = i
      <4>1. task[g].crossed \/ task[g].got[i] = db[i]
        BY <1>1, <1>2, <2>2 DEF PatchRight, i
      <4>. QED
        BY <1>1, <1>3, <1>5, <3>1, <4>1
    <3>2. CASE j # i
      <4>1. Promise(j) => Promise(j)'
        BY <1>1, <1>4, <1>9, <3>2, PromiseKept DEF i
      <4>2. cache[j] = db[j] \/ j \in doubt \/ Promise(j)
        BY <1>2, <2>2 DEF Accounted
      <4>. QED
        BY <1>1, <1>5, <3>2, <4>1, <4>2
    <3>. QED
      BY <3>1, <3>2
  <2>. QED
    BY <2>1, <2>2
<1>. QED
  BY <1>6, <1>7, <1>8, <1>10 DEF CacheInv

\* A query fails: every row is doubtful.
LEMMA ReadFailsStep == ASSUME CacheInv, NEW g \in Goroutine, ReadFails(g) PROVE CacheInv'
<1>1. /\ task' = Cross(g, task[g]) /\ doubt' = Item
      /\ pc' = [pc EXCEPT ![g] = Refreshed(g)]
      /\ UNCHANGED <<db, version, cache, dataVersion, recent, author>>
  BY DEF ReadFails, Goto
<1>2. Typed /\ Rows /\ Calls /\ Notes /\ Stored /\ Versions
  BY Parts
<1>3. task[g] \in Task /\ task[g].ver <= version /\ \A j \in Item : task[g].got[j] <= db[j]
  BY <1>2 DEF Calls, Versions, Stored
<1>4. pc'[g] \in {"idle", "record"} /\ \A h \in Goroutine \ {g} : pc'[h] = pc[h]
  BY <1>1, <1>2 DEF Calls, Refreshed
<1>5. Typed'
  <2>1. task' \in [Goroutine -> Task]
    BY <1>1, <1>2, <1>3, CrossFacts
  <2>2. pc' \in [Goroutine -> {"idle", "patch", "read", "pragma", "compare", "record"}]
    BY <1>1, <1>2 DEF Calls, Refreshed
  <2>. QED
    BY <1>1, <1>2, <2>1, <2>2 DEF Typed, Rows, Calls, Notes
<1>6. /\ ReaderRight' /\ PatchRight' /\ Versions' /\ FirstTable'
      /\ \A h \in Goroutine, j \in Item : task'[h].got[j] <= db'[j]
  BY <1>1, <1>3, <1>4, RefreshMarks
<1>7. Stored' /\ Accounted'
  BY <1>1, <1>2, <1>6 DEF Stored, Accounted
<1>. QED
  BY <1>5, <1>6, <1>7 DEF CacheInv

\* The reload installs what it read: all as stored, or it was crossed and every
\* row is doubtful, or the probe is behind.
LEMMA InstallStep == ASSUME CacheInv, NEW g \in Goroutine, Install(g) PROVE CacheInv'
<1>1. /\ pc[g] = "read" /\ task[g].next > Len(Tables)
      /\ cache' = task[g].got /\ doubt' = IF task[g].crossed THEN Item ELSE {}
      /\ task' = Cross(g, task[g])
      /\ pc' = [pc EXCEPT ![g] = Refreshed(g)]
      /\ UNCHANGED <<db, version, dataVersion, recent, author>>
  BY DEF Install, Goto
<1>2. Typed /\ Rows /\ Calls /\ Notes /\ Stored /\ ReaderRight /\ Versions
  BY Parts
<1>3. /\ task[g] \in Task /\ task[g].ver <= version
      /\ \A j \in Item : task[g].got[j] <= db[j]
  BY <1>2 DEF Calls, Versions, Stored
<1>4. /\ task[g].got \in [Item -> Nat] /\ task[g].next \in Nat
      /\ task[g].probe \in BOOLEAN /\ task[g].crossed \in BOOLEAN
  BY <1>2, TaskFacts
<1>5. /\ pc'[g] \in {"idle", "record"} /\ (pc'[g] = "record" => task[g].probe)
      /\ \A h \in Goroutine \ {g} : pc'[h] = pc[h]
  BY <1>1, <1>2 DEF Calls, Refreshed
<1>6. Typed'
  <2>1. task' \in [Goroutine -> Task]
    BY <1>1, <1>2, <1>3, CrossFacts
  <2>2. pc' \in [Goroutine -> {"idle", "patch", "read", "pragma", "compare", "record"}]
    BY <1>1, <1>2 DEF Calls, Refreshed
  <2>. QED
    BY <1>1, <1>2, <1>4, <2>1, <2>2 DEF Typed, Rows, Calls, Notes
<1>7. /\ ReaderRight' /\ PatchRight' /\ Versions' /\ FirstTable'
      /\ \A h \in Goroutine, j \in Item : task'[h].got[j] <= db'[j]
  BY <1>1, <1>3, <1>5, RefreshMarks
<1>8. Stored'
  BY <1>1, <1>3, <1>7 DEF Stored
<1>9. Accounted'
  <2>1. CASE task[g].crossed
    BY <1>1, <2>1 DEF Accounted
  <2>2. CASE ~task[g].crossed /\ Accurate(g)
    <3>1. \A j \in Item : HasRead(g, j)
      BY <1>1, <1>4, StoreAssumption, SMTT(60) DEF HasRead
    <3>. QED
      BY <1>1, <2>2, <3>1 DEF Accurate, Accounted
  <2>3. CASE ~task[g].crossed /\ Outdated /\ ~(task[g].probe /\ task[g].ver = version)
    <3>1. task'[g] = task[g] /\ \A h \in Goroutine \ {g} : task'[h].ver = task[h].ver
      BY <1>1, <1>2, <1>3, CrossFacts
    <3>2. Outdated'
      BY <1>1, <1>5, <2>3, <3>1, StaysOutdated DEF Outdated
    <3>. QED
      BY <3>2 DEF Accounted
  <2>. QED
    BY <1>1, <1>2, <2>1, <2>2, <2>3 DEF ReaderRight
<1>. QED
  BY <1>6, <1>7, <1>8, <1>9 DEF CacheInv

\* A query that succeeds: one table more is read.
LEMMA ReadTableStep == ASSUME CacheInv, NEW g \in Goroutine, ReadTable(g) PROVE CacheInv'
<1>. DEFINE n == task[g].next
            t == [task[g] EXCEPT !.got = [i \in Item |-> IF TableOf[i] = Tables[n] THEN db[i] ELSE @[i]],
                                 !.next = @ + 1]
<1>1. /\ pc[g] = "read" /\ n <= Len(Tables)
      /\ task' = [task EXCEPT ![g] = t]
      /\ UNCHANGED <<db, version, cache, dataVersion, recent, pc, author, doubt>>
  BY DEF ReadTable
<1>2. Typed /\ Rows /\ Calls /\ Notes /\ Stored /\ ReaderRight /\ PatchRight /\ Accounted
      /\ Versions /\ FirstTable
  BY Parts
<1>3. /\ task[g] \in Task /\ n \in Nat /\ task[g].got \in [Item -> Nat]
  BY <1>2, TaskFacts DEF Calls
<1>4. /\ t.probe = task[g].probe /\ t.ver = task[g].ver /\ t.item = task[g].item
      /\ t.crossed = task[g].crossed /\ t.next = n + 1
      /\ t.got = [i \in Item |-> IF TableOf[i] = Tables[n] THEN db[i] ELSE task[g].got[i]]
  BY <1>3 DEF Task
<1>5. t \in Task
  <2>1. t.got \in [Item -> Nat]
    BY <1>2, <1>3, <1>4 DEF Rows
  <2>2. [task[g] EXCEPT !.got = t.got] \in Task
    BY <1>3, <2>1 DEF Task
  <2>3. ASSUME NEW u \in Task PROVE [u EXCEPT !.next = @ + 1] \in Task
    BY DEF Task
  <2>4. t = [[task[g] EXCEPT !.got = t.got] EXCEPT !.next = @ + 1]
    BY <1>4
  <2>. HIDE DEF t
  <2>. QED
    BY <2>2, <2>3, <2>4
<1>. HIDE DEF t
<1>6. task'[g] = t /\ \A h \in Goroutine \ {g} : task'[h] = task[h]
  BY <1>1, <1>2 DEF Calls
<1>7. Typed'
  BY <1>1, <1>2, <1>5 DEF Typed, Rows, Calls, Notes
<1>8. Stored'
  <2>1. ASSUME NEW h \in Goroutine, NEW j \in Item PROVE task'[h].got[j] <= db'[j]
    <3>1. CASE h = g
      <4>1. t.got[j] = (IF TableOf[j] = Tables[n] THEN db[j] ELSE task[g].got[j])
        BY <1>4
      <4>2. db[j] <= db[j] /\ task[g].got[j] <= db[j]
        BY <1>2 DEF Rows, Stored
      <4>. QED
        BY <1>1, <1>6, <3>1, <4>1, <4>2
    <3>2. CASE h # g
      BY <1>1, <1>2, <1>6, <3>2 DEF Stored
    <3>. QED
      BY <3>1, <3>2
  <2>. QED
    BY <1>1, <1>2, <2>1 DEF Stored
<1>9. \A h \in Goroutine : task'[h].ver = task[h].ver /\ task'[h].item = task[h].item
  BY <1>4, <1>6
<1>10. Outdated <=> Outdated'
  BY <1>1, <1>9 DEF Outdated
<1>11. ReaderRight'
  <2>. SUFFICES ASSUME NEW h \in Goroutine, pc'[h] = "read", ~task'[h].crossed
                PROVE  Accurate(h)' \/ (Outdated' /\ ~(task'[h].probe /\ task'[h].ver = version'))
    BY DEF ReaderRight
  <2>1. CASE h # g
    <3>1. task'[h] = task[h]
      BY <1>6, <2>1
    <3>. QED
      BY <1>1, <1>2, <1>10, <3>1 DEF ReaderRight, Accurate, HasRead
  <2>2. CASE h = g
    <3>1. Accurate(g) \/ (Outdated /\ ~(task[g].probe /\ task[g].ver = version))
      BY <1>1, <1>2, <1>4, <1>6, <2>2 DEF ReaderRight
    <3>2. ASSUME Accurate(g) PROVE Accurate(g)'
      <4>. SUFFICES ASSUME NEW j \in Item, HasRead(g, j)' PROVE task'[g].got[j] = db'[j]
        BY DEF Accurate
      <4>1. TableOf[j] = Tables[n] \/ HasRead(g, j)
        <5>1. PICK m \in DOMAIN Tables : m < n + 1 /\ TableOf[j] = Tables[m]
          BY <1>4, <1>6 DEF HasRead
        <5>2. m \in Nat
          BY StoreAssumption
        <5>3. m = n \/ m < n
          BY <1>3, <5>1, <5>2
        <5>. QED
          BY <5>1, <5>3 DEF HasRead
      <4>2. t.got[j] = (IF TableOf[j] = Tables[n] THEN db[j] ELSE task[g].got[j])
        BY <1>4
      <4>. QED
        BY <1>1, <1>6, <3>2, <4>1, <4>2 DEF Accurate
    <3>. QED
      BY <1>1, <1>4, <1>6, <1>10, <2>2, <3>1, <3>2
  <2>. QED
    BY <2>1, <2>2
<1>12. PatchRight'
  <2>. SUFFICES ASSUME NEW h \in Goroutine, pc'[h] = "patch", ~task'[h].crossed
                PROVE  task'[h].got[task'[h].item] = db'[task'[h].item] \/ Outdated'
    BY DEF PatchRight
  <2>1. task'[h] = task[h]
    BY <1>1, <1>6
  <2>. QED
    BY <1>1, <1>2, <1>10, <2>1 DEF PatchRight
<1>13. Accounted'
  BY <1>1, <1>2, <1>9, <1>10 DEF Accounted, Promise
<1>14. Versions'
  BY <1>1, <1>2, <1>9 DEF Versions
<1>15. FirstTable'
  BY <1>1, <1>2, <1>6 DEF FirstTable
<1>. QED
  BY <1>7, <1>8, <1>11, <1>12, <1>13, <1>14, <1>15 DEF CacheInv

\* A step of a probe that neither refreshes nor records.
LEMMA Quiet ==
  ASSUME CacheInv, NEW g \in Goroutine, NEW t \in Task, NEW at,
         task' = [task EXCEPT ![g] = t], pc' = [pc EXCEPT ![g] = at],
         UNCHANGED <<db, version, cache, dataVersion, author, doubt>>, recent' \in BOOLEAN,
         pc[g] \in {"idle", "pragma", "compare"}, at \in {"idle", "pragma", "compare", "read"},
         t.ver <= version, \A j \in Item : t.got[j] <= db[j],
         at # "idle" => t.next = 1
  PROVE  CacheInv'
<1>1. Typed /\ Rows /\ Calls /\ Notes /\ Stored /\ ReaderRight /\ PatchRight /\ Accounted
      /\ Versions /\ FirstTable
  BY Parts
<1>2. /\ task'[g] = t /\ \A h \in Goroutine \ {g} : task'[h] = task[h]
      /\ pc'[g] = at /\ \A h \in Goroutine \ {g} : pc'[h] = pc[h]
  BY <1>1 DEF Calls
<1>3. Typed'
  <2>1. pc' \in [Goroutine -> {"idle", "patch", "read", "pragma", "compare", "record"}]
    BY <1>1 DEF Calls
  <2>2. task' \in [Goroutine -> Task]
    BY <1>1 DEF Calls
  <2>. QED
    BY <1>1, <2>1, <2>2 DEF Typed, Rows, Calls, Notes
<1>4. Stored'
  <2>1. ASSUME NEW h \in Goroutine, NEW j \in Item PROVE task'[h].got[j] <= db'[j]
    BY <1>1, <1>2 DEF Stored
  <2>. QED
    BY <1>1, <2>1 DEF Stored
<1>5. Outdated => Outdated'
  <2>. SUFFICES ASSUME Outdated PROVE Outdated'
    OBVIOUS
  <2>. QED
    BY <1>2, StaysOutdated DEF Outdated
<1>6. ReaderRight'
  <2>. SUFFICES ASSUME NEW h \in Goroutine, pc'[h] = "read", ~task'[h].crossed
                PROVE  Accurate(h)' \/ (Outdated' /\ ~(task'[h].probe /\ task'[h].ver = version'))
    BY DEF ReaderRight
  <2>1. CASE h # g
    <3>1. task'[h] = task[h] /\ pc'[h] = pc[h]
      BY <1>2, <2>1
    <3>. QED
      BY <1>1, <1>5, <3>1 DEF ReaderRight, Accurate, HasRead
  <2>2. CASE h = g
    <3>1. task'[h].next = 1
      BY <1>2, <2>2
    <3>2. \A m \in DOMAIN Tables : ~(m < 1)
      BY StoreAssumption
    <3>. QED
      BY <3>1, <3>2 DEF Accurate, HasRead
  <2>. QED
    BY <2>1, <2>2
<1>7. PatchRight'
  <2>. SUFFICES ASSUME NEW h \in Goroutine, pc'[h] = "patch", ~task'[h].crossed
                PROVE  task'[h].got[task'[h].item] = db'[task'[h].item] \/ Outdated'
    BY DEF PatchRight
  <2>1. task'[h] = task[h] /\ pc[h] = "patch"
    BY <1>2
  <2>. QED
    BY <1>1, <1>5, <2>1 DEF PatchRight
<1>8. Accounted'
  <2>1. CASE Outdated
    BY <1>5, <2>1 DEF Accounted
  <2>2. CASE ~Outdated
    <3>. SUFFICES ASSUME NEW j \in Item
                  PROVE  cache'[j] = db'[j] \/ j \in doubt' \/ Promise(j)'
      BY DEF Accounted
    <3>1. Promise(j) => Promise(j)'
      BY <1>2, PromiseKept
    <3>. QED
      BY <1>1, <2>2, <3>1 DEF Accounted
  <2>. QED
    BY <2>1, <2>2
<1>9. Versions'
  BY <1>1, <1>2 DEF Versions
<1>10. FirstTable'
  BY <1>1, <1>2 DEF FirstTable
<1>. QED
  BY <1>3, <1>4, <1>6, <1>7, <1>8, <1>9, <1>10 DEF CacheInv

\* A look-up is let through by the throttle.
LEMMA LookupStep == ASSUME CacheInv, NEW g \in Goroutine, Lookup(g) PROVE CacheInv'
<1>. DEFINE t == [NoTask EXCEPT !.probe = TRUE]
<1>1. t \in Task /\ t.ver = 0 /\ t.next = 1 /\ t.got = [i \in Item |-> 0]
  BY NoTaskFacts DEF Task
<1>. HIDE DEF t
<1>2. Rows /\ Notes
  BY Parts
<1>3. t.ver <= version /\ \A j \in Item : t.got[j] <= db[j]
  BY <1>1, <1>2 DEF Rows
<1>4. /\ pc[g] = "idle" /\ task' = [task EXCEPT ![g] = t] /\ pc' = [pc EXCEPT ![g] = "pragma"]
      /\ UNCHANGED <<db, version, cache, dataVersion, recent, author, doubt>>
  BY DEF Lookup, Goto, t
<1>. QED
  BY <1>1, <1>2, <1>3, <1>4, Quiet DEF Notes

\* It reads the database's version.
LEMMA ReadVersionStep == ASSUME CacheInv, NEW g \in Goroutine, ReadVersion(g) PROVE CacheInv'
<1>. DEFINE t == [task[g] EXCEPT !.ver = version]
<1>1. Typed /\ Rows /\ Calls /\ Notes /\ Stored /\ FirstTable
  BY Parts
<1>2. task[g] \in Task /\ version \in Nat
  BY <1>1 DEF Calls, Rows
<1>3. t \in Task /\ t.ver = version /\ t.next = task[g].next /\ t.got = task[g].got
  BY <1>2 DEF Task
<1>4. /\ pc[g] = "pragma" /\ task' = [task EXCEPT ![g] = t] /\ pc' = [pc EXCEPT ![g] = "compare"]
      /\ UNCHANGED <<db, version, cache, dataVersion, recent, author, doubt>>
  BY DEF ReadVersion, Goto
<1>. HIDE DEF t
<1>5. t.ver <= version /\ t.next = 1 /\ \A j \in Item : t.got[j] <= db[j]
  BY <1>1, <1>2, <1>3, <1>4 DEF Stored, FirstTable
<1>. QED
  BY <1>1, <1>3, <1>4, <1>5, Quiet DEF Notes

\* It cannot read it.
LEMMA PragmaFailsStep == ASSUME CacheInv, NEW g \in Goroutine, PragmaFails(g) PROVE CacheInv'
<1>1. Typed /\ Rows /\ Calls /\ Notes /\ Stored /\ Versions
  BY Parts
<1>2. task[g] \in Task /\ task[g].ver <= version /\ \A j \in Item : task[g].got[j] <= db[j]
  BY <1>1 DEF Calls, Versions, Stored
<1>3. /\ pc[g] = "pragma" /\ pc' = [pc EXCEPT ![g] = "idle"]
      /\ UNCHANGED <<db, version, cache, dataVersion, recent, task, author, doubt>>
  BY DEF PragmaFails, Goto
<1>4. task' = [task EXCEPT ![g] = task[g]]
  BY <1>1, <1>3 DEF Calls
<1>. QED
  BY <1>1, <1>2, <1>3, <1>4, Quiet DEF Notes

\* It compares the version with the recorded one and goes on to reload, or not.
LEMMA CompareStep == ASSUME CacheInv, NEW g \in Goroutine, Compare(g) PROVE CacheInv'
<1>. DEFINE t == [task[g] EXCEPT !.crossed = FALSE]
            at == IF Stale(g) THEN "read" ELSE "idle"
<1>1. Typed /\ Rows /\ Calls /\ Notes /\ Stored /\ Versions /\ FirstTable
  BY Parts
<1>2. task[g] \in Task
  BY <1>1 DEF Calls
<1>3. t \in Task /\ t.ver = task[g].ver /\ t.next = task[g].next /\ t.got = task[g].got
  BY <1>2 DEF Task
<1>4. /\ pc[g] = "compare" /\ task' = [task EXCEPT ![g] = t] /\ pc' = [pc EXCEPT ![g] = at]
      /\ UNCHANGED <<db, version, cache, dataVersion, author, doubt>> /\ recent' = TRUE
  BY DEF Compare, Goto
<1>. HIDE DEF t
<1>5. t.ver <= version /\ t.next = 1 /\ \A j \in Item : t.got[j] <= db[j]
  BY <1>1, <1>3, <1>4 DEF Stored, FirstTable, Versions
<1>6. at \in {"idle", "read"}
  OBVIOUS
<1>. HIDE DEF at
<1>. QED
  BY <1>3, <1>4, <1>5, <1>6, Quiet

\* It records the version it has seen.
LEMMA RecordStep == ASSUME CacheInv, NEW g \in Goroutine, Record(g) PROVE CacheInv'
<1>1. /\ pc[g] = "record" /\ dataVersion' = task[g].ver
      /\ task' = [task EXCEPT ![g] = NoTask] /\ pc' = [pc EXCEPT ![g] = "idle"]
      /\ UNCHANGED <<db, version, cache, recent, author, doubt>>
  BY DEF Record, SeenVersion, Goto
<1>2. Typed /\ Rows /\ Calls /\ Notes /\ Stored /\ ReaderRight /\ PatchRight /\ Accounted
      /\ Versions /\ FirstTable
  BY Parts
<1>3. /\ task'[g] = NoTask /\ \A h \in Goroutine \ {g} : task'[h] = task[h]
      /\ pc'[g] = "idle" /\ \A h \in Goroutine \ {g} : pc'[h] = pc[h]
  BY <1>1, <1>2 DEF Calls
<1>4. Typed'
  <2>1. task[g].ver \in Nat
    BY <1>2, TaskFacts
  <2>. QED
    BY <1>1, <1>2, <2>1, NoTaskFacts DEF Typed, Rows, Calls, Notes
<1>5. Stored'
  <2>1. ASSUME NEW h \in Goroutine, NEW j \in Item PROVE task'[h].got[j] <= db'[j]
    <3>1. CASE h = g
      <4>1. NoTask.got[j] = 0 /\ db[j] \in Nat
        BY <1>2, NoTaskFacts DEF Rows
      <4>. QED
        BY <1>1, <1>3, <3>1, <4>1
    <3>2. CASE h # g
      BY <1>1, <1>2, <1>3, <3>2 DEF Stored
    <3>. QED
      BY <3>1, <3>2
  <2>. QED
    BY <1>1, <1>2, <2>1 DEF Stored
<1>6. Outdated => Outdated'
  <2>. SUFFICES ASSUME Outdated PROVE Outdated'
    OBVIOUS
  <2>1. dataVersion' # version
    BY <1>1 DEF Outdated
  <2>. QED
    BY <1>1, <1>3, <2>1, StaysOutdated
<1>7. ReaderRight'
  <2>. SUFFICES ASSUME NEW h \in Goroutine, pc'[h] = "read", ~task'[h].crossed
                PROVE  Accurate(h)' \/ (Outdated' /\ ~(task'[h].probe /\ task'[h].ver = version'))
    BY DEF ReaderRight
  <2>1. task'[h] = task[h] /\ pc[h] = "read"
    BY <1>3
  <2>. QED
    BY <1>1, <1>2, <1>6, <2>1 DEF ReaderRight, Accurate, HasRead
<1>8. PatchRight'
  <2>. SUFFICES ASSUME NEW h \in Goroutine, pc'[h] = "patch", ~task'[h].crossed
                PROVE  task'[h].got[task'[h].item] = db'[task'[h].item] \/ Outdated'
    BY DEF PatchRight
  <2>1. task'[h] = task[h] /\ pc[h] = "patch"
    BY <1>3
  <2>. QED
    BY <1>1, <1>2, <1>6, <2>1 DEF PatchRight
<1>9. Accounted'
  <2>1. CASE Outdated
    BY <1>6, <2>1 DEF Accounted
  <2>2. CASE ~Outdated
    <3>. SUFFICES ASSUME NEW j \in Item
                  PROVE  cache'[j] = db'[j] \/ j \in doubt' \/ Promise(j)'
      BY DEF Accounted
    <3>1. Promise(j) => Promise(j)'
      BY <1>1, <1>3, PromiseKept
    <3>. QED
      BY <1>1, <1>2, <2>2, <3>1 DEF Accounted
  <2>. QED
    BY <2>1, <2>2
<1>10. Versions'
  <2>1. ASSUME NEW h \in Goroutine PROVE task'[h].ver <= version'
    BY <1>1, <1>2, <1>3, NoTaskFacts DEF Versions, Rows
  <2>. QED
    BY <1>1, <1>2, <2>1 DEF Versions
<1>11. FirstTable'
  BY <1>2, <1>3 DEF FirstTable
<1>. QED
  BY <1>4, <1>5, <1>7, <1>8, <1>9, <1>10, <1>11 DEF CacheInv

\* Time passes, or nothing happens.
LEMMA RestStep ==
  ASSUME CacheInv, recent' \in BOOLEAN,
         UNCHANGED <<db, version, cache, dataVersion, pc, task, author, doubt>>
  PROVE  CacheInv'
<1>1. Typed'
  BY Parts DEF Typed, Rows, Calls, Notes
<1>2. Stored' /\ Versions' /\ FirstTable'
  BY Parts DEF Stored, Versions, FirstTable
<1>3. ReaderRight' /\ PatchRight' /\ Accounted'
  BY Parts DEF ReaderRight, PatchRight, Accounted, Accurate, HasRead, Outdated, Promise
<1>. QED
  BY <1>1, <1>2, <1>3 DEF CacheInv

\* Every step keeps the invariant.
LEMMA CacheStep == CacheInv /\ [Next]_vars => CacheInv'
<1>. SUFFICES ASSUME CacheInv, [Next]_vars PROVE CacheInv'
  OBVIOUS
<1>1. ASSUME NEW i \in Item, External(i) PROVE CacheInv'
  BY <1>1, ExternalStep
<1>2. ASSUME NEW g \in Goroutine, NEW i \in Item, Save(g, i) \/ SetSetting(g, i) \/ Toggle(g, i)
      PROVE  CacheInv'
  BY <1>2, SaveStep, SetSettingStep, ToggleStep
<1>3. ASSUME NEW g \in Goroutine, Lookup(g) PROVE CacheInv'
  BY <1>3, LookupStep
<1>4. ASSUME NEW g \in Goroutine, Step(g) PROVE CacheInv'
  BY <1>4, PatchStep, ReadTableStep, ReadFailsStep, InstallStep, ReadVersionStep,
     PragmaFailsStep, CompareStep, RecordStep DEF Step
<1>5. CASE Elapse
  BY <1>5, RestStep DEF Elapse
<1>6. CASE UNCHANGED vars
  <2>1. recent' \in BOOLEAN
    BY <1>6, Parts DEF vars, Notes
  <2>. QED
    BY <1>6, <2>1, RestStep DEF vars
<1>. QED
  BY <1>1, <1>2, <1>3, <1>4, <1>5, <1>6 DEF Next

\* The inductive invariant holds in every behaviour.
THEOREM CacheAlways == Spec => []CacheInv
  BY CacheInit, CacheStep, PTL DEF Spec

\* Every variable has its type, and nothing is cached, or about to be, that the
\* database never held.
THEOREM TypesHold == Spec => []TypeOK
<1>1. CacheInv => TypeOK
  BY DEF CacheInv, Typed, Rows, Calls, Notes, Stored, TypeOK
<1>. QED
  BY <1>1, CacheAlways, PTL

\* However many goroutines read, write and reload at a time: when none is at work
\* and the probe has seen the database's version, a cached row differs from the
\* stored one only through a toggle, a failed reload or a crossed refresh.
THEOREM StaleOnlyByGaps == Spec => []StaleExplained
<1>1. CacheInv => StaleExplained
  <2>. SUFFICES ASSUME CacheInv, AtRest, dataVersion = version, NEW i \in Item,
                       cache[i] # db[i]
                PROVE  i \in doubt
    BY DEF StaleExplained
  <2>1. ~Outdated /\ ~Promise(i)
    BY DEF AtRest, Outdated, Promise
  <2>. QED
    BY <2>1, Parts DEF Accounted
<1>. QED
  BY <1>1, CacheAlways, PTL
===============================================================================
