-------------------------------- MODULE Skills --------------------------------
(***************************************************************************)
(* The index of SKILL.md files and what it serves (store/skills.go,        *)
(* store/skillgroups.go, proxy/skills.go): files that people move about,   *)
(* rows found by a rescan, assignments of rows and of groups of names to   *)
(* targets, and the fetch a model makes when it loads one.                 *)
(*                                                                         *)
(* Files come and go, and become unreadable, at any time.  A rescan, a     *)
(* saved assignment, the removal of a group and a fetch take several steps *)
(* each and interleave.                                                    *)
(***************************************************************************)
EXTENDS Integers, Sequences, FiniteSets, FiniteSetsExt, Functions

CONSTANTS
  Paths,        \* the places a SKILL.md may be at, numbered as the walk meets them
  RootOf,       \* [Paths -> Roots]
  Roots,
  Archived,     \* the places under an _archive folder
  Names,        \* the names a frontmatter may give
  Same,         \* [Names -> Names]: normSkillName, that spells spaces as hyphens
  Targets,      \* share endpoints and providers
  GroupIds,
  Moves, Saves, Scans, Fetches   \* bounds

ASSUME SkillAssumption == /\ IsFiniteSet(Paths) /\ Paths \subseteq Nat \ {0}
                          /\ Archived \subseteq Paths
                          /\ RootOf \in [Paths -> Roots] /\ Same \in [Names -> Names]
                          /\ {Moves, Saves, Scans, Fetches} \subseteq Nat

NoFile == "none"
Unreadable == "unreadable"   \* it is there, but reading it fails

VARIABLES
  files,      \* what is at each place: the name its frontmatter gives, or no name
  enabled,    \* the roots a scan walks
  skills,     \* the table skills: row id -> [name, path]
  direct,     \* skill_assignments: pairs of a target and a row id
  groups,     \* the ids in skill_groups
  members,    \* skill_group_members: pairs of a group and a name
  carried,    \* skill_group_assignments: pairs of a target and a group
  scan,       \* the rescan under way
  todo,       \* the statements an admin's request has still to run
  page,       \* the row ids the admin's page was loaded with
  fetch,      \* the fetch under way
  loads,      \* skill_loads: pairs of a name and a target that were counted
  left        \* what is left of the bounds

tables == <<skills, direct, groups, members, carried>>
skillVars == <<files, enabled, tables, scan, todo, page, fetch, loads, left>>

Exists(p) == files[p] # NoFile
Readable(p) == files[p] \notin {NoFile, Unreadable}
RowsOf(c) == {i \in DOMAIN skills : Same[skills[i].name] = c}

\* kept and clash are history: the names the walk found assigned and present,
\* and those of a statement that failed
IdleScan == [stage |-> "idle", present |-> {}, all |-> << >>, rest |-> {},
             kept |-> {}, clash |-> {}]
\* had is history: the places at which the search for another copy found one
IdleFetch == [stage |-> "idle", target |-> "", name |-> "", path |-> 0, had |-> {}, out |-> 0]

\* INTEGER PRIMARY KEY: one more than the largest id in the table
NextId(ids) == 1 + (IF ids = {} THEN 0 ELSE Max(ids))

\* upsertSkill, for files that could be read: a path that is known keeps its id
Upserted(rows, ps) ==
  LET new == ps \ {rows[i].path : i \in DOMAIN rows}
      id == [p \in new |-> NextId(DOMAIN rows) - 1 + Cardinality({q \in new : q <= p})]
  IN  [i \in DOMAIN rows \cup Range(id) |->
         LET p == IF i \in DOMAIN rows THEN rows[i].path ELSE CHOOSE q \in new : id[q] = i
         IN  [name |-> IF p \in ps THEN files[p] ELSE rows[i].name, path |-> p]]

\* the program has scanned once, and an admin has been at work
SkillsInit ==
  /\ files \in [Paths -> Names \cup {NoFile, Unreadable}] /\ enabled = Roots
  /\ skills = Upserted([i \in {} |-> i], {p \in Paths : Readable(p)}) /\ page = DOMAIN skills
  /\ direct \in SUBSET (Targets \X DOMAIN skills) /\ groups \in SUBSET GroupIds
  /\ members \in SUBSET (groups \X Range(Same)) /\ carried \in SUBSET (Targets \X groups)
  /\ scan = IdleScan /\ todo = << >> /\ fetch = IdleFetch /\ loads = {}
  /\ left = [moves |-> Moves, saves |-> Saves, scans |-> Scans, fetches |-> Fetches]

Spend(what) == left[what] > 0 /\ left' = [left EXCEPT ![what] = @ - 1]

\* people and agents reorganise their folders
MoveFile == /\ Spend("moves")
            /\ \E p \in Paths, f \in Names \cup {NoFile, Unreadable} :
                 files[p] # f /\ files' = [files EXCEPT ![p] = f]
            /\ UNCHANGED <<enabled, tables, scan, todo, page, fetch, loads>>

-------------------------------------------------------------------------------
(* The rescan: a walk that upserts one file after another, then one        *)
(* statement after another for the rows whose file is gone.                *)

\* the names that targets have assigned, through rows that are there
Assigned(d, t) == {<<a[1], t[a[2]].name>> : a \in {b \in d : b[2] \in DOMAIN t}}

\* the roots are read once
ScanStart ==
  /\ scan.stage = "idle" /\ Spend("scans")
  /\ scan' = [IdleScan EXCEPT !.stage = "walk", !.rest = {p \in Paths : RootOf[p] \in enabled}]
  /\ UNCHANGED <<files, enabled, tables, todo, page, fetch, loads>>

Next1 == Min(scan.rest)

\* the next place: a file there is present, and has a row once it could be read
ScanVisit ==
  /\ scan.stage = "walk" /\ scan.rest # {}
  /\ skills' = Upserted(skills, {Next1} \cap {p \in Paths : Readable(p)})
  /\ scan' = [scan EXCEPT !.rest = @ \ {Next1},
                           !.present = @ \cup ({Next1} \cap {p \in Paths : Exists(p)})]
  /\ UNCHANGED <<files, enabled, direct, groups, members, carried, todo, page, fetch, loads, left>>

\* the table, read once the walk is over
ScanRead ==
  /\ scan.stage = "walk" /\ scan.rest = {}
  /\ LET seen == {i \in DOMAIN skills : skills[i].path \in scan.present}
     IN  scan' = [scan EXCEPT !.stage = "prune", !.all = skills,
                    !.rest = DOMAIN skills \ seen,
                    !.kept = {a \in Assigned(direct, skills) : \E i \in seen : skills[i].name = a[2]}]
  /\ UNCHANGED <<files, enabled, tables, todo, page, fetch, loads, left>>

Copies(i) == {j \in DOMAIN scan.all \ {i} : /\ scan.all[j].name = scan.all[i].name
                                          /\ scan.all[j].path \in scan.present}
\* faulty: an archived copy does not count
LiveSurvivors(i) == {j \in Copies(i) : scan.all[j].path \notin Archived}
\* pickSurvivor: a row that this walk saw, outside an archive if there is one
Survivors(i) == IF LiveSurvivors(i) # {} THEN LiveSurvivors(i) ELSE Copies(i)

\* UPDATE skill_assignments: a pair that exists already fails the whole statement
Clashes(i, j) == \E x \in Targets : {<<x, i>>, <<x, j>>} \subseteq direct
Repoint(i, j) == IF Clashes(i, j) THEN direct
                 ELSE {IF a[2] = i THEN <<a[1], j>> ELSE a : a \in direct}

\* the next of the rows the walk did not see: kept while there is a file
ScanKeep == /\ scan.stage = "prune" /\ scan.rest # {} /\ Exists(scan.all[Next1].path)
            /\ scan' = [scan EXCEPT !.rest = @ \ {Next1}]
            /\ UNCHANGED <<files, enabled, tables, todo, page, fetch, loads, left>>

ScanRepoint ==
  /\ scan.stage = "prune" /\ scan.rest # {} /\ ~Exists(scan.all[Next1].path)
  /\ \/ /\ Survivors(Next1) = {}
        /\ scan' = [scan EXCEPT !.stage = "delete"] /\ UNCHANGED direct
     \/ \E j \in Survivors(Next1) :
          /\ direct' = Repoint(Next1, j)
          /\ scan' = [scan EXCEPT !.stage = "delete",
                       !.clash = @ \cup (IF Clashes(Next1, j) THEN {scan.all[j].name} ELSE {})]
  /\ UNCHANGED <<files, enabled, skills, groups, members, carried, todo, page, fetch, loads, left>>

ScanDelete ==
  /\ scan.stage = "delete"
  /\ skills' = Restrict(skills, DOMAIN skills \ {Next1})
  /\ scan' = [scan EXCEPT !.stage = "prune", !.rest = @ \ {Next1}]
  /\ UNCHANGED <<files, enabled, direct, groups, members, carried, todo, page, fetch, loads, left>>

ScanEnd == /\ scan.stage = "prune" /\ scan.rest = {} /\ scan' = IdleScan
           /\ UNCHANGED <<files, enabled, tables, todo, page, fetch, loads, left>>

-------------------------------------------------------------------------------
(* The admin's requests.  One that runs several statements queues them.    *)

Ready == todo = << >> /\ Spend("saves")

\* hSkillAssignGetRich: the page shows the rows of that moment
LoadPage == /\ page # DOMAIN skills /\ page' = DOMAIN skills
            /\ UNCHANGED <<files, enabled, tables, scan, todo, fetch, loads, left>>

\* hSkillAssignSetRich: a half that the body leaves out is left alone
SaveAssignments ==
  /\ Ready
  /\ \E t \in Targets, halves \in (SUBSET {"skills", "groups"}) \ {{}} :
     \E is \in SUBSET page, gs \in SUBSET GroupIds :
       todo' = (IF "skills" \in halves THEN <<[op |-> "skills", on |-> t, with |-> is]>> ELSE << >>)
            \o (IF "groups" \in halves THEN <<[op |-> "groups", on |-> t, with |-> gs]>> ELSE << >>)
  /\ UNCHANGED <<files, enabled, tables, scan, page, fetch, loads>>

\* hSkillGroupSave: INSERT or UPDATE, then SetGroupMembers
SaveGroup ==
  /\ Ready
  /\ \E g \in groups \cup ({NextId(groups)} \cap GroupIds), ns \in SUBSET Range(Same) :
       todo' = <<[op |-> "group", on |-> g, with |-> {}], [op |-> "members", on |-> g, with |-> ns]>>
  /\ UNCHANGED <<files, enabled, tables, scan, page, fetch, loads>>

\* hSkillGroupMembers: one statement per name
EditGroup ==
  /\ Ready
  /\ \E g \in groups, n \in Range(Same), op \in {"add", "remove"} :
       todo' = <<[op |-> op, on |-> g, with |-> {n}]>>
  /\ UNCHANGED <<files, enabled, tables, scan, page, fetch, loads>>

\* DeleteSkillGroup
DeleteGroup ==
  /\ Ready
  /\ \E g \in groups :
       todo' = <<[op |-> "members", on |-> g, with |-> {}], [op |-> "uncarry", on |-> g, with |-> {}],
                 [op |-> "ungroup", on |-> g, with |-> {}]>>
  /\ UNCHANGED <<files, enabled, tables, scan, page, fetch, loads>>

\* the rows of x in a table of pairs, replaced (one transaction)
Replaced(table, x, with) == {r \in table : r[1] # x} \cup {<<x, y>> : y \in with}

SetTargetSkills(t, is) ==
  /\ direct' = Replaced(direct, t, is)
  /\ scan' = [scan EXCEPT !.kept = {a \in @ : a[1] # t}]
  /\ UNCHANGED <<groups, members, carried>>
SetTargetGroups(t, gs) == carried' = Replaced(carried, t, gs) /\ UNCHANGED <<direct, groups, members, scan>>
SetGroupMembers(g, ns) == members' = Replaced(members, g, ns) /\ UNCHANGED <<direct, groups, carried, scan>>
AddGroupMembers(g, ns) == members' = members \cup ({g} \X ns) /\ UNCHANGED <<direct, groups, carried, scan>>
RemoveGroupMembers(g, ns) == members' = members \ ({g} \X ns) /\ UNCHANGED <<direct, groups, carried, scan>>
InsertGroup(g) == groups' = groups \cup {g} /\ UNCHANGED <<direct, members, carried, scan>>
DropCarried(g) == carried' = {r \in carried : r[2] # g} /\ UNCHANGED <<direct, groups, members, scan>>
DropGroup(g) == groups' = groups \ {g} /\ UNCHANGED <<direct, members, carried, scan>>

Statement ==
  /\ todo # << >>
  /\ LET s == Head(todo)
     IN  \/ s.op = "skills" /\ SetTargetSkills(s.on, s.with)
         \/ s.op = "groups" /\ SetTargetGroups(s.on, s.with)
         \/ s.op = "members" /\ SetGroupMembers(s.on, s.with)
         \/ s.op = "add" /\ AddGroupMembers(s.on, s.with)
         \/ s.op = "remove" /\ RemoveGroupMembers(s.on, s.with)
         \/ s.op = "group" /\ InsertGroup(s.on)
         \/ s.op = "uncarry" /\ DropCarried(s.on)
         \/ s.op = "ungroup" /\ DropGroup(s.on)
  /\ todo' = Tail(todo)
  /\ UNCHANGED <<files, enabled, skills, page, fetch, loads, left>>

\* DeleteSkillAssignment
DropAssignment == /\ Ready
                  /\ \E a \in direct : /\ direct' = direct \ {a}
                                        /\ scan' = [scan EXCEPT !.kept = {b \in @ : b[1] # a[1]}]
                  /\ UNCHANGED <<files, enabled, skills, groups, members, carried, todo, page, fetch, loads>>

\* SaveSkillRoot, DeleteSkillRoot: the rows of a root that is no longer walked stay
SetRoot == /\ todo = << >> /\ Spend("moves")
           /\ \E r \in Roots : enabled' = IF r \in enabled THEN enabled \ {r} ELSE enabled \cup {r}
           /\ UNCHANGED <<files, tables, scan, todo, page, fetch, loads>>

\* WriteSkillContent: only inside a root that is enabled; the row follows
WriteSkill ==
  /\ todo = << >> /\ Spend("moves")
  /\ \E i \in DOMAIN skills, n \in Names :
       /\ RootOf[skills[i].path] \in enabled /\ files[skills[i].path] # Unreadable
       /\ files' = [files EXCEPT ![skills[i].path] = n]
       /\ skills' = [skills EXCEPT ![i].name = n]
       /\ scan' = [scan EXCEPT !.kept = {a \in @ : a[2] # skills[i].name}]
  /\ UNCHANGED <<enabled, direct, groups, members, carried, todo, page, fetch, loads>>

\* CopySkill: into a place that is free; hSkillDistribute then rescans
CopySkill ==
  /\ todo = << >> /\ Spend("moves")
  /\ \E i \in DOMAIN skills, p \in Paths :
       /\ Readable(skills[i].path) /\ ~Exists(p) /\ RootOf[p] \in enabled
       /\ files' = [files EXCEPT ![p] = files[skills[i].path]]
  /\ UNCHANGED <<enabled, tables, scan, todo, page, fetch, loads>>

-------------------------------------------------------------------------------
(* A fetch: the entries of a target, and then the file.                    *)

\* the rows assigned directly that give a name
DirectRows(t, c) == {i \in RowsOf(c) : <<t, i>> \in direct}
ByGroup(t, c) == \E g \in groups : <<t, g>> \in carried /\ <<g, c>> \in members

\* faulty: only a copy outside an archive
LiveCopies(c) == {i \in RowsOf(c) : Exists(skills[i].path) /\ skills[i].path \notin Archived}
\* bestCopy and readableSkillNamed: a copy whose file is there (os.Stat), outside an
\* archive if there is one
BestCopies(c) ==
  IF LiveCopies(c) # {} THEN LiveCopies(c) ELSE {i \in RowsOf(c) : Exists(skills[i].path)}

\* EffectiveSkillsFor: an entry of the target for a name; direct rows win
Entries(t, c) == IF DirectRows(t, c) # {} THEN DirectRows(t, c)
                 ELSE IF ByGroup(t, c) THEN BestCopies(c) ELSE {}

\* handleEndpointSkill: a token or the nearest spelling picks a name that the
\* target carries; serveSkillOneFor counts the load before it reads the file
FetchResolve ==
  /\ fetch.stage = "idle" /\ Spend("fetches")
  /\ \E t \in Targets, c \in Range(Same) : \E i \in Entries(t, c) :
       /\ fetch' = [stage |-> "read", target |-> t, name |-> c, path |-> skills[i].path,
                    had |-> {}, out |-> 0]
       /\ loads' = loads \cup {<<c, t>>}
  /\ UNCHANGED <<files, enabled, tables, scan, todo, page>>

\* serveSkillOneFor: the file
FetchRead ==
  /\ fetch.stage = "read"
  /\ fetch' = IF Readable(fetch.path) THEN [fetch EXCEPT !.stage = "answered", !.out = fetch.path]
              ELSE [fetch EXCEPT !.stage = "look"]
  /\ UNCHANGED <<files, enabled, tables, scan, todo, page, loads, left>>

\* or the search for another copy of the name, a 404 (out = 0) without one
FetchLook ==
  /\ fetch.stage = "look"
  /\ LET looked == [fetch EXCEPT !.had = {p \in Paths : /\ Exists(p)
                                                        /\ \E i \in RowsOf(fetch.name) : skills[i].path = p}]
     IN  \/ \E i \in BestCopies(fetch.name) :
               fetch' = [looked EXCEPT !.stage = "again", !.path = skills[i].path]
         \/ BestCopies(fetch.name) = {} /\ fetch' = [looked EXCEPT !.stage = "answered"]
  /\ UNCHANGED <<files, enabled, tables, scan, todo, page, loads, left>>

\* and its file, which may have gone meanwhile or not be one to read: a 404 again
FetchAgain ==
  /\ fetch.stage = "again"
  /\ fetch' = [fetch EXCEPT !.stage = "answered", !.out = IF Readable(fetch.path) THEN fetch.path ELSE 0]
  /\ UNCHANGED <<files, enabled, tables, scan, todo, page, loads, left>>

FetchDone == /\ fetch.stage = "answered" /\ fetch' = IdleFetch
             /\ UNCHANGED <<files, enabled, tables, scan, todo, page, loads, left>>

\* the process stops between two statements; the page stays open
Restart == /\ scan # IdleScan \/ todo # << >>
           /\ scan' = IdleScan /\ todo' = << >> /\ fetch' = IdleFetch
           /\ UNCHANGED <<files, enabled, tables, page, loads, left>>

SkillsNext ==
  \/ MoveFile
  \/ ScanStart \/ ScanVisit \/ ScanRead \/ ScanKeep \/ ScanRepoint \/ ScanDelete \/ ScanEnd
  \/ LoadPage \/ SaveAssignments \/ SaveGroup \/ EditGroup \/ DeleteGroup \/ Statement
  \/ DropAssignment \/ SetRoot \/ WriteSkill \/ CopySkill
  \/ FetchResolve \/ FetchRead \/ FetchLook \/ FetchAgain \/ FetchDone
  \/ Restart

SkillsSpec == SkillsInit /\ [][SkillsNext]_skillVars

-------------------------------------------------------------------------------
\* What a target carries of a skill of which the walk met a copy outlives the
\* rescan, for every name of which no target has two copies: "a skill that merely
\* moved used to take its assignments with it" (store/skills.go:340).
MoveKept == [][ScanEnd => \A a \in scan.kept : a[2] \notin scan.clash => a \in Assigned(direct, skills)]_skillVars

\* The same of every name, as the comment says it; a target that has both
\* copies makes the statement fail for all of them.
RescanKeeps == [][ScanEnd => scan.kept \subseteq Assigned(direct, skills)]_skillVars

\* proxy/skills.go:216 serves another copy "rather than fail the lazy-load": a
\* fetch fails only if there was no copy when it looked for one, or the copy it
\* found then could not be read; it turns to an archived copy only if there was
\* none outside an archive.
LazyLoadHolds ==
  [][(FetchLook \/ FetchAgain) /\ fetch'.stage = "answered" =>
       IF fetch'.out = 0 THEN \/ fetch'.had = {}
                             \/ (fetch.path \in fetch'.had /\ ~Readable(fetch.path))
       ELSE fetch'.out \in fetch'.had /\ (fetch'.out \in Archived => fetch'.had \subseteq Archived)]_skillVars

\* The same with the comment's "Any other indexed copy": as long as one of those
\* found can still be read, the fetch is served. The code asks only whether a file
\* is there (os.Stat) and tries one.
AnyCopyServes ==
  [][(FetchLook \/ FetchAgain) /\ fetch'.stage = "answered" /\ fetch'.out = 0 =>
       \A p \in fetch'.had : ~Readable(p)]_skillVars
===============================================================================
