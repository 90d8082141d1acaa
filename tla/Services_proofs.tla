--------------------------- MODULE Services_proofs ---------------------------
(* What holds of the services for every value of their constants: one        *)
(* section for each of their modules, an invariant and the step lemmas under *)
(* each theorem.                                                             *)
EXTENDS Tables, WebSearch, Catalog, Panels, PoolLoad, Skills, Preparation,
        FiniteSetTheorems, WellFoundedInduction, TLAPS

\* Every set of numbers that holds one holds a least one.
LEMMA LeastNat ==
    ASSUME NEW S \in SUBSET Nat, S # {}
    PROVE  \E n \in S : \A m \in S : n <= m
  <1> DEFINE F == {1..n : n \in S}
             R == StrictSubsetOrdering(Nat)
  <1>1. F \subseteq FiniteSubsetsOf(Nat)  BY FS_Interval DEF FiniteSubsetsOf
  <1>2. F # {}  OBVIOUS
  <1>3. PICK x \in F : \A y \in F : ~ (<<y, x>> \in R)
    <2> HIDE DEF F
    <2> QED  BY <1>1, <1>2, WFMin, FS_StrictSubsetOrderingWellFounded
  <1>4. PICK n \in S : x = 1..n  OBVIOUS
  <1>5. ASSUME NEW m \in S, m < n PROVE FALSE
    <2>1. 1..m \in F /\ <<1..m, 1..n>> \in R  BY <1>5 DEF StrictSubsetOrdering
    <2> QED  BY <1>3, <1>4, <2>1
  <1> QED  BY <1>5

\* A finite set of numbers that holds one holds a largest one.
LEMMA MaxIsThere ==
    ASSUME NEW S \in SUBSET Nat, IsFiniteSet(S), S # {}
    PROVE  Max(S) \in S /\ \A y \in S : y <= Max(S)
  <1> DEFINE Above(n) == {m \in S : n <= m}
             F == {Above(n) : n \in S}
             R == StrictSubsetOrdering(S)
  <1>1. F \subseteq FiniteSubsetsOf(S)
    <2>1. ASSUME NEW n \in S PROVE Above(n) \in SUBSET S /\ IsFiniteSet(Above(n))
      <3>1. Above(n) \in SUBSET S  OBVIOUS
      <3> QED  BY <3>1, FS_Subset
    <2> QED  BY <2>1 DEF FiniteSubsetsOf
  <1>2. F # {}  OBVIOUS
  <1>3. PICK x \in F : \A y \in F : ~ (<<y, x>> \in R)
    <2> HIDE DEF F
    <2> QED  BY <1>1, <1>2, WFMin, FS_StrictSubsetOrderingWellFounded
  <1>4. PICK n \in S : x = Above(n)  BY <1>3
  <1>5. ASSUME NEW m \in S, n < m PROVE FALSE
    <2>1. Above(m) \in F  OBVIOUS
    <2>2. \A k \in S \cup {m, n} : k \in Nat  OBVIOUS
    <2>3. n \in Above(n) /\ n \notin Above(m)  BY <1>5, <2>2
    <2>4. ASSUME NEW k \in Above(m) PROVE k \in Above(n)
      <3>1. k \in S /\ m <= k /\ k \in Nat  BY <2>2
      <3> QED  BY <1>5, <2>2, <3>1
    <2>5. Above(m) \subseteq Above(n) /\ Above(m) # Above(n)  BY <2>3, <2>4
    <2>6. <<Above(m), Above(n)>> \in R  BY <2>5 DEF StrictSubsetOrdering
    <2> QED  BY <1>3, <1>4, <2>1, <2>6
  <1>6. \A y \in S : n >= y  BY <1>5
  <1>7. Max(S) \in S /\ \A y \in S : Max(S) >= y  BY <1>4, <1>6 DEF Max
  <1> QED  BY <1>7

-----------------------------------------------------------------------------
(* Tables: the log, and the tables in memory.                               *)

\* What the writer and its file are: a flag and two lengths.
LogTyped ==
    /\ log \in [open : BOOLEAN, n : Nat, size : Nat, slipped : BOOLEAN]

\* The constants of the log are lengths, and a line fits.
LEMMA LogSizes == LogMax \in Nat /\ LineMax \in Nat /\ LineMax <= LogMax
  <1>1. {LineMax, LogMax} \subseteq Nat \ {0} /\ LineMax <= LogMax  BY TablesAssumption, Zenon
  <1> QED  BY <1>1

\* A record's writing keeps the counter's word and the file's bound, whatever
\* of it fails (writeCacheRecord).
LEMMA WriteKeepsBound ==
    ASSUME LogTyped, LogBounded, NEW len \in 1..LineMax, NEW part \in 0..len,
           NEW stats \in BOOLEAN, NEW renames \in BOOLEAN, NEW reopens \in BOOLEAN,
           WriteRecord(len, stats, renames, reopens, part)
    PROVE  LogTyped' /\ LogBounded'
  <1> DEFINE l == Opened(stats)
             r == Rotated(l, len, renames)
  <1>0. len \in Nat /\ len <= LogMax /\ part \in Nat /\ part <= len /\ LogMax \in Nat  BY LogSizes
  <1>1. /\ l \in [open : BOOLEAN, n : Nat, size : Nat, slipped : BOOLEAN]
        /\ ~l.slipped => l.n = l.size /\ l.size <= LogMax
    BY <1>0 DEF Opened, LogTyped, LogBounded
  <1> HIDE DEF l
  <1>2. /\ r \in [open : BOOLEAN, n : Nat, size : Nat, slipped : BOOLEAN]
        /\ ~r.slipped => r.n = r.size
        /\ r.n + len <= LogMax
    <2>1. CASE l.n + len <= LogMax
      <3>1. r = l  BY <2>1 DEF Rotated
      <3> QED  BY <1>0, <1>1, <2>1, <3>1
    <2>2. CASE ~(l.n + len <= LogMax)
      <3>1. r = [l EXCEPT !.n = 0, !.size = IF renames THEN 0 ELSE @, !.slipped = ~renames /\ l.size > 0]
        BY <2>2 DEF Rotated
      <3> DEFINE z == IF renames THEN 0 ELSE l.size
                 b == ~renames /\ l.size > 0
      <3>2. r = [open |-> l.open, n |-> 0, size |-> z, slipped |-> b]  BY <1>1, <3>1
      <3>3. l.size \in Nat /\ l.open \in BOOLEAN  BY <1>1
      <3>4. z \in Nat /\ b \in BOOLEAN /\ (~b => z = 0)  BY <3>3
      <3> HIDE DEF z, b
      <3>5. r \in [open : BOOLEAN, n : Nat, size : Nat, slipped : BOOLEAN]  BY <3>2, <3>3, <3>4
      <3>6. r.n = 0 /\ r.size = z /\ r.slipped = b  BY <3>2
      <3> QED  BY <1>0, <3>4, <3>5, <3>6
    <2> QED  BY <2>1, <2>2
  <1>3. log' = IF l.n + len > LogMax /\ ~reopens THEN [r EXCEPT !.open = FALSE, !.n = l.n]
               ELSE IF part < len THEN [r EXCEPT !.open = FALSE, !.size = @ + part]
               ELSE [r EXCEPT !.n = @ + len, !.size = @ + len]
    BY DEF WriteRecord, l, r
  <1> HIDE DEF r
  <1>4. /\ l.n \in Nat /\ l.size \in Nat /\ r.n \in Nat /\ r.size \in Nat
        /\ r.slipped \in BOOLEAN /\ r.open \in BOOLEAN
    BY <1>1, <1>2
  <1>5. CASE l.n + len > LogMax /\ ~reopens
    <2>1. log' = [open |-> FALSE, n |-> l.n, size |-> r.size, slipped |-> r.slipped]
      BY <1>2, <1>3, <1>5
    <2>2. LogTyped'  BY <1>4, <2>1 DEF LogTyped
    <2>3. log'.open = FALSE /\ log'.size = r.size /\ log'.slipped = r.slipped  BY <2>1
    <2> QED  BY <1>0, <1>2, <1>4, <2>2, <2>3 DEF LogBounded
  <1>6. CASE ~(l.n + len > LogMax /\ ~reopens) /\ part < len
    <2>1. log' = [open |-> FALSE, n |-> r.n, size |-> r.size + part, slipped |-> r.slipped]
      BY <1>2, <1>3, <1>6
    <2>2. LogTyped'  BY <1>0, <1>4, <2>1 DEF LogTyped
    <2>3. log'.open = FALSE /\ log'.size = r.size + part /\ log'.slipped = r.slipped  BY <2>1
    <2> QED  BY <1>0, <1>2, <1>4, <1>6, <2>2, <2>3 DEF LogBounded
  <1>7. CASE ~(l.n + len > LogMax /\ ~reopens) /\ ~(part < len)
    <2>1. log' = [open |-> r.open, n |-> r.n + len, size |-> r.size + len, slipped |-> r.slipped]
      BY <1>2, <1>3, <1>7
    <2>2. LogTyped'  BY <1>0, <1>4, <2>1 DEF LogTyped
    <2>3. log'.n = r.n + len /\ log'.size = r.size + len /\ log'.slipped = r.slipped  BY <2>1
    <2> QED  BY <1>0, <1>2, <1>4, <2>2, <2>3 DEF LogBounded
  <1> QED  BY <1>5, <1>6, <1>7

\* Only a write and a restart touch the log.
LEMMA LogStep == LogTyped /\ LogBounded /\ [TablesNext]_tablesVars => LogTyped' /\ LogBounded'
  <1> SUFFICES ASSUME LogTyped, LogBounded, [TablesNext]_tablesVars PROVE LogTyped' /\ LogBounded'
      OBVIOUS
  <1>1. CASE LogNext
    BY <1>1, WriteKeepsBound DEF LogNext
  <1>2. CASE RestartTables
    BY <1>2 DEF RestartTables, LogTyped, LogBounded
  <1>3. CASE UNCHANGED log
    BY <1>3 DEF LogTyped, LogBounded
  <1>4. \/ LogNext \/ RestartTables \/ UNCHANGED log
    BY DEF TablesNext, SeatsNext, NoticesNext, AdminNext, CommonNext, SessionRole, Announce,
       SetPassword, VerifyAdmin, TickTables, tablesVars
  <1> QED  BY <1>1, <1>2, <1>3, <1>4

\* The file keeps its bound and the counter its size, for any bounds and any
\* rotations, torn writes and restarts (writeCacheRecord).
THEOREM LogKept == TablesSpec => []LogBounded
  <1>1. TablesInit => LogTyped /\ LogBounded
    BY LogSizes DEF TablesInit, LogTyped, LogBounded
  <1> QED  BY <1>1, LogStep, PTL DEF TablesSpec

\* The table of notices is what was shown, an entry of the cache names a hash
\* that was stored and, if it is the present one, its password.
TablesInv ==
    /\ seats \in [Sessions -> [talk : Talks \union {"nobody"}, age : Int]]
    /\ since = notices /\ DOMAIN notices = Pairs
    /\ hash.of \in Nat
    /\ verified \subseteq [pass : Passwords, of : Nat, age : Int]
    /\ \A v \in verified : v.of <= hash.of /\ (v.of = hash.of => v.pass = hash.pass)

\* An age stays a number as it grows.
LEMMA Ages == ASSUME NEW age \in Int, NEW most \in Nat PROVE Aged(age, most) \in Int
  BY DEF Aged

\* The bounds on ages are numbers.
LEMMA Clocks == Hour \in Nat /\ NoticeTTL \in Nat /\ AdminTTL \in Nat
  <1>1. Hour \in Nat /\ {NoticeTTL, AdminTTL} \subseteq Nat \ {0}  BY TablesAssumption, Zenon
  <1> QED  BY <1>1

\* Who asks for a seat is judged by what the table holds (sessionRole).
LEMMA SeatStep ==
    ASSUME NEW s \in Sessions, NEW who \in Talks, SessionRole(s, who), TablesInv
    PROVE  TablesInv' /\ SeatHeld /\ NoticeOnce /\ CurrentPassword
  <1>1. seats' \in [Sessions -> [talk : Talks \union {"nobody"}, age : Int]]
    BY DEF SessionRole, TablesInv, Swept, Empty
  <1>2. TablesInv'  BY <1>1 DEF SessionRole, TablesInv
  <1>3. SeatHeld
    <2> SUFFICES ASSUME NEW t \in Sessions, seats'[t] # Empty, seats'[t].talk # seats[t].talk
                 PROVE  seats[t] = Empty \/ seats[t].age > Active
        BY DEF SeatHeld
    <2>1. seats' # seats  OBVIOUS
    <2>2. Takes(s, who) /\ seats' = Swept([seats EXCEPT ![s] = [talk |-> who, age |-> 0]])
      BY <2>1 DEF SessionRole
    <2>3. seats'[t] = [seats EXCEPT ![s] = [talk |-> who, age |-> 0]][t]
      BY <2>2 DEF Swept
    <2>4. t = s  BY <2>3
    <2>5. seats'[t] = [talk |-> who, age |-> 0]  BY <2>3, <2>4 DEF TablesInv
    <2> QED  BY <2>2, <2>4, <2>5 DEF Takes
  <1>4. told'.what = "role"  BY DEF SessionRole
  <1> QED  BY <1>2, <1>3, <1>4 DEF NoticeOnce, CurrentPassword

\* An announcement looks at the same entry that it writes (announce).
LEMMA NoticeStep ==
    ASSUME NEW k \in Pairs, Announce(k), TablesInv
    PROVE  TablesInv' /\ SeatHeld /\ NoticeOnce /\ CurrentPassword
  <1>1. TablesInv'  BY DEF Announce, TablesInv
  <1>2. told'.what = "notice" /\ told'.pair = k /\ told'.shown = Due(k) /\ seats' = seats
    BY DEF Announce
  <1>3. NoticeOnce  BY <1>2 DEF NoticeOnce, Due, TablesInv
  <1> QED  BY <1>1, <1>2, <1>3 DEF SeatHeld, CurrentPassword

\* A password is checked against the present hash, whatever is cached
\* (VerifyAdmin, SetAdminPassword).
LEMMA AdminStep ==
    ASSUME NEW pass \in Passwords, SetPassword(pass) \/ VerifyAdmin(pass), TablesInv
    PROVE  TablesInv' /\ SeatHeld /\ NoticeOnce /\ CurrentPassword
  <1>1. CASE SetPassword(pass)
    <2>1. hash'.of = hash.of + 1 /\ verified' = verified /\ hash'.of \in Nat
      BY <1>1 DEF SetPassword, TablesInv
    <2>2. TablesInv'  BY <1>1, <2>1 DEF SetPassword, TablesInv
    <2>3. told'.what = "none" /\ seats' = seats  BY <1>1 DEF SetPassword, Quiet
    <2> QED  BY <2>2, <2>3 DEF SeatHeld, NoticeOnce, CurrentPassword
  <1>2. CASE VerifyAdmin(pass)
    <2> DEFINE new == [pass |-> pass, of |-> hash.of, age |-> 0]
    <2>1. hash' = hash /\ seats' = seats /\ told' = [what |-> "admin", pass |-> pass, ok |-> Hit(pass) \/ pass = hash.pass]
      BY <1>2 DEF VerifyAdmin
    <2>2. \A v \in verified' : v \in verified \/ (v = new /\ pass = hash.pass)
      BY <1>2 DEF VerifyAdmin
    <2>3. TablesInv'  BY <1>2, <2>1, <2>2 DEF VerifyAdmin, TablesInv
    <2>4. CurrentPassword
      <3>1. Hit(pass) => pass = hash.pass  BY DEF Hit, TablesInv
      <3>2. told'.ok = (Hit(pass) \/ pass = hash.pass) /\ told'.pass = pass  BY <2>1
      <3> QED  BY <2>1, <3>1, <3>2 DEF CurrentPassword
    <2>5. told'.what = "admin"  BY <2>1
    <2> QED  BY <2>1, <2>3, <2>4, <2>5 DEF SeatHeld, NoticeOnce
  <1> QED  BY <1>1, <1>2

\* The rest forgets all, or makes it older.
LEMMA QuietStep ==
    ASSUME LogNext \/ CommonNext, TablesInv
    PROVE  TablesInv' /\ SeatHeld /\ NoticeOnce /\ CurrentPassword
  <1>1. told'.what = "none"
    <2>1. LogNext => told' = Quiet  BY ZenonT(60) DEF LogNext, WriteRecord
    <2>2. CommonNext => told' = Quiet  BY DEF CommonNext, RestartTables, TickTables
    <2> QED  BY <2>1, <2>2 DEF Quiet
  <1>2. CASE LogNext
    <2>1. UNCHANGED <<seats, notices, hash, verified, since>>  BY <1>2 DEF LogNext, WriteRecord
    <2>2. TablesInv' /\ SeatHeld  BY <2>1 DEF TablesInv, SeatHeld
    <2> QED  BY <1>1, <2>2 DEF NoticeOnce, CurrentPassword
  <1>3. CASE RestartTables
    <2>1. TablesInv'  BY <1>3 DEF RestartTables, TablesInv, Empty
    <2>2. \A s \in Sessions : seats'[s] = Empty  BY <1>3 DEF RestartTables
    <2> QED  BY <1>1, <2>1, <2>2 DEF SeatHeld, NoticeOnce, CurrentPassword
  <1>4. CASE TickTables
    <2>1. \A s \in Sessions : seats[s] = Empty \/ seats'[s] = [seats[s] EXCEPT !.age = Aged(@, Hour)]
      BY <1>4 DEF TickTables
    <2>2. \A s \in Sessions : seats[s] # Empty => seats'[s].talk = seats[s].talk
      BY <2>1 DEF TablesInv
    <2>3. seats' \in [Sessions -> [talk : Talks \union {"nobody"}, age : Int]]
      <3>1. \A s \in Sessions : seats'[s] \in [talk : Talks \union {"nobody"}, age : Int]
        <4> SUFFICES ASSUME NEW s \in Sessions PROVE seats'[s] \in [talk : Talks \union {"nobody"}, age : Int]
            OBVIOUS
        <4>1. seats[s] \in [talk : Talks \union {"nobody"}, age : Int] /\ seats[s].age \in Int
          BY DEF TablesInv
        <4>2. Aged(seats[s].age, Hour) \in Int  BY <4>1, Ages, Clocks
        <4>3. seats'[s] = Empty \/ seats'[s] = [seats[s] EXCEPT !.age = Aged(seats[s].age, Hour)]
          BY <1>4 DEF TickTables
        <4> QED  BY <4>1, <4>2, <4>3 DEF Empty
      <3>2. DOMAIN seats' = Sessions /\ seats' = [s \in Sessions |-> seats'[s]]  BY <1>4 DEF TickTables
      <3> QED  BY <3>1, <3>2
    <2>4. \A v \in verified' : /\ v \in [pass : Passwords, of : Nat, age : Int]
                               /\ \E u \in verified : v.pass = u.pass /\ v.of = u.of
      <3> SUFFICES ASSUME NEW u \in verified
                   PROVE  LET v == [u EXCEPT !.age = Aged(@, AdminTTL)]
                          IN  v \in [pass : Passwords, of : Nat, age : Int] /\ v.pass = u.pass /\ v.of = u.of
          BY <1>4 DEF TickTables
      <3>1. u \in [pass : Passwords, of : Nat, age : Int] /\ u.age \in Int  BY DEF TablesInv
      <3>2. Aged(u.age, AdminTTL) \in Int  BY <3>1, Ages, Clocks
      <3> QED  BY <3>1, <3>2
    <2>5. TablesInv'
      <3>1. since' = notices' /\ DOMAIN notices' = Pairs /\ hash' = hash
        BY <1>4 DEF TickTables, TablesInv
      <3>2. verified' \subseteq [pass : Passwords, of : Nat, age : Int]  BY <2>4
      <3>3. \A v \in verified' : v.of <= hash'.of /\ (v.of = hash'.of => v.pass = hash'.pass)
        BY <2>4, <3>1 DEF TablesInv
      <3> QED  BY <2>3, <3>1, <3>2, <3>3 DEF TablesInv
    <2> QED  BY <1>1, <2>2, <2>5 DEF SeatHeld, NoticeOnce, CurrentPassword
  <1> QED  BY <1>2, <1>3, <1>4 DEF CommonNext

\* Seats, notices and passwords answer for what is the case now, for any
\* sessions, passwords and limits (sessionRole, announce, VerifyAdmin).
THEOREM TablesTrue == TablesSpec => TablesCurrent
  <1>1. TablesInit => TablesInv
    BY DEF TablesInit, TablesInv, Empty
  <1>2. TablesInv /\ [TablesNext]_tablesVars =>
           TablesInv' /\ [SeatHeld /\ NoticeOnce /\ CurrentPassword]_tablesVars
    <2> SUFFICES ASSUME TablesInv, [TablesNext]_tablesVars
                 PROVE  TablesInv' /\ [SeatHeld /\ NoticeOnce /\ CurrentPassword]_tablesVars
        OBVIOUS
    <2>1. CASE UNCHANGED tablesVars  BY <2>1 DEF tablesVars, TablesInv
    <2>2. CASE TablesNext
      BY <2>2, SeatStep, NoticeStep, AdminStep, QuietStep DEF TablesNext, SeatsNext, NoticesNext,
         AdminNext
    <2> QED  BY <2>1, <2>2
  <1> QED  BY <1>1, <1>2, PTL DEF TablesSpec, TablesCurrent

-----------------------------------------------------------------------------
(* The web search.                                                          *)

\* The allowance is at least one search, and what was found is a sequence; by
\* the stage of the loop: a first turn has found nothing yet, and no turn after
\* it begins, nor does a reply, with neither a search that worked nor a failure.
SearchTyped ==
    /\ ask.max \in Nat \ {0} /\ turn \in Nat /\ failed \in BOOLEAN
    /\ found \in Seq([query : {"user", "own"}, pages : SUBSET Pages])
    /\ Len(found) <= ask.max

SearchInv ==
    /\ SearchTyped
    /\ stage = "idle" => turn = 0 /\ found = <<>>
    /\ stage = "calls" => Len(found) < ask.max
    /\ stage = "own" => found = <<>>
    /\ stage = "again" => found # <<>>
    /\ stage = "ask" /\ turn > 0 => found # <<>>
    /\ stage = "reply" => (ask.user => found # <<>> \/ failed)
    /\ SearchSettles

\* One search that worked lengthens what was found by one.
LEMMA OneMore ==
    ASSUME SearchTyped, NEW query \in {"user", "own"}, NEW pages \in SUBSET Pages, Searched(query, pages)
    PROVE  /\ found' \in Seq([query : {"user", "own"}, pages : SUBSET Pages])
           /\ Len(found') = Len(found) + 1 /\ found' # <<>>
  <1> DEFINE r == [query |-> query, pages |-> pages]
  <1>1. found' = Append(found, r) /\ r \in [query : {"user", "own"}, pages : SUBSET Pages]  BY DEF Searched
  <1>2. found \in Seq([query : {"user", "own"}, pages : SUBSET Pages])  BY DEF SearchTyped
  <1> HIDE DEF r
  <1> QED  BY <1>1, <1>2

\* What comes of a search.
LEMMA OutcomeTyped == ASSUME NEW o \in Outcomes PROVE o.ok \in BOOLEAN /\ o.pages \in SUBSET Pages
  <1>1. CASE o = Failing  BY <1>1 DEF Failing
  <1>2. CASE o \in {[ok |-> TRUE, pages |-> ps] : ps \in SUBSET Pages}
    <2>1. PICK ps \in SUBSET Pages : o = [ok |-> TRUE, pages |-> ps]  BY <1>2
    <2> QED  BY <2>1
  <1> QED  BY <1>1, <1>2 DEF Outcomes

\* A call that is run either finds something or records that it failed.
LEMMA RunCallKeeps ==
    ASSUME SearchInv, NEW blank \in BOOLEAN, NEW got \in Outcomes, RunCall(blank, got)
    PROVE  SearchInv'
  <1>0. SearchTyped /\ stage = "calls" /\ Len(found) < ask.max /\ ask' = ask  BY DEF SearchInv, RunCall
  <1>1. got.ok \in BOOLEAN /\ got.pages \in SUBSET Pages  BY OutcomeTyped
  <1>2. /\ Len(found') <= ask.max /\ failed' \in BOOLEAN
        /\ found' \in Seq([query : {"user", "own"}, pages : SUBSET Pages])
        /\ found' # <<>> \/ failed'
    <2>1. CASE got.ok
      <3>1. Searched(IF blank THEN "user" ELSE "own", got.pages) /\ failed' = failed  BY <2>1 DEF RunCall
      <3>2. (IF blank THEN "user" ELSE "own") \in {"user", "own"}  OBVIOUS
      <3>3. /\ found' \in Seq([query : {"user", "own"}, pages : SUBSET Pages])
            /\ Len(found') = Len(found) + 1 /\ found' # <<>>
        BY <1>0, <1>1, <3>1, <3>2, OneMore
      <3> QED  BY <1>0, <3>1, <3>3 DEF SearchTyped
    <2>2. CASE ~got.ok
      <3>1. failed' = TRUE /\ found' = found  BY <2>2 DEF RunCall
      <3> QED  BY <1>0, <3>1 DEF SearchTyped
    <2> QED  BY <2>1, <2>2
  <1> DEFINE quits == (failed' /\ Len(found') = 0) \/ turn = ask.max
  <1>3. \/ stage' = "calls" /\ turn' = turn /\ Len(found') < ask.max
        \/ stage' = "reply" /\ turn' = turn
        \/ stage' = "ask" /\ turn' = turn + 1 /\ ~quits
    <2>1. Len(found') \in Nat /\ ask.max \in Nat  BY <1>0, <1>2 DEF SearchTyped
    <2> QED  BY <2>1 DEF RunCall
  <1>4. ~quits => found' # <<>>  BY <1>2
  <1>5. SearchTyped'  BY <1>0, <1>2, <1>3 DEF SearchTyped
  <1> QED  BY <1>0, <1>2, <1>3, <1>4, <1>5 DEF SearchInv, SearchSettles

\* A search the proxy makes itself is made before the loop says anything.
LEMMA OwnSearchKeeps ==
    ASSUME SearchInv, NEW got \in Outcomes, OwnSearch(got)
    PROVE  SearchInv'
  <1>0. SearchTyped /\ found = <<>> /\ ask' = ask /\ turn' = turn  BY DEF SearchInv, OwnSearch
  <1>1. got.ok \in BOOLEAN /\ got.pages \in SUBSET Pages  BY OutcomeTyped
  <1>2. CASE got.ok
    <2>1. Searched("user", got.pages) /\ stage' = "again" /\ failed' = failed  BY <1>2 DEF OwnSearch
    <2>2. /\ found' \in Seq([query : {"user", "own"}, pages : SUBSET Pages])
          /\ Len(found') = Len(found) + 1 /\ found' # <<>>
      BY <1>0, <1>1, <2>1, OneMore
    <2>3. SearchTyped'  BY <1>0, <2>1, <2>2 DEF SearchTyped
    <2> QED  BY <2>1, <2>2, <2>3 DEF SearchInv, SearchSettles
  <1>3. CASE ~got.ok
    <2>1. failed' = TRUE /\ stage' = "reply" /\ found' = found  BY <1>3 DEF OwnSearch
    <2>2. SearchTyped'  BY <1>0, <2>1 DEF SearchTyped
    <2> QED  BY <2>1, <2>2 DEF SearchInv, SearchSettles
  <1> QED  BY <1>2, <1>3

\* The reply shows each search that worked with its own result.
LEMMA ReplyKeeps == ASSUME SearchInv, ReplySearch PROVE SearchInv'
  <1>1. SearchTyped /\ (ask.user => found # <<>> \/ failed)
    BY DEF SearchInv, ReplySearch
  <1>2. /\ UNCHANGED <<ask, turn, found, failed>> /\ stage' = "done"
        /\ shown' = [blocks |-> SearchBlocks, sources |-> SourcesOf,
                     text |-> IF said THEN "words" ELSE IF failed THEN "error" ELSE "none"]
    BY DEF ReplySearch
  <1>3. SearchTyped'  BY <1>1, <1>2 DEF SearchTyped
  <1>4. shown'.blocks = SearchBlocks /\ shown'.sources = SourcesOf
    BY <1>2
  <1>5. failed => shown'.text # "none"  BY <1>2
  <1>6. ASSUME NEW i \in DOMAIN found
        PROVE  \E k \in DOMAIN SearchBlocks : SearchBlocks[k].kind = "use"
                   /\ SearchBlocks[k + 1] = [kind |-> "result", of |-> i, pages |-> found[i].pages]
    <2> DEFINE n == Len(found)
    <2>1. n \in Nat /\ i \in 1..n  BY <1>1 DEF SearchTyped
    <2> HIDE DEF n
    <2>2. /\ 2 * i - 1 \in 1..(2 * n) /\ 2 * i \in 1..(2 * n) /\ 2 * i - 1 + 1 = 2 * i
          /\ (2 * i - 1 + 1) \div 2 = i /\ (2 * i + 1) \div 2 = i
          /\ (2 * i - 1) % 2 = 1 /\ (2 * i) % 2 # 1
      BY <2>1
    <2>3. SearchBlocks[2 * i - 1] = [kind |-> "use", of |-> i, query |-> found[i].query]
      BY <2>2 DEF SearchBlocks, n
    <2>4. SearchBlocks[2 * i] = [kind |-> "result", of |-> i, pages |-> found[i].pages]
      BY <2>2 DEF SearchBlocks, n
    <2>5. 2 * i - 1 \in DOMAIN SearchBlocks  BY <2>2 DEF SearchBlocks, n
    <2> QED  BY <2>2, <2>3, <2>4, <2>5
  <1>7. \A i \in DOMAIN found : found[i].pages \subseteq SourcesOf  BY DEF SourcesOf
  <1>8. SearchSettles'
    <2>1. Len(found') <= ask'.max  BY <1>3 DEF SearchTyped
    <2>2. ask'.user => found' # <<>> \/ failed'  BY <1>1, <1>2
    <2>3. failed' /\ found' = <<>> => shown'.text # "none"  BY <1>2, <1>5
    <2>4. \A i \in DOMAIN found' :
              /\ \E k \in DOMAIN shown'.blocks :
                    shown'.blocks[k].kind = "use" /\ shown'.blocks[k + 1] = [kind |-> "result", of |-> i, pages |-> found'[i].pages]
              /\ found'[i].pages \subseteq shown'.sources
      BY <1>2, <1>4, <1>6, <1>7
    <2> QED  BY <2>1, <2>2, <2>3, <2>4 DEF SearchSettles
  <1> QED  BY <1>2, <1>3, <1>8 DEF SearchInv

\* Every step keeps what was found and shown in step.
LEMMA SearchStep == SearchInv /\ [SearchNext]_searchVars => SearchInv'
  <1> SUFFICES ASSUME SearchInv, [SearchNext]_searchVars PROVE SearchInv'
      OBVIOUS
  <1>0. SearchTyped  BY DEF SearchInv
  <1>1. ASSUME NEW setting \in 1..MaxUses, NEW requested \in 0..MaxUses,
               NEW user \in BOOLEAN, NEW override \in BOOLEAN, NEW virtual \in BOOLEAN,
               NEW routed \in BOOLEAN, NEW resolves \in BOOLEAN,
               StartSearch(setting, requested, user, override, virtual, routed, resolves)
        PROVE  SearchInv'
    <2>1. MaxUses \in Nat  BY SearchAssumption
    <2>2. Allowance(setting, requested) \in Nat \ {0}  BY <2>1 DEF Allowance
    <2>3. ask'.max = Allowance(setting, requested) /\ UNCHANGED <<turn, found, failed>> /\ stage' \in {"refused", "ask"}
      BY <1>1 DEF StartSearch
    <2>4. turn = 0 /\ found = <<>>  BY <1>1 DEF StartSearch, SearchInv
    <2>5. Len(found) = 0  BY <2>4
    <2>6. SearchTyped'  BY <1>0, <2>2, <2>3, <2>5 DEF SearchTyped
    <2> QED  BY <2>3, <2>4, <2>6 DEF SearchInv, SearchSettles
  <1>2. CASE ModelFails
    BY <1>0, <1>2 DEF ModelFails, SearchInv, SearchTyped, SearchSettles
  <1>3. ASSUME NEW words \in BOOLEAN, ModelAnswers(words) PROVE SearchInv'
    <2>1. /\ stage = "ask" /\ stage' = IF OwnSearchDue THEN "own" ELSE "reply"
          /\ UNCHANGED <<ask, turn, found, failed>>
      BY <1>3 DEF ModelAnswers
    <2>2. SearchTyped'  BY <1>0, <2>1 DEF SearchTyped
    <2>3. OwnSearchDue => found = <<>>  BY <1>0 DEF OwnSearchDue, Used, SearchTyped
    <2>4. ~OwnSearchDue => (ask.user => found # <<>>)
      BY <1>0, <2>1 DEF OwnSearchDue, Used, SearchTyped, SearchInv
    <2> QED  BY <2>1, <2>2, <2>3, <2>4 DEF SearchInv, SearchSettles
  <1>4. ASSUME NEW words \in BOOLEAN, CallsDenied(words) PROVE SearchInv'
    <2>1. stage' = "reply" /\ UNCHANGED <<ask, turn, found, failed>> /\ Len(found) >= ask.max
      BY <1>4 DEF CallsDenied, Used
    <2>2. found # <<>>  BY <1>0, <2>1 DEF SearchTyped
    <2>3. SearchTyped'  BY <1>0, <2>1 DEF SearchTyped
    <2> QED  BY <2>1, <2>2, <2>3 DEF SearchInv, SearchSettles
  <1>5. ASSUME NEW words \in BOOLEAN, AnswersAgain(words) PROVE SearchInv'
    <2>1. stage = "again" /\ stage' = "reply" /\ UNCHANGED <<ask, turn, found, failed>>
      BY <1>5 DEF AnswersAgain
    <2>2. SearchTyped'  BY <1>0, <2>1 DEF SearchTyped
    <2> QED  BY <2>1, <2>2 DEF SearchInv, SearchSettles
  <1>6. ASSUME NEW n \in 1..MaxParallel, ModelCalls(n) PROVE SearchInv'
    <2>1. stage' = "calls" /\ UNCHANGED <<ask, turn, found, failed>> /\ Len(found) < ask.max
      BY <1>6 DEF ModelCalls, Used
    <2>2. SearchTyped'  BY <1>0, <2>1 DEF SearchTyped
    <2> QED  BY <2>1, <2>2 DEF SearchInv, SearchSettles
  <1>7. CASE UNCHANGED searchVars
    BY <1>7 DEF searchVars, SearchInv, SearchTyped, SearchSettles
  <1> QED
    BY <1>1, <1>2, <1>3, <1>4, <1>5, <1>6, <1>7, RunCallKeeps, OwnSearchKeeps, ReplyKeeps
       DEF SearchNext

\* The model gets a result for every search it asked for, and the client sees
\* each of them, for any allowance and any outcomes (runWebSearchLoop).
THEOREM SearchAnswers == SearchSpec => []SearchSettles
  <1>1. SearchInit => SearchInv
    <2> SUFFICES ASSUME SearchInit PROVE SearchInv  OBVIOUS
    <2>1. found = <<>> /\ turn = 0 /\ failed = FALSE /\ stage = "idle" /\ ask.max = 1  BY DEF SearchInit
    <2>2. Len(found) = 0 /\ found \in Seq([query : {"user", "own"}, pages : SUBSET Pages])  BY <2>1
    <2>3. ask.max \in Nat \ {0} /\ turn \in Nat /\ Len(found) <= ask.max  BY <2>1, <2>2
    <2>4. failed \in BOOLEAN  BY <2>1
    <2>5. SearchTyped  BY <2>2, <2>3, <2>4 DEF SearchTyped
    <2> QED  BY <2>1, <2>5 DEF SearchInv, SearchSettles
  <1>2. SearchInv => SearchSettles  BY DEF SearchInv
  <1> QED  BY <1>1, <1>2, SearchStep, PTL DEF SearchSpec

-----------------------------------------------------------------------------
(* The catalog.                                                             *)

\* What the upstreams list and the filters there are, and how long ago each
\* was so: what is the case was so just now.
HistoryNow ==
    /\ \A p \in Providers : provs[p] \in Configs[p]
    /\ DOMAIN provs = Providers /\ DOMAIN listing = Providers /\ DOMAIN lookup = Lookups
    /\ serves \in [Providers -> Catalogues \union {None}]
    /\ listedAgo \in [Providers -> [Answers -> Nat]]
    /\ DOMAIN keptAgo = Providers
    /\ \A p \in Providers : keptAgo[p] \in [Filters(p) -> Nat]
    /\ \A p \in Providers : listedAgo[p][Offered(serves[p])] = 0
    /\ \A p \in Providers : keptAgo[p][provs[p].keep] = 0

\* What is learned of a model is a sight and a window; the settings are some
\* there are.
WindowsKnown ==
    /\ learned \in [Providers -> [Ids -> [sight : {"none", "sees", "blind"}, window : Int]]]
    /\ rules \in Rules

\* A request that is resolved, or under way to it, has a provider, and settings
\* whose filters count as being had.
Holds(x) ==
    /\ x.prov \in Providers
    /\ \A q \in Providers : x.conf[q] \in Configs[q] /\ keptAgo[q][x.conf[q].keep] = 0

\* One that is at a listing, or scans: its shape, the age of its answer, and
\* that it looks for what it was asked.
UnderWay(x) == x.at \in {"look", "scan", "again"}
Looks(x) ==
    /\ x = [at |-> x.at, ask |-> x.ask, conf |-> x.conf, prov |-> x.prov, want |-> x.want, mode |-> x.mode,
            under |-> x.under, age |-> x.age, got |-> x.got, ids |-> x.ids]
    /\ x.age \in Nat /\ x.age <= Timeout
    /\ x.got \in {"pending", "ids", "nothing"}
    /\ x.at # "scan" => x.got = "pending"
Answered(x) ==
    /\ x.got = "ids" => x.ids \in Answers /\ listedAgo[x.prov][x.ids] <= x.age
    /\ x.got = "nothing" => listedAgo[x.prov][{}] <= x.age
AsAsked(x) ==
    /\ x.mode # "sight" /\ Target(x.ask)[1] # 0 => x.mode = "named"
    /\ x.mode # "sight" /\ Target(x.ask)[1] # 0 => x.prov = Target(x.ask)[1]
    /\ x.mode # "sight" /\ Target(x.ask)[1] # 0 => x.want = Target(x.ask)[2]
    /\ x.mode = "sight" => ~NameSees(x.under, x.want)
    /\ x.at = "again" => x.mode = "sight"

Sound(x) ==
    \/ x.at \in {"idle", "over"}
    \/ x.at \in {"done", "told"} /\ Holds(x)
    \/ UnderWay(x) /\ Holds(x) /\ Looks(x) /\ Answered(x) /\ AsAsked(x)

\* A listing was made of what was so no longer ago than it is old and a scan
\* takes, through a filter that was had when it was stored.
MadeOf(p, models, age) ==
    \E ids \in Answers, k \in Filters(p) :
        /\ listedAgo[p][ids] <= Timeout + age /\ keptAgo[p][k] <= age
        /\ models = Filtered(ids, k)
ListingSeen(p) ==
    listing[p] # None =>
        /\ listing[p] = [models |-> listing[p].models, age |-> listing[p].age] /\ listing[p].age \in Nat
        /\ listing[p].age < TTL => MadeOf(p, listing[p].models, listing[p].age)

CatalogInv ==
    /\ HistoryNow /\ WindowsKnown
    /\ \A l \in Lookups : Sound(lookup[l])
    /\ \A p \in Providers : ListingSeen(p)

\* The numbers the windows are made of.
LEMMA CatalogNumbers ==
    /\ TTL \in Nat \ {0} /\ Timeout \in Nat /\ Window \in Nat /\ Window = TTL - 1 + Timeout
    /\ Never \in Nat /\ {} \in Answers /\ Providers \in SUBSET Nat /\ 0 \notin Providers
    /\ \A c \in Catalogues \union {None} : Offered(c) \in Answers
  <1>1. Providers \in SUBSET Nat /\ 0 \notin Providers
    BY CatalogAssumption, FS_CardinalityType
  <1>2. Window \in Nat /\ Never \in Nat  BY CatalogAssumption DEF Window, Never
  <1> QED  BY <1>1, <1>2, CatalogAssumption DEF Window, Answers, Offered

\* What ages by a tick ages by no more.
LEMMA SinceGrows ==
    ASSUME NEW now \in BOOLEAN, NEW ago \in Nat, NEW a \in Nat, ago <= a, a <= Window
    PROVE  Since(now, ago) \in Nat /\ Since(now, ago) <= a + 1
  BY CatalogNumbers DEF Since

\* The next enabled provider is one.
LEMMA AfterIsOne ==
    ASSUME NEW conf, NEW k \in Nat, After(conf, k) # None
    PROVE  After(conf, k) \in Providers
  <1> DEFINE next == {p \in Providers : p > k /\ conf[p].on}
  <1>1. next # {} /\ After(conf, k) = CHOOSE p \in next : \A q \in next : p <= q
    BY DEF After
  <1>2. next \in SUBSET Nat  BY CatalogNumbers
  <1>3. \E p \in next : \A q \in next : p <= q
    <2> HIDE DEF next
    <2> QED  BY <1>1, <1>2, LeastNat
  <1>4. After(conf, k) \in next
    <2> HIDE DEF next
    <2> QED  BY <1>1, <1>3
  <1> QED  BY <1>4

\* A request that begins to consult a listing is sound.
LEMMA BeginsSound ==
    ASSUME NEW wish, NEW conf, NEW p \in Providers, NEW want, NEW mode,
           \A q \in Providers : conf[q] \in Configs[q] /\ keptAgo[q][conf[q].keep] = 0,
           mode # "sight" /\ Target(wish)[1] # 0 => mode = "named" /\ p = Target(wish)[1] /\ want = Target(wish)[2],
           mode = "sight" => ~NameSees(rules, want)
    PROVE  Sound(Consulting(wish, conf, p, want, mode))
  <1> DEFINE x == Consulting(wish, conf, p, want, mode)
  <1>1. /\ x.at = "look" /\ x.ask = wish /\ x.conf = conf /\ x.prov = p /\ x.want = want /\ x.mode = mode
        /\ x.age = 0 /\ x.got = "pending" /\ (mode = "sight" => x.under = rules)
    BY DEF Consulting
  <1>2. Looks(x)  BY CatalogNumbers DEF Consulting, Looks
  <1> HIDE DEF x
  <1>3. Holds(x)  BY <1>1 DEF Holds
  <1>4. Answered(x)  BY <1>1 DEF Answered
  <1>5. AsAsked(x)  BY <1>1 DEF AsAsked
  <1>6. UnderWay(x)  BY <1>1 DEF UnderWay
  <1> QED  BY <1>2, <1>3, <1>4, <1>5, <1>6 DEF Sound, x

\* So is one that has its model, or that is refused for want of a provider.
LEMMA DoneSound ==
    ASSUME NEW conf, NEW p \in Providers, NEW model,
           \A q \in Providers : conf[q] \in Configs[q] /\ keptAgo[q][conf[q].keep] = 0
    PROVE  Sound(Done(conf, p, model))
  BY DEF Sound, Done, Holds

LEMMA FallbackSound ==
    ASSUME NEW conf, \A q \in Providers : conf[q] \in Configs[q] /\ keptAgo[q][conf[q].keep] = 0
    PROVE  Sound(Fallback(conf))
  <1>1. CASE First(conf) = None  BY <1>1 DEF Fallback, Sound, Over
  <1>2. CASE First(conf) # None
    <2>1. First(conf) \in Providers  BY <1>2, AfterIsOne DEF First
    <2> QED  BY <1>2, <2>1, DoneSound DEF Fallback
  <1> QED  BY <1>1, <1>2

\* With a listing in hand a request goes on soundly.
LEMMA MovesOn ==
    ASSUME NEW look, Sound(look), look.at \in {"look", "scan"}, NEW models
    PROVE  Sound(Decided(look, models))
  <1> DEFINE next == After(look.conf, look.prov)
             m == FuzzyModel(models, look.want)
  <1>1. Holds(look) /\ Looks(look) /\ Answered(look) /\ AsAsked(look)  BY DEF Sound, UnderWay
  <1>2. look.prov \in Providers /\ look.prov \in Nat  BY <1>1, CatalogNumbers DEF Holds
  <1>3. \A q \in Providers : look.conf[q] \in Configs[q] /\ keptAgo[q][look.conf[q].keep] = 0
    BY <1>1 DEF Holds
  <1>4. CASE look.mode = "sight"
    <2> DEFINE x == [Consulting(look.ask, look.conf, look.prov, look.want, "sight")
                        EXCEPT !.at = "again", !.under = look.under]
               u == [Consulting(look.ask, look.conf, look.prov, look.want, "sight") EXCEPT !.at = "again"]
    <2>a. u = [at |-> "again", ask |-> look.ask, conf |-> look.conf, prov |-> look.prov, want |-> look.want,
               mode |-> "sight", under |-> rules, age |-> 0, got |-> "pending", ids |-> {}]
      BY DEF Consulting
    <2>b. x = [u EXCEPT !.under = look.under]  OBVIOUS
    <2> HIDE DEF x, u
    <2>1. x = [at |-> "again", ask |-> look.ask, conf |-> look.conf, prov |-> look.prov, want |-> look.want,
               mode |-> "sight", under |-> look.under, age |-> 0, got |-> "pending", ids |-> {}]
      BY <2>a, <2>b
    <2>2. Decided(look, models) = x  BY <1>4 DEF Decided, x
    <2> HIDE DEF x
    <2>3. /\ x.at = "again" /\ x.ask = look.ask /\ x.conf = look.conf /\ x.prov = look.prov /\ x.want = look.want
          /\ x.mode = look.mode /\ x.under = look.under /\ x.age = 0 /\ x.got = "pending" /\ x.ids = {}
      BY <1>4, <2>1
    <2>4. Looks(x)  BY <2>1, <2>3, CatalogNumbers DEF Looks
    <2>5. Holds(x)  BY <1>1, <2>3 DEF Holds
    <2>6. Answered(x)  BY <2>3 DEF Answered
    <2>7. AsAsked(x)  BY <1>1, <1>4, <2>3 DEF AsAsked
    <2>8. UnderWay(x)  BY <2>3 DEF UnderWay
    <2> QED  BY <2>2, <2>4, <2>5, <2>6, <2>7, <2>8 DEF Sound
  <1>5. CASE look.mode # "sight" /\ look.mode = "named"
    <2>1. \/ Decided(look, models) = Done(look.conf, look.prov, m)
          \/ Decided(look, models) = Done(look.conf, look.prov, look.want)
          \/ Decided(look, models) = Over
      BY <1>5 DEF Decided
    <2>2. Sound(Over)  BY DEF Sound, Over
    <2> HIDE DEF m
    <2> QED  BY <1>2, <1>3, <2>1, <2>2, DoneSound
  <1>6. CASE look.mode # "sight" /\ look.mode # "named"
    <2>1. \/ Decided(look, models) = Done(look.conf, look.prov, m)
          \/ Decided(look, models) = Fallback(look.conf)
          \/ next # None /\ Decided(look, models) = Consulting(look.ask, look.conf, next, look.want, "any")
      BY <1>6 DEF Decided
    <2>2. Target(look.ask)[1] = 0  BY <1>1, <1>6 DEF AsAsked
    <2>3. next # None => next \in Providers  BY <1>2, AfterIsOne
    <2> HIDE DEF m, next
    <2>4. next # None => Sound(Consulting(look.ask, look.conf, next, look.want, "any"))
      BY <1>3, <2>2, <2>3, BeginsSound
    <2> QED  BY <1>2, <1>3, <2>1, <2>4, DoneSound, FallbackSound
  <1> QED  BY <1>4, <1>5, <1>6

\* Where nothing becomes longer ago, what is sound and what a listing was made
\* of stay so.
LEMMA Younger ==
    ASSUME CatalogInv, listedAgo' \in [Providers -> [Answers -> Nat]],
           \A p \in Providers : keptAgo'[p] \in [Filters(p) -> Nat],
           \A p \in Providers : \A ids \in Answers : listedAgo'[p][ids] <= listedAgo[p][ids],
           \A p \in Providers : \A k \in Filters(p) : keptAgo'[p][k] <= keptAgo[p][k]
    PROVE  /\ \A l \in Lookups : lookup'[l] = lookup[l] => Sound(lookup[l])'
           /\ \A p \in Providers : listing'[p] = listing[p] => ListingSeen(p)'
  <1>0. HistoryNow  BY DEF CatalogInv
  <1>1. ASSUME NEW l \in Lookups, lookup'[l] = lookup[l] PROVE Sound(lookup[l])'
    <2> DEFINE x == lookup[l]
    <2>1. Sound(x)  BY DEF CatalogInv
    <2>2. Holds(x) => Holds(x)'
      <3> SUFFICES ASSUME Holds(x), NEW q \in Providers PROVE keptAgo'[q][x.conf[q].keep] = 0
          BY <1>1 DEF Holds
      <3>1. x.conf[q] \in Configs[q] /\ keptAgo[q][x.conf[q].keep] = 0  BY DEF Holds
      <3>2. x.conf[q].keep \in Filters(q)  BY <3>1 DEF Filters
      <3>3. keptAgo'[q][x.conf[q].keep] \in Nat /\ keptAgo'[q][x.conf[q].keep] <= 0  BY <3>1, <3>2
      <3> QED  BY <3>3
    <2>3. Holds(x) /\ Looks(x) /\ Answered(x) => Answered(x)'
      <3> SUFFICES ASSUME Holds(x), Looks(x), Answered(x) PROVE Answered(x)'
          OBVIOUS
      <3>1. x.prov \in Providers /\ x.age \in Nat /\ {} \in Answers  BY CatalogNumbers DEF Holds, Looks
      <3>2. \A ids \in Answers : listedAgo[x.prov][ids] \in Nat /\ listedAgo'[x.prov][ids] \in Nat
            /\ listedAgo'[x.prov][ids] <= listedAgo[x.prov][ids]
        BY <1>0, <3>1 DEF HistoryNow
      <3>3. x' = x  BY <1>1
      <3> HIDE DEF x
      <3>4. ASSUME x.got = "ids" PROVE x.ids \in Answers /\ listedAgo'[x.prov][x.ids] <= x.age
        <4>1. x.ids \in Answers /\ listedAgo[x.prov][x.ids] <= x.age  BY <3>4 DEF Answered
        <4> QED  BY <3>1, <3>2, <4>1
      <3>5. ASSUME x.got = "nothing" PROVE listedAgo'[x.prov][{}] <= x.age
        <4>1. listedAgo[x.prov][{}] <= x.age  BY <3>5 DEF Answered
        <4> QED  BY <3>1, <3>2, <4>1
      <3> QED  BY <3>3, <3>4, <3>5 DEF Answered
    <2>4. UnderWay(x)' = UnderWay(x) /\ Looks(x)' = Looks(x) /\ AsAsked(x)' = AsAsked(x) /\ x' = x
      BY <1>1 DEF UnderWay, Looks, AsAsked, Target, NameSees
    <2> HIDE DEF x
    <2>5. Sound(x)'  BY <2>1, <2>2, <2>3, <2>4 DEF Sound
    <2> QED  BY <2>5 DEF x
  <1>2. ASSUME NEW p \in Providers, listing'[p] = listing[p] PROVE ListingSeen(p)'
    <2>1. ListingSeen(p)  BY DEF CatalogInv
    <2>2. ASSUME NEW models, NEW age \in Nat, MadeOf(p, models, age)
          PROVE  \E ids \in Answers, k \in Filters(p) :
                    /\ listedAgo'[p][ids] <= Timeout + age /\ keptAgo'[p][k] <= age
                    /\ models = Filtered(ids, k)
      <3>1. PICK ids \in Answers, k \in Filters(p) :
               /\ listedAgo[p][ids] <= Timeout + age /\ keptAgo[p][k] <= age
               /\ models = Filtered(ids, k)
        BY <2>2 DEF MadeOf
      <3>2. /\ listedAgo[p][ids] \in Nat /\ listedAgo'[p][ids] \in Nat /\ listedAgo'[p][ids] <= listedAgo[p][ids]
            /\ keptAgo[p][k] \in Nat /\ keptAgo'[p][k] \in Nat /\ keptAgo'[p][k] <= keptAgo[p][k]
        BY <1>0, <3>1 DEF HistoryNow
      <3>3. listedAgo'[p][ids] <= Timeout + age /\ keptAgo'[p][k] <= age  BY <3>1, <3>2, CatalogNumbers
      <3> QED  BY <3>1, <3>3
    <2>3. ASSUME listing[p] # None
          PROVE  /\ listing[p] = [models |-> listing[p].models, age |-> listing[p].age] /\ listing[p].age \in Nat
                 /\ listing[p].age < TTL =>
                      \E ids \in Answers, k \in Filters(p) :
                         /\ listedAgo'[p][ids] <= Timeout + listing[p].age /\ keptAgo'[p][k] <= listing[p].age
                         /\ listing[p].models = Filtered(ids, k)
      <3>1. listing[p] = [models |-> listing[p].models, age |-> listing[p].age] /\ listing[p].age \in Nat
        BY <2>1, <2>3 DEF ListingSeen
      <3>2. listing[p].age < TTL => MadeOf(p, listing[p].models, listing[p].age)  BY <2>1, <2>3 DEF ListingSeen
      <3> QED  BY <2>2, <3>1, <3>2
    <2> QED  BY <1>2, <2>3 DEF ListingSeen, MadeOf
  <1> QED  BY <1>1, <1>2

\* A step that changes one request, and no history.
LEMMA OneLookup ==
    ASSUME CatalogInv, NEW l \in Lookups, NEW x, lookup' = [lookup EXCEPT ![l] = x], Sound(x),
           UNCHANGED <<provs, serves, listing, rules, learned, listedAgo, keptAgo>>
    PROVE  CatalogInv'
  <1>1. HistoryNow /\ WindowsKnown  BY DEF CatalogInv
  <1>2. HistoryNow'  BY <1>1 DEF HistoryNow
  <1>3. WindowsKnown'  BY <1>1 DEF WindowsKnown
  <1>4. /\ \A m \in Lookups : lookup'[m] = lookup[m] => Sound(lookup[m])'
        /\ \A p \in Providers : listing'[p] = listing[p] => ListingSeen(p)'
    <2>1. /\ listedAgo' \in [Providers -> [Answers -> Nat]]
          /\ \A p \in Providers : keptAgo'[p] \in [Filters(p) -> Nat]
          /\ \A p \in Providers : \A ids \in Answers : listedAgo'[p][ids] <= listedAgo[p][ids]
          /\ \A p \in Providers : \A k \in Filters(p) : keptAgo'[p][k] <= keptAgo[p][k]
      BY <1>1 DEF HistoryNow
    <2> QED  BY <2>1, Younger
  <1>5. Sound(x)'
    <2>1. listedAgo' = listedAgo /\ keptAgo' = keptAgo  OBVIOUS
    <2> QED  BY <2>1 DEF Sound, Holds, Looks, Answered, AsAsked, UnderWay, NameSees, Target
  <1>6. ASSUME NEW m \in Lookups PROVE Sound(lookup[m])'
    <2>1. CASE m = l
      <3>1. lookup'[m] = x  BY <1>1, <2>1 DEF HistoryNow
      <3> QED  BY <1>5, <3>1
    <2>2. CASE m # l
      <3>1. lookup'[m] = lookup[m]  BY <1>1, <2>2 DEF HistoryNow
      <3> QED  BY <1>4, <3>1
    <2> QED  BY <2>1, <2>2
  <1> QED  BY <1>2, <1>3, <1>4, <1>6 DEF CatalogInv

\* ResolveModel begins with the settings of the moment.
LEMMA BeginSound ==
    ASSUME CatalogInv, NEW l \in Lookups, NEW wish \in Asks, BeginResolve(l, wish)
    PROVE  CatalogInv'
  <1> DEFINE prov == Target(wish)[1]
             name == Target(wish)[2]
             aliased == {q \in Providers : provs[q].on /\ name \in provs[q].aliases}
             first == CHOOSE q \in aliased : \A r \in aliased : q <= r
             x == IF prov # 0 THEN
                      IF ~provs[prov].on THEN Over
                      ELSE IF name = "" THEN Done(provs, prov, provs[prov].default)
                      ELSE Consulting(wish, provs, prov, name, "named")
                  ELSE IF aliased # {} THEN Done(provs, first, name)
                  ELSE IF name \in {"", "default"} \/ First(provs) = None THEN Fallback(provs)
                  ELSE Consulting(wish, provs, First(provs), name, "any")
  <1>1. lookup' = [lookup EXCEPT ![l] = x]
    BY DEF BeginResolve
  <1>2. UNCHANGED <<provs, serves, listing, rules, learned, listedAgo, keptAgo>>  BY DEF BeginResolve
  <1>3. prov \in Providers \union {0}  BY CatalogAssumption DEF Target
  <1>4. \A q \in Providers : provs[q] \in Configs[q] /\ keptAgo[q][provs[q].keep] = 0
    BY DEF CatalogInv, HistoryNow
  <1>5. First(provs) # None => First(provs) \in Providers  BY AfterIsOne DEF First
  <1>6. aliased # {} => first \in Providers
    <2> SUFFICES ASSUME aliased # {} PROVE first \in Providers  OBVIOUS
    <2>1. aliased \in SUBSET Nat /\ aliased \subseteq Providers  BY CatalogNumbers
    <2>2. \E q \in aliased : \A r \in aliased : q <= r
      <3> HIDE DEF aliased
      <3> QED  BY <2>1, LeastNat
    <2> HIDE DEF aliased
    <2> QED  BY <2>1, <2>2
  <1>7. \/ x = Over
        \/ prov # 0 /\ x = Done(provs, prov, provs[prov].default)
        \/ prov # 0 /\ x = Consulting(wish, provs, prov, name, "named")
        \/ aliased # {} /\ x = Done(provs, first, name)
        \/ x = Fallback(provs)
        \/ prov = 0 /\ First(provs) # None /\ x = Consulting(wish, provs, First(provs), name, "any")
    <2> HIDE DEF prov, name, aliased, first
    <2> QED  OBVIOUS
  <1>8. prov # 0 => Sound(Consulting(wish, provs, prov, name, "named"))
    BY <1>3, <1>4, BeginsSound
  <1>9. prov = 0 /\ First(provs) # None => Sound(Consulting(wish, provs, First(provs), name, "any"))
    BY <1>4, <1>5, BeginsSound
  <1>10. Sound(Over)  BY DEF Sound, Over
  <1> HIDE DEF prov, name, aliased, first, x
  <1>11. Sound(x)
    <2>1. prov # 0 => Sound(Done(provs, prov, provs[prov].default))  BY <1>3, <1>4, DoneSound
    <2>2. aliased # {} => Sound(Done(provs, first, name))  BY <1>4, <1>6, DoneSound
    <2>3. Sound(Fallback(provs))  BY <1>4, FallbackSound
    <2> QED  BY <1>7, <1>8, <1>9, <1>10, <2>1, <2>2, <2>3
  <1> QED  BY <1>1, <1>2, <1>11, OneLookup

\* A request consults a listing that is there, or starts a scan.
LEMMA ConsultSound ==
    ASSUME CatalogInv, NEW l \in Lookups, Consult(l) \/ StartScan(l) PROVE CatalogInv'
  <1>1. Sound(lookup[l]) /\ lookup[l].at = "look"  BY DEF CatalogInv, Consult, StartScan
  <1>2. UNCHANGED <<provs, serves, listing, rules, learned, listedAgo, keptAgo>>  BY DEF Consult, StartScan
  <1>3. CASE Consult(l)
    <2> DEFINE x == Decided(lookup[l], listing[lookup[l].prov].models)
    <2>1. lookup' = [lookup EXCEPT ![l] = x]  BY <1>3 DEF Consult
    <2>2. Sound(x)  BY <1>1, MovesOn
    <2> HIDE DEF x
    <2> QED  BY <1>2, <2>1, <2>2, OneLookup
  <1>4. CASE StartScan(l)
    <2> DEFINE y == lookup[l]
               x == [y EXCEPT !.at = "scan"]
    <2>1. lookup' = [lookup EXCEPT ![l] = x]  BY <1>4 DEF StartScan
    <2>2. Holds(y) /\ Looks(y) /\ Answered(y) /\ AsAsked(y) /\ y.at = "look"  BY <1>1 DEF Sound, UnderWay
    <2> HIDE DEF y
    <2>3. x = [at |-> "scan", ask |-> y.ask, conf |-> y.conf, prov |-> y.prov, want |-> y.want, mode |-> y.mode,
               under |-> y.under, age |-> y.age, got |-> y.got, ids |-> y.ids]
      BY <2>2 DEF Looks
    <2> HIDE DEF x
    <2>4. /\ x.at = "scan" /\ x.ask = y.ask /\ x.conf = y.conf /\ x.prov = y.prov /\ x.want = y.want
          /\ x.mode = y.mode /\ x.under = y.under /\ x.age = y.age /\ x.got = y.got /\ x.ids = y.ids
      BY <2>3
    <2>5. Looks(x)  BY <2>2, <2>3, <2>4 DEF Looks
    <2>6. Holds(x)  BY <2>2, <2>4 DEF Holds
    <2>7. Answered(x)  BY <2>2, <2>4 DEF Answered
    <2>8. AsAsked(x)  BY <2>2, <2>4 DEF AsAsked
    <2>9. Sound(x)  BY <2>4, <2>5, <2>6, <2>7, <2>8 DEF Sound, UnderWay
    <2> QED  BY <1>2, <2>1, <2>9, OneLookup
  <1> QED  BY <1>3, <1>4

\* Whether a model sees is asked, looked up again, and forgotten.
LEMMA SightSound ==
    ASSUME CatalogInv, NEW l \in Lookups, AskSight(l) \/ LookAgain(l) \/ EndRequest(l) PROVE CatalogInv'
  <1> DEFINE y == lookup[l]
  <1>1. Sound(y)  BY DEF CatalogInv
  <1>2. UNCHANGED <<provs, serves, listing, rules, learned, listedAgo, keptAgo>>
    BY DEF AskSight, LookAgain, EndRequest
  <1>3. ASSUME NEW model, NEW sees, Holds(y) PROVE Sound(Told(y, model, sees))
    BY <1>3 DEF Sound, Told, Holds
  <1>4. CASE AskSight(l)
    <2> DEFINE unsaid == Word(y.prov, y.model).sight = "none" /\ ~NameSees(rules, y.model)
               x == IF unsaid THEN Consulting(None, y.conf, y.prov, y.model, "sight")
                    ELSE Told(y, y.model, CapableFor(rules, y.prov, y.model))
    <2>1. y.at \in {"done", "told"} /\ lookup' = [lookup EXCEPT ![l] = x]  BY <1>4 DEF AskSight
    <2>2. Holds(y)  BY <1>1, <2>1 DEF Sound, UnderWay
    <2>3. unsaid => Sound(Consulting(None, y.conf, y.prov, y.model, "sight"))
      <3>1. y.prov \in Providers /\ \A q \in Providers : y.conf[q] \in Configs[q] /\ keptAgo[q][y.conf[q].keep] = 0
        BY <2>2 DEF Holds
      <3>2. unsaid => ~NameSees(rules, y.model)  OBVIOUS
      <3> HIDE DEF y, unsaid
      <3> QED  BY <3>1, <3>2, BeginsSound
    <2>4. Sound(Told(y, y.model, CapableFor(rules, y.prov, y.model)))  BY <1>3, <2>2
    <2> HIDE DEF unsaid, y
    <2>5. Sound(x)  BY <2>3, <2>4
    <2> HIDE DEF x
    <2> QED  BY <1>2, <2>1, <2>5, OneLookup
  <1>5. CASE LookAgain(l)
    <2> DEFINE x == Told(y, y.want, Word(y.prov, y.want).sight = "sees")
    <2>1. y.at = "again" /\ lookup' = [lookup EXCEPT ![l] = x]  BY <1>5 DEF LookAgain
    <2>2. Sound(x)  BY <1>1, <1>3, <2>1 DEF Sound
    <2> HIDE DEF x
    <2> QED  BY <1>2, <2>1, <2>2, OneLookup
  <1>6. CASE EndRequest(l)
    <2>1. lookup' = [lookup EXCEPT ![l] = Over] /\ Sound(Over)  BY <1>6 DEF EndRequest, Sound, Over
    <2> QED  BY <1>2, <2>1, OneLookup
  <1> QED  BY <1>4, <1>5, <1>6

\* A step whose requests and listings are as before, or are looked at anew.
LEMMA Together ==
    ASSUME HistoryNow', WindowsKnown', \A l \in Lookups : Sound(lookup[l])', \A p \in Providers : ListingSeen(p)'
    PROVE  CatalogInv'
  BY DEF CatalogInv

\* A scan's answer or failure is noted by the request that made it.
LEMMA NotedSound ==
    ASSUME NEW y, Sound(y), y.at = "scan", NEW got \in {"ids", "nothing"}, NEW ids,
           got = "ids" => ids \in Answers /\ listedAgo'[y.prov][ids] = 0,
           got = "nothing" => listedAgo'[y.prov][{}] = 0,
           \A q \in Providers : keptAgo'[q] = keptAgo[q],
           NEW x, x = [at |-> "scan", ask |-> y.ask, conf |-> y.conf, prov |-> y.prov, want |-> y.want, mode |-> y.mode,
                       under |-> y.under, age |-> y.age, got |-> got, ids |-> ids]
    PROVE  /\ UnderWay(x)
           /\ x.prov \in Providers
           /\ \A q \in Providers : x.conf[q] \in Configs[q] /\ keptAgo'[q][x.conf[q].keep] = 0
           /\ Looks(x)
           /\ x.got = "ids" => x.ids \in Answers /\ listedAgo'[x.prov][x.ids] <= x.age
           /\ x.got = "nothing" => listedAgo'[x.prov][{}] <= x.age
           /\ AsAsked(x)
  <1>1. Holds(y) /\ Looks(y) /\ Answered(y) /\ AsAsked(y)  BY DEF Sound, UnderWay
  <1>2. /\ x.at = "scan" /\ x.ask = y.ask /\ x.conf = y.conf /\ x.prov = y.prov /\ x.want = y.want
        /\ x.mode = y.mode /\ x.under = y.under /\ x.age = y.age /\ x.got = got /\ x.ids = ids
    OBVIOUS
  <1>3. Looks(x)  BY <1>1, <1>2 DEF Looks
  <1>4. AsAsked(x)  BY <1>1, <1>2 DEF AsAsked
  <1>5. y.age \in Nat  BY <1>1 DEF Looks
  <1>6. x.prov \in Providers /\ \A q \in Providers : x.conf[q] \in Configs[q] /\ keptAgo'[q][x.conf[q].keep] = 0
    BY <1>1, <1>2 DEF Holds
  <1> QED  BY <1>2, <1>3, <1>4, <1>5, <1>6 DEF UnderWay

\* The upstream answers what it serves now, and what it declares is learned.
LEMMA AnswerSound ==
    ASSUME CatalogInv, NEW l \in Lookups, ScanAnswers(l) PROVE CatalogInv'
  <1> DEFINE y == lookup[l]
             p == y.prov
             x == [y EXCEPT !.got = "ids", !.ids = serves[p]]
             known == learned[p]
             now == [id \in Ids |-> IF id \in serves[p] THEN Heard(known[id], Declares[p][id]) ELSE known[id]]
  <1>1. HistoryNow /\ WindowsKnown /\ Sound(y) /\ y.at = "scan" /\ serves[p] # None
    BY DEF CatalogInv, ScanAnswers
  <1>2. UNCHANGED <<provs, serves, listing, rules, listedAgo, keptAgo>>  BY DEF ScanAnswers
  <1>3. lookup' = [lookup EXCEPT ![l] = x] /\ learned' = [learned EXCEPT ![p] = now]
    <2>1. lookup' = [lookup EXCEPT ![l].got = "ids", ![l].ids = serves[p]]  BY DEF ScanAnswers
    <2> QED  BY <1>1, <2>1 DEF HistoryNow, ScanAnswers
  <1>4. Holds(y) /\ Looks(y)  BY <1>1 DEF Sound, UnderWay
  <1>5. p \in Providers  BY <1>4 DEF Holds
  <1>6. x = [at |-> "scan", ask |-> y.ask, conf |-> y.conf, prov |-> y.prov, want |-> y.want, mode |-> y.mode,
             under |-> y.under, age |-> y.age, got |-> "ids", ids |-> serves[p]]
    <2> HIDE DEF y
    <2> DEFINE u == [y EXCEPT !.got = "ids"]
    <2>a. u = [at |-> y.at, ask |-> y.ask, conf |-> y.conf, prov |-> y.prov, want |-> y.want, mode |-> y.mode,
               under |-> y.under, age |-> y.age, got |-> "ids", ids |-> y.ids]
      BY <1>4 DEF Looks
    <2>b. x = [u EXCEPT !.ids = serves[p]]  OBVIOUS
    <2> HIDE DEF u, x
    <2> QED  BY <1>1, <2>a, <2>b
  <1>7. serves[p] \in Answers /\ listedAgo[p][serves[p]] = 0
    <2>1. serves[p] \in Catalogues /\ Offered(serves[p]) = serves[p] /\ listedAgo[p][Offered(serves[p])] = 0
      BY <1>1, <1>5 DEF HistoryNow, Offered
    <2> QED  BY <2>1 DEF Answers
  <1>8. HistoryNow'  BY <1>1, <1>2, <1>3 DEF HistoryNow
  <1>9. WindowsKnown'
    <2>1. ASSUME NEW id \in Ids PROVE now[id] \in [sight : {"none", "sees", "blind"}, window : Int]
      <3>1. known[id] \in [sight : {"none", "sees", "blind"}, window : Int]  BY <1>1, <1>5 DEF WindowsKnown
      <3>2. Declares[p][id].window \in Int /\ Declares[p][id].sight \in {"none", "sees", "blind"}
        BY <1>5, CatalogAssumption
      <3> HIDE DEF known, p
      <3>3. Heard(known[id], Declares[p][id]) \in [sight : {"none", "sees", "blind"}, window : Int]
        BY <3>1, <3>2 DEF Heard
      <3> QED  BY <3>1, <3>3
    <2> HIDE DEF known, p
    <2>2. now \in [Ids -> [sight : {"none", "sees", "blind"}, window : Int]]  BY <2>1
    <2> HIDE DEF now
    <2> QED  BY <1>1, <1>2, <1>3, <2>2 DEF WindowsKnown
  <1>10. listedAgo' = listedAgo /\ keptAgo' = keptAgo  BY <1>2
  <1> HIDE DEF x
  <1>11. Sound(lookup[l])'
    <2>1. /\ UnderWay(x) /\ x.prov \in Providers
          /\ \A q \in Providers : x.conf[q] \in Configs[q] /\ keptAgo'[q][x.conf[q].keep] = 0
          /\ Looks(x)
          /\ x.got = "ids" => x.ids \in Answers /\ listedAgo'[x.prov][x.ids] <= x.age
          /\ x.got = "nothing" => listedAgo'[x.prov][{}] <= x.age
          /\ AsAsked(x)
      <3> HIDE DEF y
      <3>1. /\ listedAgo'[y.prov][serves[p]] = 0 /\ serves[p] \in Answers
            /\ \A q \in Providers : keptAgo'[q] = keptAgo[q]
        BY <1>7, <1>10
      <3> QED  BY <1>1, <1>6, <3>1, NotedSound
    <2>2. lookup'[l] = x  BY <1>1, <1>3 DEF HistoryNow
    <2> QED  BY <2>1, <2>2 DEF Sound, Holds, Answered, Looks, AsAsked, UnderWay, NameSees, Target
  <1>12. ASSUME NEW m \in Lookups PROVE Sound(lookup[m])'
    <2>1. CASE m = l
      <3> QED  BY <1>11, <2>1, Zenon
    <2>2. CASE m # l
      <3>1. lookup'[m] = lookup[m]  BY <1>1, <1>3, <2>2 DEF HistoryNow
      <3>2. Sound(lookup[m])  BY DEF CatalogInv
      <3> QED  BY <1>10, <3>1, <3>2 DEF Sound, Holds, Answered, Looks, AsAsked, UnderWay, NameSees, Target
    <2> QED  BY <2>1, <2>2
  <1>13. \A q \in Providers : ListingSeen(q)'
    BY <1>2 DEF CatalogInv, ListingSeen, MadeOf
  <1> QED  BY <1>8, <1>9, <1>12, <1>13, Together

\* What changes is noted in the histories at once, and makes nothing older.
LEMMA NotedNow ==
    ASSUME CatalogInv, NEW p \in Providers, NEW ids \in Answers,
           listedAgo' = [listedAgo EXCEPT ![p][ids] = 0]
    PROVE  /\ listedAgo' \in [Providers -> [Answers -> Nat]] /\ listedAgo'[p][ids] = 0
           /\ \A q \in Providers : \A i \in Answers : listedAgo'[q][i] <= listedAgo[q][i]
           /\ \A q \in Providers : \A i \in Answers : listedAgo[q][i] = 0 => listedAgo'[q][i] = 0
  BY DEF CatalogInv, HistoryNow

\* A scan that failed is an answer of nothing.
LEMMA FailureSound ==
    ASSUME CatalogInv, NEW l \in Lookups, ScanFails(l) PROVE CatalogInv'
  <1> DEFINE y == lookup[l]
             p == y.prov
             x == [y EXCEPT !.got = "nothing"]
  <1>1. HistoryNow /\ WindowsKnown /\ Sound(y) /\ y.at = "scan"  BY DEF CatalogInv, ScanFails
  <1>2. UNCHANGED <<provs, serves, listing, rules, learned, keptAgo>> /\ listedAgo' = [listedAgo EXCEPT ![p][{}] = 0]
    BY DEF ScanFails
  <1>3. lookup' = [lookup EXCEPT ![l] = x]  BY <1>1 DEF ScanFails, HistoryNow
  <1>4. Holds(y) /\ Looks(y) /\ p \in Providers /\ {} \in Answers
    BY <1>1, CatalogNumbers DEF Sound, UnderWay, Holds
  <1>5. x = [at |-> "scan", ask |-> y.ask, conf |-> y.conf, prov |-> y.prov, want |-> y.want, mode |-> y.mode,
             under |-> y.under, age |-> y.age, got |-> "nothing", ids |-> y.ids]
    <2> HIDE DEF y
    <2> QED  BY <1>1, <1>4 DEF Looks
  <1>6. /\ listedAgo' \in [Providers -> [Answers -> Nat]] /\ listedAgo'[p][{}] = 0
        /\ \A q \in Providers : \A i \in Answers : listedAgo'[q][i] <= listedAgo[q][i]
        /\ \A q \in Providers : \A i \in Answers : listedAgo[q][i] = 0 => listedAgo'[q][i] = 0
    <2> HIDE DEF p
    <2> QED  BY <1>2, <1>4, NotedNow
  <1>7. HistoryNow'
    <2>1. \A q \in Providers : listedAgo'[q][Offered(serves'[q])] = 0
      <3> SUFFICES ASSUME NEW q \in Providers PROVE listedAgo'[q][Offered(serves[q])] = 0  BY <1>2
      <3>1. Offered(serves[q]) \in Answers /\ listedAgo[q][Offered(serves[q])] = 0
        BY <1>1, CatalogNumbers DEF HistoryNow
      <3> QED  BY <1>6, <3>1
    <2> QED  BY <1>1, <1>2, <1>3, <1>6, <2>1 DEF HistoryNow
  <1>8. WindowsKnown'  BY <1>1, <1>2 DEF WindowsKnown
  <1>9. /\ \A m \in Lookups : lookup'[m] = lookup[m] => Sound(lookup[m])'
        /\ \A q \in Providers : listing'[q] = listing[q] => ListingSeen(q)'
    <2>1. /\ \A q \in Providers : keptAgo'[q] \in [Filters(q) -> Nat]
          /\ \A q \in Providers : \A k \in Filters(q) : keptAgo'[q][k] <= keptAgo[q][k]
      BY <1>1, <1>2 DEF HistoryNow
    <2> QED  BY <1>6, <2>1, Younger
  <1> HIDE DEF x
  <1>10. Sound(lookup[l])'
    <2>1. /\ UnderWay(x) /\ x.prov \in Providers
          /\ \A q \in Providers : x.conf[q] \in Configs[q] /\ keptAgo'[q][x.conf[q].keep] = 0
          /\ Looks(x)
          /\ x.got = "ids" => x.ids \in Answers /\ listedAgo'[x.prov][x.ids] <= x.age
          /\ x.got = "nothing" => listedAgo'[x.prov][{}] <= x.age
          /\ AsAsked(x)
      <3>1. \A q \in Providers : keptAgo'[q] = keptAgo[q]  BY <1>2
      <3>2. listedAgo'[y.prov][{}] = 0  BY <1>6
      <3> HIDE DEF y
      <3> QED  BY <1>1, <1>5, <3>1, <3>2, NotedSound
    <2>2. lookup'[l] = x  BY <1>1, <1>3 DEF HistoryNow
    <2> QED  BY <2>1, <2>2 DEF Sound, Holds, Answered, Looks, AsAsked, UnderWay, NameSees, Target
  <1>11. ASSUME NEW m \in Lookups PROVE Sound(lookup[m])'
    <2>1. CASE m = l
      <3> QED  BY <1>10, <2>1
    <2>2. CASE m # l
      <3>1. lookup'[m] = lookup[m]  BY <1>1, <1>3, <2>2 DEF HistoryNow
      <3> QED  BY <1>9, <3>1
    <2> QED  BY <2>1, <2>2
  <1>12. \A q \in Providers : ListingSeen(q)'  BY <1>2, <1>9
  <1> QED  BY <1>7, <1>8, <1>11, <1>12, Together

\* What is stored was answered during the scan, through a filter still had.
LEMMA StoreSound ==
    ASSUME CatalogInv, NEW l \in Lookups, StoreScan(l) PROVE CatalogInv'
  <1> DEFINE y == lookup[l]
             p == y.prov
             models == Scanned(l)
             x == Decided(y, models)
             r == [models |-> models, age |-> 0]
  <1>1. HistoryNow /\ WindowsKnown /\ Sound(y) /\ y.at = "scan" /\ y.got # "pending"
    BY DEF CatalogInv, StoreScan
  <1>2. UNCHANGED <<provs, serves, rules, learned, listedAgo, keptAgo>>  BY DEF StoreScan
  <1>3. listing' = [listing EXCEPT ![p] = r] /\ lookup' = [lookup EXCEPT ![l] = x]
    BY <1>1 DEF StoreScan, Kept, HistoryNow
  <1>4. Holds(y) /\ Looks(y) /\ Answered(y)  BY <1>1 DEF Sound, UnderWay
  <1>5. Sound(x)  BY <1>1, MovesOn
  <1>6. MadeOf(p, models, 0)
    <2> DEFINE k == y.conf[p].keep
    <2>1. p \in Providers /\ y.conf[p] \in Configs[p] /\ keptAgo[p][k] = 0 /\ y.age \in Nat /\ y.age <= Timeout
      BY <1>4 DEF Holds, Looks
    <2>2. k \in Filters(p)  BY <2>1 DEF Filters
    <2>3. Timeout + 0 = Timeout  BY CatalogNumbers
    <2>4. CASE y.got = "ids"
      <3>1. y.ids \in Answers /\ listedAgo[p][y.ids] <= y.age  BY <1>4, <2>4 DEF Answered
      <3>2. models = Filtered(y.ids, k)  BY <2>4 DEF Scanned
      <3>3. listedAgo[p][y.ids] \in Nat  BY <1>1, <2>1, <3>1 DEF HistoryNow
      <3>4. listedAgo[p][y.ids] <= Timeout + 0  BY <2>1, <2>3, <3>1, <3>3, CatalogNumbers
      <3> HIDE DEF y, models, k, p
      <3> QED  BY <2>1, <2>2, <3>1, <3>2, <3>4 DEF MadeOf
    <2>5. CASE y.got # "ids"
      <3>1. listedAgo[p][{}] <= y.age /\ {} \in Answers
        BY <1>1, <1>4, <2>5, CatalogNumbers DEF Answered, Looks
      <3>2. models = Filtered({}, k)  BY <2>5 DEF Scanned, Filtered
      <3>3. listedAgo[p][{}] \in Nat  BY <1>1, <2>1, <3>1 DEF HistoryNow
      <3>4. listedAgo[p][{}] <= Timeout + 0  BY <2>1, <2>3, <3>1, <3>3, CatalogNumbers
      <3> HIDE DEF y, models, k, p
      <3> QED  BY <2>1, <2>2, <3>1, <3>2, <3>4 DEF MadeOf
    <2> QED  BY <2>4, <2>5
  <1>7. HistoryNow'  BY <1>1, <1>2, <1>3 DEF HistoryNow
  <1>8. WindowsKnown'  BY <1>1, <1>2 DEF WindowsKnown
  <1>9. p \in Providers  BY <1>4, SMTT(60) DEF Holds
  <1> HIDE DEF x, models
  <1>10. ASSUME NEW m \in Lookups PROVE Sound(lookup[m])'
    <2>1. lookup'[m] = x \/ lookup'[m] = lookup[m]  BY <1>1, <1>3 DEF HistoryNow
    <2>2. Sound(lookup[m])  BY DEF CatalogInv
    <2> HIDE DEF y
    <2> QED  BY <1>2, <1>5, <2>1, <2>2 DEF Sound, Holds, Answered, Looks, AsAsked, UnderWay, NameSees, Target
  <1>11. ASSUME NEW q \in Providers PROVE ListingSeen(q)'
    <2>1. CASE q = p
      <3>1. listing'[q] = r  BY <1>1, <1>3, <1>9, <2>1 DEF HistoryNow
      <3>2. r = [models |-> r.models, age |-> r.age] /\ r.age \in Nat /\ r.models = models /\ r.age = 0  OBVIOUS
      <3> HIDE DEF r, p
      <3>3. MadeOf(q, r.models, r.age)  BY <1>6, <2>1, <3>2
      <3> QED  BY <1>2, <3>1, <3>2, <3>3 DEF ListingSeen, MadeOf
    <2>2. CASE q # p
      <3>1. listing'[q] = listing[q]  BY <1>1, <1>3, <2>2 DEF HistoryNow
      <3>2. ListingSeen(q)  BY DEF CatalogInv
      <3> QED  BY <1>2, <3>1, <3>2 DEF ListingSeen, MadeOf
    <2> QED  BY <2>1, <2>2
  <1> QED  BY <1>7, <1>8, <1>10, <1>11, Together

\* A tick: what is offered and had stays new, the rest is a tick older, and so
\* are the scans and the listings.
LEMMA TickSound ==
    ASSUME CatalogInv, Tick PROVE CatalogInv'
  <1>1. HistoryNow /\ WindowsKnown  BY DEF CatalogInv
  <1>2. UNCHANGED <<provs, serves, rules, learned>>  BY DEF Tick
  <1>3. /\ \A p \in Providers, ids \in Answers :
              /\ listedAgo'[p][ids] = Since(ids = Offered(serves[p]), listedAgo[p][ids])
              /\ listedAgo'[p][ids] \in Nat
        /\ \A p \in Providers : \A k \in Filters(p) :
              /\ keptAgo'[p][k] = Since(k \in InHand(p), keptAgo[p][k])
              /\ keptAgo'[p][k] \in Nat
    <2>1. /\ \A p \in Providers, ids \in Answers :
                listedAgo'[p][ids] = Since(ids = Offered(serves[p]), listedAgo[p][ids])
          /\ \A p \in Providers : \A k \in Filters(p) :
                keptAgo'[p][k] = Since(k \in InHand(p), keptAgo[p][k])
      BY DEF Tick
    <2>2. ASSUME NEW now, NEW ago \in Nat PROVE Since(now, ago) \in Nat  BY CatalogNumbers DEF Since
    <2>3. /\ \A p \in Providers, ids \in Answers : listedAgo[p][ids] \in Nat
          /\ \A p \in Providers : \A k \in Filters(p) : keptAgo[p][k] \in Nat
      BY <1>1 DEF HistoryNow
    <2> QED  BY <2>1, <2>2, <2>3
  <1>4. /\ listedAgo' \in [Providers -> [Answers -> Nat]]
        /\ DOMAIN keptAgo' = Providers
        /\ \A p \in Providers : keptAgo'[p] \in [Filters(p) -> Nat]
    <2>1. /\ listedAgo' = [p \in Providers |->
                  [ids \in Answers |-> Since(ids = Offered(serves[p]), listedAgo[p][ids])]]
          /\ keptAgo' = [p \in Providers |-> [k \in Filters(p) |-> Since(k \in InHand(p), keptAgo[p][k])]]
      BY DEF Tick
    <2>2. ASSUME NEW p \in Providers PROVE listedAgo'[p] \in [Answers -> Nat]  BY <1>3, <2>1
    <2>3. ASSUME NEW p \in Providers PROVE keptAgo'[p] \in [Filters(p) -> Nat]  BY <1>3, <2>1
    <2>4. DOMAIN listedAgo' = Providers /\ DOMAIN keptAgo' = Providers
          /\ listedAgo' = [p \in Providers |-> listedAgo'[p]]
      BY <2>1
    <2> QED  BY <2>2, <2>3, <2>4
  <1>5. ASSUME NEW p \in Providers, NEW ids \in Answers, NEW a \in Nat, listedAgo[p][ids] <= a, a < Window
        PROVE  listedAgo'[p][ids] <= a + 1
    <2>1. listedAgo[p][ids] \in Nat  BY <1>1 DEF HistoryNow
    <2>2. (ids = Offered(serves[p])) \in BOOLEAN /\ a <= Window  BY <1>5, CatalogNumbers
    <2>3. Since(ids = Offered(serves[p]), listedAgo[p][ids]) <= a + 1
      BY <1>5, <2>1, <2>2, SinceGrows
    <2> QED  BY <1>3, <2>3
  <1>6. ASSUME NEW p \in Providers, NEW k \in Filters(p), NEW a \in Nat, keptAgo[p][k] <= a, a < Window
        PROVE  keptAgo'[p][k] <= a + 1
    <2>1. keptAgo[p][k] \in Nat  BY <1>1 DEF HistoryNow
    <2>2. (k \in InHand(p)) \in BOOLEAN /\ a <= Window  BY <1>6, CatalogNumbers
    <2>3. Since(k \in InHand(p), keptAgo[p][k]) <= a + 1  BY <1>6, <2>1, <2>2, SinceGrows
    <2> QED  BY <1>3, <2>3
  <1>7. HistoryNow'
    <2>1. ASSUME NEW p \in Providers PROVE listedAgo'[p][Offered(serves'[p])] = 0
      <3>1. Offered(serves[p]) \in Answers  BY <1>1, CatalogNumbers DEF HistoryNow
      <3> QED  BY <1>2, <1>3, <3>1 DEF Since
    <2>2. ASSUME NEW p \in Providers PROVE keptAgo'[p][provs'[p].keep] = 0
      <3>1. provs[p].keep \in Filters(p) /\ provs[p].keep \in InHand(p)
        BY <1>1 DEF HistoryNow, Filters, InHand
      <3> QED  BY <1>2, <1>3, <3>1 DEF Since
    <2>3. DOMAIN listing' = Providers /\ DOMAIN lookup' = Lookups  BY DEF Tick
    <2> QED  BY <1>1, <1>2, <1>4, <2>1, <2>2, <2>3 DEF HistoryNow
  <1>8. WindowsKnown'  BY <1>1, <1>2 DEF WindowsKnown
  <1>9. ASSUME NEW l \in Lookups PROVE Sound(lookup[l])'
    <2> DEFINE y == lookup[l]
               x == [y EXCEPT !.age = @ + 1]
    <2>1. y.at \notin {"look", "again"} /\ (y.at = "scan" => y.age < Timeout)
          /\ lookup'[l] = IF y.at = "scan" THEN x ELSE y
      BY DEF Tick
    <2>2. Sound(y)  BY DEF CatalogInv
    <2>3. ASSUME Holds(y), y.at \notin {"idle", "over"}
          PROVE  \A q \in Providers : y.conf[q] \in Configs[q] /\ keptAgo'[q][y.conf[q].keep] = 0
      <3> SUFFICES ASSUME NEW q \in Providers
                   PROVE  y.conf[q] \in Configs[q] /\ keptAgo'[q][y.conf[q].keep] = 0
          OBVIOUS
      <3>1. y.conf[q] \in Configs[q]  BY <2>3 DEF Holds
      <3>2. y.conf[q].keep \in Filters(q)  BY <3>1 DEF Filters
      <3>3. y.conf[q].keep \in InHand(q)  BY <2>3 DEF InHand
      <3> HIDE DEF y
      <3> QED  BY <1>3, <3>1, <3>2, <3>3 DEF Since
    <2>4. CASE y.at \in {"idle", "over"}
      <3>1. lookup'[l] = y  BY <2>1, <2>4
      <3> HIDE DEF y
      <3> QED  BY <2>4, <3>1 DEF Sound
    <2>5. CASE y.at \in {"done", "told"}
      <3>1. lookup'[l] = y /\ Holds(y)  BY <2>1, <2>2, <2>5 DEF Sound, UnderWay
      <3>2. \A q \in Providers : y.conf[q] \in Configs[q] /\ keptAgo'[q][y.conf[q].keep] = 0
        BY <2>3, <2>5, <3>1
      <3> HIDE DEF y
      <3> QED  BY <2>5, <3>1, <3>2 DEF Sound, Holds
    <2>6. CASE y.at = "scan"
      <3>1. Holds(y) /\ Looks(y) /\ Answered(y) /\ AsAsked(y) /\ lookup'[l] = x
        BY <2>1, <2>2, <2>6 DEF Sound, UnderWay
      <3>2. \A q \in Providers : y.conf[q] \in Configs[q] /\ keptAgo'[q][y.conf[q].keep] = 0
        BY <2>3, <2>6, <3>1
      <3>3. y.age \in Nat /\ y.age < Timeout /\ y.age < Window /\ y.age + 1 \in Nat /\ y.age + 1 <= Timeout
            /\ y.prov \in Providers /\ {} \in Answers
        <4>1. y.age \in Nat /\ y.age < Timeout /\ y.prov \in Providers
          BY <2>1, <2>6, <3>1 DEF Looks, Holds
        <4> HIDE DEF y
        <4> QED  BY <4>1, CatalogNumbers
      <3> HIDE DEF y
      <3>4. x = [at |-> y.at, ask |-> y.ask, conf |-> y.conf, prov |-> y.prov, want |-> y.want, mode |-> y.mode,
                 under |-> y.under, age |-> y.age + 1, got |-> y.got, ids |-> y.ids]
        BY <3>1 DEF Looks
      <3> HIDE DEF x
      <3>5. /\ x.at = y.at /\ x.ask = y.ask /\ x.conf = y.conf /\ x.prov = y.prov /\ x.want = y.want
            /\ x.mode = y.mode /\ x.under = y.under /\ x.age = y.age + 1 /\ x.got = y.got /\ x.ids = y.ids
        BY <3>4
      <3>6. Looks(x)  BY <2>6, <3>1, <3>3, <3>4, <3>5 DEF Looks
      <3>7. AsAsked(x)  BY <3>1, <3>5 DEF AsAsked
      <3>8. x.got = "ids" => x.ids \in Answers /\ listedAgo'[x.prov][x.ids] <= x.age
        <4> SUFFICES ASSUME y.got = "ids" PROVE y.ids \in Answers /\ listedAgo'[y.prov][y.ids] <= y.age + 1
            BY <3>5
        <4>1. y.ids \in Answers /\ listedAgo[y.prov][y.ids] <= y.age  BY <3>1 DEF Answered
        <4> QED  BY <1>5, <3>3, <4>1
      <3>9. x.got = "nothing" => listedAgo'[x.prov][{}] <= x.age
        <4> SUFFICES ASSUME y.got = "nothing" PROVE listedAgo'[y.prov][{}] <= y.age + 1
            BY <3>5
        <4>1. listedAgo[y.prov][{}] <= y.age  BY <3>1 DEF Answered
        <4> QED  BY <1>5, <3>3, <4>1
      <3>10. x.prov \in Providers /\ \A q \in Providers : x.conf[q] \in Configs[q] /\ keptAgo'[q][x.conf[q].keep] = 0
        BY <3>2, <3>3, <3>5
      <3>11. UnderWay(x) /\ lookup'[l] = x  BY <2>6, <3>1, <3>5 DEF UnderWay
      <3> QED  BY <3>6, <3>7, <3>8, <3>9, <3>10, <3>11
               DEF Sound, Holds, Answered, Looks, AsAsked, UnderWay, NameSees, Target
    <2>7. y.at \in {"idle", "over", "done", "told", "scan"}  BY <2>1, <2>2 DEF Sound, UnderWay
    <2> QED  BY <2>4, <2>5, <2>6, <2>7
  <1>10. ASSUME NEW p \in Providers PROVE ListingSeen(p)'
    <2> DEFINE r == listing[p]
               s == [r EXCEPT !.age = @ + 1]
    <2>1. listing'[p] = IF r = None \/ r.age = TTL THEN r ELSE s  BY DEF Tick
    <2>2. ListingSeen(p)  BY DEF CatalogInv
    <2>3. CASE r = None
      BY <2>1, <2>3 DEF ListingSeen
    <2>4. CASE r # None /\ r.age = TTL
      <3>1. r = [models |-> r.models, age |-> r.age] /\ r.age \in Nat  BY <2>2, <2>4 DEF ListingSeen
      <3>2. listing'[p] = r /\ ~(r.age < TTL)  BY <2>1, <2>4, CatalogNumbers
      <3> HIDE DEF r
      <3> QED  BY <2>4, <3>1, <3>2 DEF ListingSeen
    <2>5. CASE r # None /\ r.age # TTL
      <3>1. /\ r = [models |-> r.models, age |-> r.age] /\ r.age \in Nat
            /\ r.age < TTL => MadeOf(p, r.models, r.age)
        BY <2>2, <2>5 DEF ListingSeen
      <3>2. listing'[p] = s  BY <2>1, <2>5
      <3> HIDE DEF r
      <3>3. s = [models |-> r.models, age |-> r.age + 1]  BY <3>1
      <3> HIDE DEF s
      <3>4. s.models = r.models /\ s.age = r.age + 1 /\ s.age \in Nat /\ s = [models |-> s.models, age |-> s.age]
        BY <3>1, <3>3
      <3>5. ASSUME r.age + 1 < TTL
            PROVE  \E ids \in Answers, k \in Filters(p) :
                      /\ listedAgo'[p][ids] <= Timeout + (r.age + 1) /\ keptAgo'[p][k] <= r.age + 1
                      /\ r.models = Filtered(ids, k)
        <4>1. MadeOf(p, r.models, r.age)  BY <3>1, <3>5, CatalogNumbers
        <4>2. PICK ids \in Answers, k \in Filters(p) :
                 /\ listedAgo[p][ids] <= Timeout + r.age /\ keptAgo[p][k] <= r.age
                 /\ r.models = Filtered(ids, k)
          BY <4>1 DEF MadeOf
        <4>3. /\ Timeout + r.age \in Nat /\ Timeout + r.age < Window /\ r.age < Window
              /\ (Timeout + r.age) + 1 = Timeout + (r.age + 1)
          BY <3>1, <3>5, CatalogNumbers
        <4>4. listedAgo'[p][ids] <= (Timeout + r.age) + 1  BY <1>5, <4>2, <4>3
        <4>5. keptAgo'[p][k] <= r.age + 1  BY <1>6, <3>1, <4>2, <4>3
        <4> QED  BY <4>2, <4>3, <4>4, <4>5
      <3> QED  BY <3>2, <3>4, <3>5 DEF ListingSeen, MadeOf
    <2> QED  BY <2>3, <2>4, <2>5
  <1> QED  BY <1>7, <1>8, <1>9, <1>10, Together

\* A change at an upstream, or of a provider's settings, is noted at once.
LEMMA ChangeSound ==
    ASSUME CatalogInv, NEW p \in Providers,
           (\E ids \in Catalogues \union {None} : UpstreamChanges(p, ids))
           \/ \E conf \in Configs[p] : SaveProvider(p, conf)
    PROVE  CatalogInv'
  <1>1. HistoryNow /\ WindowsKnown  BY DEF CatalogInv
  <1>2. CASE \E ids \in Catalogues \union {None} : UpstreamChanges(p, ids)
    <2>1. PICK ids \in Catalogues \union {None} : UpstreamChanges(p, ids)  BY <1>2
    <2>2. /\ serves' = [serves EXCEPT ![p] = ids] /\ listedAgo' = [listedAgo EXCEPT ![p][Offered(ids)] = 0]
          /\ UNCHANGED <<provs, listing, learned, rules, lookup, keptAgo>>
      BY <2>1 DEF UpstreamChanges
    <2>3. Offered(ids) \in Answers  BY CatalogNumbers
    <2>4. /\ listedAgo' \in [Providers -> [Answers -> Nat]] /\ listedAgo'[p][Offered(ids)] = 0
          /\ \A q \in Providers : \A i \in Answers : listedAgo'[q][i] <= listedAgo[q][i]
          /\ \A q \in Providers : \A i \in Answers : listedAgo[q][i] = 0 => listedAgo'[q][i] = 0
      BY <2>2, <2>3, NotedNow
    <2>5. HistoryNow'
      <3>1. serves' \in [Providers -> Catalogues \union {None}]  BY <1>1, <2>2 DEF HistoryNow
      <3>2. ASSUME NEW q \in Providers PROVE listedAgo'[q][Offered(serves'[q])] = 0
        <4>1. CASE q = p
          <5>1. serves'[q] = ids  BY <1>1, <2>2, <4>1 DEF HistoryNow
          <5> QED  BY <2>4, <4>1, <5>1
        <4>2. CASE q # p
          <5>1. serves'[q] = serves[q]  BY <1>1, <2>2, <4>2 DEF HistoryNow
          <5>2. Offered(serves[q]) \in Answers /\ listedAgo[q][Offered(serves[q])] = 0
            BY <1>1, CatalogNumbers DEF HistoryNow
          <5> QED  BY <2>4, <5>1, <5>2
        <4> QED  BY <4>1, <4>2
      <3> QED  BY <1>1, <2>2, <2>4, <3>1, <3>2 DEF HistoryNow
    <2>6. WindowsKnown'  BY <1>1, <2>2 DEF WindowsKnown
    <2>7. /\ \A q \in Providers : keptAgo'[q] \in [Filters(q) -> Nat]
          /\ \A q \in Providers : \A k \in Filters(q) : keptAgo'[q][k] <= keptAgo[q][k]
      BY <1>1, <2>2 DEF HistoryNow
    <2>8. /\ \A l \in Lookups : Sound(lookup[l])'
          /\ \A q \in Providers : ListingSeen(q)'
      BY <2>2, <2>4, <2>7, Younger
    <2> QED  BY <2>5, <2>6, <2>8, Together
  <1>3. CASE \E conf \in Configs[p] : SaveProvider(p, conf)
    <2>1. PICK conf \in Configs[p] : SaveProvider(p, conf)  BY <1>3
    <2>2. /\ provs' = [provs EXCEPT ![p] = conf] /\ keptAgo' = [keptAgo EXCEPT ![p][conf.keep] = 0]
          /\ UNCHANGED <<serves, listing, learned, rules, lookup, listedAgo>>
      BY <2>1 DEF SaveProvider
    <2>3. conf.keep \in Filters(p) /\ DOMAIN keptAgo = Providers
          /\ \A q \in Providers : keptAgo[q] \in [Filters(q) -> Nat]
      BY <1>1 DEF Filters, HistoryNow
    <2>4. keptAgo'[p] = [keptAgo[p] EXCEPT ![conf.keep] = 0] /\ DOMAIN keptAgo' = Providers
          /\ \A q \in Providers \ {p} : keptAgo'[q] = keptAgo[q]
      BY <2>2, <2>3
    <2>5. /\ keptAgo'[p][conf.keep] = 0 /\ keptAgo'[p] \in [Filters(p) -> Nat]
          /\ \A k \in Filters(p) : keptAgo'[p][k] <= keptAgo[p][k]
      BY <2>3, <2>4
    <2>6. /\ \A q \in Providers : keptAgo'[q] \in [Filters(q) -> Nat]
          /\ \A q \in Providers : \A k \in Filters(q) : keptAgo'[q][k] <= keptAgo[q][k]
      <3>1. ASSUME NEW q \in Providers
            PROVE  keptAgo'[q] \in [Filters(q) -> Nat] /\ \A k \in Filters(q) : keptAgo'[q][k] <= keptAgo[q][k]
        <4>1. CASE q = p  BY <2>5, <4>1
        <4>2. CASE q # p
          <5>1. keptAgo'[q] = keptAgo[q]  BY <2>4, <4>2
          <5>2. keptAgo[q] \in [Filters(q) -> Nat] /\ \A k \in Filters(q) : keptAgo[q][k] \in Nat  BY <2>3
          <5> QED  BY <5>1, <5>2
        <4> QED  BY <4>1, <4>2
      <3> QED  BY <3>1
    <2>7. HistoryNow'
      <3>1. ASSUME NEW q \in Providers PROVE provs'[q] \in Configs[q] /\ keptAgo'[q][provs'[q].keep] = 0
        <4>1. CASE q = p  BY <1>1, <2>2, <2>5, <4>1 DEF HistoryNow
        <4>2. CASE q # p  BY <1>1, <2>2, <2>4, <4>2 DEF HistoryNow
        <4> QED  BY <4>1, <4>2
      <3> QED  BY <1>1, <2>2, <2>4, <2>6, <3>1 DEF HistoryNow
    <2>8. WindowsKnown'  BY <1>1, <2>2 DEF WindowsKnown
    <2>9. /\ listedAgo' \in [Providers -> [Answers -> Nat]]
          /\ \A q \in Providers : \A ids \in Answers : listedAgo'[q][ids] <= listedAgo[q][ids]
      BY <1>1, <2>2 DEF HistoryNow
    <2>10. /\ \A l \in Lookups : Sound(lookup[l])'
           /\ \A q \in Providers : ListingSeen(q)'
      BY <2>2, <2>6, <2>9, Younger
    <2> QED  BY <2>7, <2>8, <2>10, Together
  <1> QED  BY <1>2, <1>3

\* Every step keeps the listings and the requests among what was there.
LEMMA CatalogStep == CatalogInv /\ [CatalogNext]_catalogVars => CatalogInv'
  <1> SUFFICES ASSUME CatalogInv, [CatalogNext]_catalogVars PROVE CatalogInv'
      OBVIOUS
  <1>1. ASSUME UNCHANGED <<provs, serves, listing, learned, lookup, listedAgo, keptAgo>>, rules' \in Rules
        PROVE  CatalogInv'
    BY <1>1 DEF CatalogInv, HistoryNow, WindowsKnown, Sound, Holds, Answered, Looks, AsAsked, UnderWay,
                NameSees, Target, ListingSeen, MadeOf
  <1>2. ASSUME NEW r \in Rules, SaveRules(r) PROVE CatalogInv'
    BY <1>1, <1>2 DEF SaveRules
  <1>3. CASE UNCHANGED catalogVars
    <2>1. rules' \in Rules  BY <1>3 DEF catalogVars, CatalogInv, WindowsKnown
    <2> QED  BY <1>1, <1>3, <2>1 DEF catalogVars
  <1>4. CASE \E l \in Lookups : Consult(l) \/ StartScan(l) \/ ScanAnswers(l) \/ ScanFails(l) \/ StoreScan(l)
    BY <1>4, ConsultSound, AnswerSound, FailureSound, StoreSound
  <1>5. CASE \E l \in Lookups : AskSight(l) \/ LookAgain(l) \/ EndRequest(l)
    BY <1>5, SightSound
  <1> QED  BY <1>2, <1>3, <1>4, <1>5, BeginSound, TickSound, ChangeSound DEF CatalogNext

\* The invariant holds from the start.
LEMMA CatalogBegins == CatalogInit => CatalogInv
  <1> SUFFICES ASSUME CatalogInit PROVE CatalogInv  OBVIOUS
  <1>1. WindowsKnown  BY DEF CatalogInit, WindowsKnown
  <1>2. \A l \in Lookups : Sound(lookup[l])  BY DEF CatalogInit, Idle, Sound
  <1>3. \A p \in Providers : ListingSeen(p)  BY DEF CatalogInit, ListingSeen
  <1>4. HistoryNow
    <2>1. /\ \A p \in Providers : provs[p] \in Configs[p] /\ serves[p] = Ids
          /\ DOMAIN provs = Providers /\ DOMAIN listing = Providers /\ DOMAIN lookup = Lookups
      BY DEF CatalogInit
    <2>2. serves \in [Providers -> Catalogues \union {None}]  BY CatalogAssumption DEF CatalogInit
    <2>3. Never \in Nat  BY CatalogNumbers
    <2>4. listedAgo \in [Providers -> [Answers -> Nat]]  BY <2>3 DEF CatalogInit
    <2>5. DOMAIN keptAgo = Providers /\ \A p \in Providers : keptAgo[p] \in [Filters(p) -> Nat]
      BY <2>3 DEF CatalogInit
    <2>6. ASSUME NEW p \in Providers PROVE listedAgo[p][Offered(serves[p])] = 0
      <3>1. Offered(serves[p]) = Ids /\ Ids \in Answers
        BY <2>1, CatalogAssumption DEF Offered, Answers
      <3> QED  BY <3>1 DEF CatalogInit
    <2>7. ASSUME NEW p \in Providers PROVE keptAgo[p][provs[p].keep] = 0
      <3>1. provs[p].keep \in Filters(p)  BY <2>1 DEF Filters
      <3> QED  BY <3>1 DEF CatalogInit
    <2> QED  BY <2>1, <2>2, <2>4, <2>5, <2>6, <2>7 DEF HistoryNow
  <1> QED  BY <1>1, <1>2, <1>3, <1>4 DEF CatalogInv

\* A listing that is served was listed within its time to live and a scan's
\* timeout, whoever scanned and however late, through a filter the provider or
\* a running request then had (ModelsCached).
THEOREM ListingsFresh == CatalogSpec => []ListingFresh
  <1>1. CatalogInv => ListingFresh
    <2> SUFFICES ASSUME CatalogInv, NEW p \in Providers, Fresh(p)
                 PROVE  \E ids \in Answers, k \in Filters(p) :
                            /\ listedAgo[p][ids] <= Window /\ keptAgo[p][k] <= Window
                            /\ listing[p].models = Filtered(ids, k)
        BY DEF ListingFresh
    <2> DEFINE age == listing[p].age
    <2>1. age \in Nat /\ age < TTL /\ MadeOf(p, listing[p].models, age)
      BY DEF CatalogInv, ListingSeen, Fresh
    <2>2. PICK ids \in Answers, k \in Filters(p) :
             /\ listedAgo[p][ids] <= Timeout + age /\ keptAgo[p][k] <= age
             /\ listing[p].models = Filtered(ids, k)
      BY <2>1 DEF MadeOf
    <2>3. listedAgo[p][ids] \in Nat /\ keptAgo[p][k] \in Nat  BY DEF CatalogInv, HistoryNow
    <2> HIDE DEF age
    <2>4. listedAgo[p][ids] <= Window /\ keptAgo[p][k] <= Window  BY <2>1, <2>2, <2>3, CatalogNumbers
    <2> QED  BY <2>2, <2>4
  <1> QED  BY <1>1, CatalogBegins, CatalogStep, PTL DEF CatalogSpec


\* What a step does to one request: it is asked of the picture, or consults, or
\* has begun, or scans, or is over.
LEMMA OwnStep ==
    ASSUME CatalogInv, CatalogNext, NEW l \in Lookups, lookup'[l] # lookup[l]
    PROVE  \/ AskSight(l) \/ LookAgain(l) \/ Consult(l) \/ StoreScan(l)
           \/ lookup[l].at = "idle" /\ lookup'[l].at # "told"
           \/ lookup'[l].at \in {"scan", "over"}
  <1> DEFINE y == lookup[l]
  <1>1. Sound(y) /\ DOMAIN lookup = Lookups  BY DEF CatalogInv, HistoryNow
  <1>2. y.at = "scan" => Looks(y)  BY <1>1 DEF Sound, UnderWay
  <1>3. ASSUME NEW m \in Lookups, NEW x, lookup' = [lookup EXCEPT ![m] = x] PROVE m = l /\ lookup'[l] = x
    BY <1>1, <1>3
  <1>4. ASSUME NEW m \in Lookups, NEW wish \in Asks, BeginResolve(m, wish)
        PROVE  y.at = "idle" /\ lookup'[l].at # "told"
    <2> DEFINE conf == provs
               prov == Target(wish)[1]
               name == Target(wish)[2]
               aliased == {q \in Providers : conf[q].on /\ name \in conf[q].aliases}
               x == IF prov # 0 THEN
                        IF ~conf[prov].on THEN Over
                        ELSE IF name = "" THEN Done(conf, prov, conf[prov].default)
                        ELSE Consulting(wish, conf, prov, name, "named")
                    ELSE IF aliased # {} THEN
                        Done(conf, CHOOSE q \in aliased : \A r \in aliased : q <= r, name)
                    ELSE IF name \in {"", "default"} \/ First(conf) = None THEN Fallback(conf)
                    ELSE Consulting(wish, conf, First(conf), name, "any")
    <2>1. lookup[m].at = "idle" /\ lookup' = [lookup EXCEPT ![m] = x]  BY <1>4 DEF BeginResolve
    <2>2. x.at # "told"
      <3> HIDE DEF aliased, prov, name, conf
      <3> QED  BY DEF Over, Done, Consulting, Fallback
    <2> HIDE DEF x
    <2> QED  BY <1>3, <2>1, <2>2
  <1>5. ASSUME NEW m \in Lookups, Consult(m) \/ StartScan(m) \/ ScanAnswers(m) \/ ScanFails(m) \/ StoreScan(m)
        PROVE  Consult(l) \/ StoreScan(l) \/ lookup'[l].at = "scan"
    <2>1. m = l
      <3>1. m # l => lookup'[l] = lookup[l]
        BY <1>1, <1>5 DEF Consult, StartScan, ScanAnswers, ScanFails, StoreScan
      <3> QED  BY <3>1
    <2>2. CASE StartScan(l)
      <3>1. Looks(y) /\ lookup' = [lookup EXCEPT ![l] = [y EXCEPT !.at = "scan"]]
        BY <1>1, <2>2 DEF StartScan, Sound, UnderWay
      <3>2. [y EXCEPT !.at = "scan"].at = "scan"  BY <3>1 DEF Looks
      <3> HIDE DEF y
      <3> QED  BY <1>1, <3>1, <3>2
    <2>3. CASE ScanAnswers(l)
      <3> DEFINE u == [y EXCEPT !.got = "ids"]
                 x == [u EXCEPT !.ids = serves[y.prov]]
      <3>1. Looks(y) /\ y.at = "scan" /\ lookup' = [lookup EXCEPT ![l].got = "ids", ![l].ids = serves[y.prov]]
        BY <1>2, <2>3 DEF ScanAnswers
      <3>2. lookup'[l] = x  BY <1>1, <3>1
      <3> HIDE DEF y
      <3>3. u = [at |-> y.at, ask |-> y.ask, conf |-> y.conf, prov |-> y.prov, want |-> y.want, mode |-> y.mode,
                 under |-> y.under, age |-> y.age, got |-> "ids", ids |-> y.ids]
        BY <3>1 DEF Looks
      <3> HIDE DEF u
      <3>4. x.at = "scan"  BY <3>1, <3>3
      <3> QED  BY <3>2, <3>4
    <2>4. CASE ScanFails(l)
      <3> DEFINE x == [y EXCEPT !.got = "nothing"]
      <3>1. Looks(y) /\ y.at = "scan" /\ lookup' = [lookup EXCEPT ![l].got = "nothing"]
        BY <1>2, <2>4 DEF ScanFails
      <3>2. lookup'[l] = x  BY <1>1, <3>1
      <3> HIDE DEF y
      <3>3. x.at = "scan"  BY <3>1 DEF Looks
      <3> QED  BY <3>2, <3>3
    <2> QED  BY <1>5, <2>1, <2>2, <2>3, <2>4
  <1>6. ASSUME NEW m \in Lookups, AskSight(m) \/ LookAgain(m) \/ EndRequest(m)
        PROVE  AskSight(l) \/ LookAgain(l) \/ lookup'[l].at = "over"
    <2>1. m = l
      <3>1. m # l => lookup'[l] = lookup[l]  BY <1>1, <1>6 DEF AskSight, LookAgain, EndRequest
      <3> QED  BY <3>1
    <2>2. CASE EndRequest(l)
      <3>1. lookup'[l] = Over  BY <1>1, <2>2 DEF EndRequest
      <3> QED  BY <3>1 DEF Over
    <2> QED  BY <1>6, <2>1, <2>2
  <1>7. CASE Tick
    <2> DEFINE x == [y EXCEPT !.age = @ + 1]
    <2>1. lookup'[l] = IF y.at = "scan" THEN x ELSE y  BY <1>7 DEF Tick
    <2>2. Looks(y) /\ y.at = "scan" /\ lookup'[l] = x  BY <1>2, <2>1
    <2> HIDE DEF y
    <2>3. x.at = "scan"  BY <2>2 DEF Looks
    <2> QED  BY <2>2, <2>3
  <1>8. lookup' # lookup  OBVIOUS
  <1> QED  BY <1>4, <1>5, <1>6, <1>7, <1>8 DEF CatalogNext, UpstreamChanges, SaveProvider, SaveRules

\* A request that consulted is not told of a picture, and has its model only
\* when it looked for one, with the settings it began with.
LEMMA DecidedWhere ==
    ASSUME NEW look, NEW models, look.mode # "sight" /\ Target(look.ask)[1] # 0 => look.mode = "named"
    PROVE  /\ Decided(look, models).at # "told"
           /\ Decided(look, models).at = "done" => look.mode # "sight"
           /\ Decided(look, models).at = "done" /\ look.mode = "named" =>
                 /\ Decided(look, models).prov = look.prov /\ Decided(look, models).conf = look.conf
                 /\ look.want \in models \/ models = {} => Decided(look, models).model = look.want
  <1> DEFINE d == Decided(look, models)
             m == FuzzyModel(models, look.want)
  <1>1. CASE look.mode = "sight"
    <2> DEFINE u == [Consulting(look.ask, look.conf, look.prov, look.want, "sight") EXCEPT !.at = "again"]
    <2>1. u = [at |-> "again", ask |-> look.ask, conf |-> look.conf, prov |-> look.prov, want |-> look.want,
               mode |-> "sight", under |-> rules, age |-> 0, got |-> "pending", ids |-> {}]
      BY DEF Consulting
    <2>2. d = [u EXCEPT !.under = look.under]  BY <1>1 DEF Decided
    <2> HIDE DEF u
    <2>3. d.at = "again"  BY <2>1, <2>2
    <2> HIDE DEF d
    <2> QED  BY <2>3 DEF d
  <1>2. CASE look.mode # "sight" /\ look.mode # "named"
    <2>1. d.at \in {"done", "over", "look"}  BY <1>2 DEF Decided, Done, Over, Fallback, Consulting
    <2> HIDE DEF d
    <2> QED  BY <1>2, <2>1 DEF d
  <1>3. CASE look.mode = "named"
    <2>1. \/ m # None /\ d = Done(look.conf, look.prov, m)
          \/ m = None /\ d = Done(look.conf, look.prov, look.want)
          \/ d = Over
      BY <1>3 DEF Decided
    <2>2. look.want \in models => m = look.want  BY DEF FuzzyModel
    <2>3. models = {} => m = None
      <3> SUFFICES ASSUME models = {} PROVE m = None
          OBVIOUS
      <3>1. Only({}) = None  BY FS_EmptySet DEF Only
      <3>2. look.want \notin models /\ models \cap Folds[look.want] = {}
            /\ models \cap Within[look.want] = {} /\ models \cap Blind[look.want] = {}
        OBVIOUS
      <3> QED  BY <3>1, <3>2 DEF FuzzyModel
    <2> HIDE DEF m, d
    <2>4. ASSUME NEW e, d = Done(look.conf, look.prov, e)
          PROVE  d.at = "done" /\ d.prov = look.prov /\ d.conf = look.conf /\ d.model = e
      BY <2>4 DEF Done
    <2>5. \/ d.at = "done" /\ d.prov = look.prov /\ d.conf = look.conf /\ d.model = m /\ m # None
          \/ d.at = "done" /\ d.prov = look.prov /\ d.conf = look.conf /\ d.model = look.want
          \/ d.at = "over"
      <3>1. d = Over => d.at = "over"  BY DEF Over
      <3> QED  BY <2>1, <2>4, <3>1
    <2>6. d.at # "told"  BY <2>5
    <2>7. d.at = "done" => d.prov = look.prov /\ d.conf = look.conf  BY <2>5
    <2>8. d.at = "done" => (look.want \in models \/ models = {} => d.model = look.want)
      BY <2>2, <2>3, <2>5
    <2> QED  BY <1>3, <2>6, <2>7, <2>8 DEF d
  <1> QED  BY <1>1, <1>2, <1>3

\* A share lets pass what it lists.
LEMMA SharesPass ==
    ASSUME NEW L, NEW share, NEW wish, wish \in ShareLists(L, share) PROVE ModelAllowed(share, wish)
  BY DEF ShareLists, ModelAllowed

\* A window is a number, and depends on a provider's settings through the
\* operator's window alone.
LEMMA WindowIsOne ==
    ASSUME CatalogInv, NEW conf, NEW p \in Providers, conf[p] \in Configs[p], NEW id
    PROVE  /\ LengthFor(conf, p, id) \in Int
           /\ \A other : other[p].window = conf[p].window => LengthFor(other, p, id) = LengthFor(conf, p, id)
  <1>1. conf[p].window \in Int  BY CatalogAssumption
  <1>2. Word(p, id).window \in Int
    <2>1. id \in Ids => learned[p][id].window \in Int  BY DEF CatalogInv, WindowsKnown
    <2> QED  BY <2>1 DEF Word
  <1>3. id \in Ids => Published[id] \in Int  BY CatalogAssumption
  <1>4. rules.window \in Int  BY CatalogAssumption DEF CatalogInv, WindowsKnown
  <1>5. LengthFor(conf, p, id) \in Int  BY <1>1, <1>2, <1>3, <1>4 DEF LengthFor
  <1>6. ASSUME NEW other, other[p].window = conf[p].window
        PROVE  LengthFor(other, p, id) = LengthFor(conf, p, id)
    BY <1>6 DEF LengthFor
  <1> QED  BY <1>5, <1>6

\* A share's cap does not raise a window that is known.
LEMMA CapLowers ==
    ASSUME CatalogInv, NEW p \in Providers, NEW id, NEW cap \in Int, LengthFor(provs, p, id) > 0
    PROVE  LimitFor(cap, provs, p, id) <= LengthFor(provs, p, id)
  <1> DEFINE known == LengthFor(provs, p, id)
  <1>1. known \in Int /\ known > 0  BY WindowIsOne DEF CatalogInv, HistoryNow
  <1>2. LimitFor(cap, provs, p, id) = IF cap <= 0 THEN known ELSE IF known <= 0 \/ cap < known THEN cap ELSE known
    BY DEF LimitFor
  <1> HIDE DEF known
  <1>3. LimitFor(cap, provs, p, id) <= known  BY <1>1, <1>2
  <1> QED  BY <1>3 DEF known

\* What the gate says of a picture is what is advertised then.
LEMMA GateHonest ==
    ASSUME CatalogInv, CatalogNext, NEW l \in Lookups PROVE GateAsAdvertised(l)
  <1> DEFINE x == lookup'[l]
             y == lookup[l]
             word == Advertised(rules, <<x.prov, x.model>>)
  <1> SUFFICES ASSUME x.at = "told", x # y, ~rules.off, word # "none", y.at = "again" => y.under = rules
               PROVE  x.sees <=> word = "sees"
      BY DEF GateAsAdvertised
  <1>1. Sound(y) /\ DOMAIN lookup = Lookups  BY DEF CatalogInv, HistoryNow
  <1>2. ASSUME Consult(l) \/ StoreScan(l) PROVE FALSE
    <2>1. y.at \in {"look", "scan"} /\ \E models : x = Decided(y, models)
      BY <1>1, <1>2 DEF Consult, StoreScan
    <2>2. AsAsked(y)  BY <1>1, <2>1 DEF Sound, UnderWay
    <2> HIDE DEF x, y
    <2>3. PICK models : x = Decided(y, models)  BY <2>1
    <2>4. Decided(y, models).at # "told"  BY <2>2, DecidedWhere DEF AsAsked
    <2> QED  BY <2>3, <2>4
  <1>3. AskSight(l) \/ LookAgain(l)  BY <1>2, OwnStep
  <1>4. ASSUME NEW p \in Providers, NEW id
        PROVE  Advertised(rules, <<p, id>>) =
                  IF Word(p, id).sight # "none" THEN Word(p, id).sight
                  ELSE IF id \in rules.exclude THEN "blind"
                  ELSE IF NameSees(rules, id) THEN "sees" ELSE "none"
    BY CatalogNumbers DEF Advertised, Target
  <1>5. CASE AskSight(l)
    <2> DEFINE unsaid == Word(y.prov, y.model).sight = "none" /\ ~NameSees(rules, y.model)
    <2>1. y.at \in {"done", "told"}
          /\ x = IF unsaid THEN Consulting(None, y.conf, y.prov, y.model, "sight")
                 ELSE Told(y, y.model, CapableFor(rules, y.prov, y.model))
      BY <1>1, <1>5 DEF AskSight
    <2>2. y.prov \in Providers  BY <1>1, <2>1 DEF Sound, Holds, UnderWay
    <2>3. x = Told(y, y.model, CapableFor(rules, y.prov, y.model))
      <3>1. Consulting(None, y.conf, y.prov, y.model, "sight").at = "look"  BY DEF Consulting
      <3> QED  BY <2>1, <3>1
    <2>4. x.prov = y.prov /\ x.model = y.model /\ x.sees = CapableFor(rules, y.prov, y.model)
      BY <2>3 DEF Told
    <2>5. CapableFor(rules, y.prov, y.model) <=>
             IF Word(y.prov, y.model).sight # "none" THEN Word(y.prov, y.model).sight = "sees"
             ELSE NameSees(rules, y.model)
      BY DEF CapableFor
    <2>6. NameSees(rules, y.model) => y.model \notin rules.exclude  BY DEF NameSees
    <2>7. word = IF Word(y.prov, y.model).sight # "none" THEN Word(y.prov, y.model).sight
                 ELSE IF y.model \in rules.exclude THEN "blind"
                 ELSE IF NameSees(rules, y.model) THEN "sees" ELSE "none"
      BY <1>4, <2>2, <2>4
    <2> HIDE DEF x, y, word
    <2> QED  BY <2>4, <2>5, <2>6, <2>7
  <1>6. CASE LookAgain(l)
    <2>1. y.at = "again" /\ x = Told(y, y.want, Word(y.prov, y.want).sight = "sees")
      BY <1>1, <1>6 DEF LookAgain
    <2>2. y.prov \in Providers /\ ~NameSees(y.under, y.want)
      BY <1>1, <2>1 DEF Sound, Holds, UnderWay, AsAsked
    <2>3. x.prov = y.prov /\ x.model = y.want /\ x.sees = (Word(y.prov, y.want).sight = "sees")
      BY <2>1 DEF Told
    <2>4. ~NameSees(rules, y.want)  BY <2>1, <2>2
    <2>5. word = IF Word(y.prov, y.want).sight # "none" THEN Word(y.prov, y.want).sight
                 ELSE IF y.want \in rules.exclude THEN "blind"
                 ELSE IF NameSees(rules, y.want) THEN "sees" ELSE "none"
      BY <1>4, <2>2, <2>3
    <2> HIDE DEF x, y
    <2>6. word # "none"  OBVIOUS
    <2> HIDE DEF word
    <2> QED  BY <2>3, <2>4, <2>5, <2>6
  <1> QED  BY <1>3, <1>5, <1>6

\* A name that is looked up leads to what it is listed for.
LEMMA RouteHonest ==
    ASSUME CatalogInv, CatalogNext, NEW l \in Lookups PROVE RoutedAsListed(l)
  <1> DEFINE x == lookup'[l]
             y == lookup[l]
             wish == y.ask
             t == Target(wish)
             L == [p \in Providers |-> IF listing'[p] = None THEN {} ELSE listing'[p].models]
             known == LengthFor(x.conf, x.prov, x.model)
  <1> SUFFICES ASSUME y.at \in {"look", "scan"}, x.at = "done", t[1] # 0, t \in Listed(L), provs[t[1]].pins = {}
               PROVE  /\ x.prov = t[1] /\ x.model = t[2]
                      /\ \A share \in Shares : wish \in ShareLists(L, share) => ModelAllowed(share, wish)
                      /\ x.conf[x.prov].window = provs[x.prov].window =>
                            /\ ListedWindow(wish) = known
                            /\ \A share \in Shares :
                                  known > 0 /\ wish[1] # 0 /\ wish \in ShareLists(L, share)
                                      => ShareWindow(share, wish) <= known
      BY DEF RoutedAsListed
  <1>1. Sound(y) /\ DOMAIN lookup = Lookups /\ DOMAIN listing = Providers  BY DEF CatalogInv, HistoryNow
  <1>2. Holds(y) /\ AsAsked(y) /\ Looks(y) /\ Answered(y)  BY <1>1 DEF Sound, UnderWay
  <1>3. Consult(l) \/ StoreScan(l)
    <2>1. ~AskSight(l) /\ ~LookAgain(l)  BY DEF AskSight, LookAgain
    <2>2. x # y  OBVIOUS
    <2> HIDE DEF x, y
    <2>3. x.at \notin {"scan", "over"} /\ y.at # "idle"  OBVIOUS
    <2> QED  BY <2>1, <2>2, <2>3, OwnStep DEF x, y
  <1>4. y.prov \in Providers /\ y.conf[y.prov] \in Configs[y.prov]  BY <1>2 DEF Holds
  <1>5. x = Decided(y, L[y.prov])
    <2>1. CASE Consult(l)
      <3>1. listing' = listing /\ listing[y.prov] # None /\ x = Decided(y, listing[y.prov].models)
        BY <1>1, <2>1 DEF Consult, Fresh
      <3> HIDE DEF x, y
      <3> QED  BY <1>4, <3>1
    <2>2. CASE StoreScan(l)
      <3>1. listing' = [listing EXCEPT ![y.prov] = Kept(l)] /\ x = Decided(y, Scanned(l)) /\ y.got # "pending"
        BY <1>1, <2>2 DEF StoreScan
      <3>2. Scanned(l) \in SUBSET Ids
        <4>1. y.got = "ids" => y.ids \in SUBSET Ids
          BY <1>2, CatalogAssumption DEF Answered, Answers
        <4> QED  BY <4>1 DEF Scanned, Filtered
      <3>3. Kept(l) # None /\ Kept(l).models = Scanned(l)  BY <3>2, CatalogAssumption DEF Kept
      <3> HIDE DEF x, y
      <3> QED  BY <1>1, <1>4, <3>1, <3>3
    <2> QED  BY <1>3, <2>1, <2>2
  <1>6. y.mode = "named" /\ y.prov = t[1] /\ y.want = t[2] /\ x.prov = y.prov /\ x.conf = y.conf
        /\ (y.want \in L[y.prov] \/ L[y.prov] = {} => x.model = y.want)
    <2>1. y.mode # "sight" => y.mode = "named" /\ y.prov = t[1] /\ y.want = t[2]  BY <1>2 DEF AsAsked
    <2>2. y.mode # "sight" /\ Target(y.ask)[1] # 0 => y.mode = "named"  BY <2>1
    <2>3. x.at = "done"  OBVIOUS
    <2> HIDE DEF x, y, t, L, wish
    <2>4. y.mode # "sight"  BY <1>5, <2>2, <2>3, DecidedWhere
    <2> QED  BY <1>5, <2>1, <2>2, <2>3, <2>4, DecidedWhere
  <1>7. y.want \in L[y.prov] \/ L[y.prov] = {}
    <2> DEFINE own(p) == IF provs[p].pins # {} THEN provs[p].pins
                         ELSE IF L[p] # {} THEN L[p] ELSE {provs[p].default} \ {""}
               on == {p \in Providers : provs[p].on}
    <2>1. \/ \E p \in on : \E id \in own(p) : t = <<p, id>>
          \/ \E a : t = <<0, a>>
      <3> DEFINE models == UNION {{<<p, id>> : id \in own(p)} : p \in on}
                 aliases == UNION {{<<0, a>> : a \in provs[p].aliases} : p \in on}
                 mapped == {<<0, a>> : a \in {b \in DOMAIN MapTo : MapTo[b][1] \in on \union {0}}}
      <3>1. t \in models \union aliases \union mapped
        <4>1. t \in Listed(L)  OBVIOUS
        <4>2. Listed(L) = models \union aliases \union mapped  BY Zenon DEF Listed
        <4> HIDE DEF models, aliases, mapped, L, t
        <4> QED  BY <4>1, <4>2
      <3> HIDE DEF t, own, on
      <3>2. t \in models => \E p \in on : \E id \in own(p) : t = <<p, id>>  BY Zenon
      <3>3. t \in aliases => \E a : t = <<0, a>>  BY Zenon
      <3>4. t \in mapped => \E a : t = <<0, a>>  BY Zenon
      <3> HIDE DEF models, aliases, mapped
      <3>5. t \in models \/ t \in aliases \/ t \in mapped  BY <3>1
      <3> QED  BY <3>2, <3>3, <3>4, <3>5, Zenon
    <2>2. t[1] # 0 /\ provs[t[1]].pins = {}  OBVIOUS
    <2> HIDE DEF t, L
    <2>3. PICK p \in on : \E id \in own(p) : t = <<p, id>>
      <3>1. ~ \E a : t = <<0, a>>  BY <2>2
      <3> HIDE DEF own, on
      <3> QED  BY <2>1, <3>1
    <2>4. t[1] = p /\ t[2] \in own(p)
      <3> HIDE DEF own
      <3> QED  BY <2>3
    <2>5. t[2] \in L[p] \/ L[p] = {}  BY <2>2, <2>4
    <2> HIDE DEF y, x
    <2> QED  BY <1>6, <2>4, <2>5
  <1>8. x.prov = t[1] /\ x.model = t[2] /\ t[1] \in Providers /\ x.conf[x.prov] \in Configs[x.prov]
    <2> HIDE DEF x, y, t, L
    <2> QED  BY <1>4, <1>6, <1>7
  <1>9. ASSUME x.conf[x.prov].window = provs[x.prov].window
        PROVE  /\ ListedWindow(wish) = known /\ known = LengthFor(provs, t[1], t[2])
               /\ \A share \in Shares :
                     known > 0 /\ wish[1] # 0 /\ wish \in ShareLists(L, share) => ShareWindow(share, wish) <= known
    <2>1. ListedWindow(wish) = LengthFor(provs, t[1], t[2])  BY DEF ListedWindow
    <2>2. known = LengthFor(provs, t[1], t[2])
      <3> HIDE DEF x, t
      <3> QED  BY <1>8, <1>9, WindowIsOne
    <2>3. ASSUME NEW share \in Shares, known > 0, wish[1] # 0, wish \in ShareLists(L, share)
          PROVE  ShareWindow(share, wish) <= known
      <3>1. t = wish  BY <2>3 DEF Target
      <3>2. share.force # None => wish = share.force  BY <2>3 DEF ShareLists
      <3>3. ShareWindow(share, wish) = LimitFor(share.cap, provs, wish[1], wish[2])
        <4> HIDE DEF wish
        <4> QED  BY <2>3, <3>2 DEF ShareWindow
      <3>4. share.cap \in Int  BY CatalogAssumption
      <3> HIDE DEF t, wish, x, known
      <3> QED  BY <1>8, <2>2, <2>3, <3>1, <3>3, <3>4, CapLowers
    <2> QED  BY <2>1, <2>2, <2>3
  <1> HIDE DEF x, y, t, L, wish, known
  <1> QED  BY <1>8, <1>9, SharesPass

\* What is advertised is what a request meets: the picture gate answers as the
\* listing does, unless the rules were saved while it asked; a listed name
\* leads to its model, with the window announced, and a share passes what it
\* lists and announces no more (visionAdvertised and visionCapableFor,
\* AllModelIDs and ResolveModel, endpointModels and modelAllowed).
THEOREM AlwaysHonest == CatalogSpec => AdvertisedHonest
  <1>1. CatalogInv /\ [CatalogNext]_catalogVars
           => [\A l \in Lookups : GateAsAdvertised(l) /\ RoutedAsListed(l)]_catalogVars
    BY GateHonest, RouteHonest
  <1> QED  BY <1>1, CatalogBegins, CatalogStep, PTL DEF CatalogSpec, AdvertisedHonest

-----------------------------------------------------------------------------
(* Fusion and the round table.                                              *)

\* What a panelist said: first, and last.
SaidFirst(i) == IF spoken[i][1] # Unsaid THEN spoken[i][1] ELSE Unavailable
SaidLast(i) == IF spoken[i][2] # Unsaid THEN spoken[i][2] ELSE SaidFirst(i)

\* The shape of the state: records that keep their fields.
PanelsShaped ==
    /\ job = [kind |-> job.kind, rounds |-> job.rounds, history |-> job.history, squeezed |-> job.squeezed]
    /\ DOMAIN seat = Seats /\ DOMAIN answers = Seats /\ DOMAIN revised = Seats /\ DOMAIN spoken = Seats
    /\ \A i \in Seats :
          /\ seat[i] = [at |-> seat[i].at, turns |-> seat[i].turns, open |-> seat[i].open, prompt |-> seat[i].prompt]
          /\ spoken[i] = <<spoken[i][1], spoken[i][2]>>

\* A table is gone through in its phases; a fusion has one.
PhasesInOrder ==
    /\ job.kind # "table" => phase \in {"idle", "first", "done"} /\ outcome.kind # "table"
    /\ phase = "idle" => job.kind = "none" /\ seat = [i \in Seats |-> Waiting]
    /\ outcome.kind = "table" => phase = "done"
    /\ phase \in {"idle", "first", "second", "sum", "done"}

\* A member of the table has said what stands in the table, or has not spoken.
FirstRound ==
    phase = "first" => \A i \in Seats : Finished(i) => answers[i] = SaidFirst(i)

SecondRound ==
    phase = "second" => \A i \in Seats :
        /\ answers[i] = SaidFirst(i)
        /\ Finished(i) => revised[i] = SaidLast(i)
        /\ ~Finished(i) => spoken[i][2] = Unsaid
        /\ seat[i].at # "start" => \A j \in Seats : seat[i].prompt[j] = SaidFirst(j)

NotYetSaid ==
    /\ phase \in {"idle", "first"} => \A i \in Seats :
          spoken[i][2] = Unsaid /\ (~Finished(i) => spoken[i][1] = Unsaid)
    /\ phase = "sum" => \A i \in Seats : answers[i] = SaidLast(i)

Recorded == outcome.kind = "table" => \A i \in Seats : outcome.positions[i] = SaidLast(i)

PanelsInv ==
    /\ PanelsShaped /\ PhasesInOrder /\ NotYetSaid /\ Recorded
    /\ job.kind = "table" => FirstRound /\ SecondRound

\* A text that is said in a round is the speaker's for that round.
LEMMA Noted ==
    ASSUME PanelsShaped, NEW i \in Seats, NEW r \in {1, 2}, NEW text, spoken' = [spoken EXCEPT ![i][r] = text]
    PROVE  /\ DOMAIN spoken' = Seats
           /\ \A j \in Seats : spoken'[j] = <<spoken'[j][1], spoken'[j][2]>>
           /\ spoken'[i][r] = text
           /\ \A s \in {1, 2} : s # r => spoken'[i][s] = spoken[i][s]
           /\ \A j \in Seats \ {i} : spoken'[j] = spoken[j]
  <1>1. DOMAIN spoken = Seats /\ spoken[i] = <<spoken[i][1], spoken[i][2]>>
        /\ \A j \in Seats : spoken[j] = <<spoken[j][1], spoken[j][2]>>
    BY DEF PanelsShaped
  <1>2. spoken' = [spoken EXCEPT ![i] = [spoken[i] EXCEPT ![r] = text]]  OBVIOUS
  <1>3. [spoken[i] EXCEPT ![r] = text] = IF r = 1 THEN <<text, spoken[i][2]>> ELSE <<spoken[i][1], text>>
    <2>1. ASSUME NEW a, NEW b
          PROVE  [<<a, b>> EXCEPT ![1] = text] = <<text, b>> /\ [<<a, b>> EXCEPT ![2] = text] = <<a, text>>
      OBVIOUS
    <2> DEFINE a == spoken[i][1]
               b == spoken[i][2]
    <2>2. spoken[i] = <<a, b>>  BY <1>1
    <2> HIDE DEF a, b
    <2>3. CASE r = 1
      <3>1. [<<a, b>> EXCEPT ![1] = text] = <<text, b>>  BY <2>1
      <3> QED  BY <2>2, <2>3, <3>1 DEF b
    <2>4. CASE r = 2
      <3>1. [<<a, b>> EXCEPT ![2] = text] = <<a, text>>  BY <2>1
      <3> QED  BY <2>2, <2>4, <3>1 DEF a
    <2> QED  BY <2>3, <2>4
  <1>4. spoken'[i] = IF r = 1 THEN <<text, spoken[i][2]>> ELSE <<spoken[i][1], text>>
    BY <1>1, <1>2, <1>3
  <1> QED  BY <1>1, <1>2, <1>4

\* Only a member's own place at the table changes when it moves.
LEMMA Moved ==
    ASSUME PanelsShaped, NEW i \in Seats, NEW s, seat' = [seat EXCEPT ![i] = s],
           s = [at |-> s.at, turns |-> s.turns, open |-> s.open, prompt |-> s.prompt]
    PROVE  /\ DOMAIN seat' = Seats /\ seat'[i] = s
           /\ \A j \in Seats : seat'[j] = [at |-> seat'[j].at, turns |-> seat'[j].turns,
                                           open |-> seat'[j].open, prompt |-> seat'[j].prompt]
           /\ \A j \in Seats \ {i} : seat'[j] = seat[j]
  <1>1. DOMAIN seat = Seats
        /\ \A j \in Seats : seat[j] = [at |-> seat[j].at, turns |-> seat[j].turns, open |-> seat[j].open, prompt |-> seat[j].prompt]
    BY DEF PanelsShaped
  <1>2. seat'[i] = s /\ \A j \in Seats \ {i} : seat'[j] = seat[j]  BY <1>1
  <1> HIDE DEF PanelsShaped
  <1> QED  BY <1>1, <1>2

\* A step of a member at the table stays in its round.
LEMMA InRound ==
    ASSUME PanelsInv, AtTable, UNCHANGED <<job, phase, outcome>>, PanelsShaped',
           FirstRound', SecondRound',
           phase = "first" => \A i \in Seats : spoken'[i][2] = Unsaid /\ (seat'[i].at # "end" => spoken'[i][1] = Unsaid)
    PROVE  PanelsInv'
  <1>1. phase \in {"first", "second"} /\ job.kind = "table" /\ PhasesInOrder  BY DEF AtTable, PanelsInv
  <1>2. PhasesInOrder' /\ Recorded'  BY <1>1 DEF PhasesInOrder, Recorded
  <1>3. NotYetSaid'  BY <1>1 DEF NotYetSaid, Finished
  <1> QED  BY <1>2, <1>3 DEF PanelsInv

\* What a member's step does to what was said.
LEMMA SpeakKeeps == ASSUME PanelsInv, NEW i \in Seats, Speak(i) PROVE PanelsInv'
  <1>0. PanelsShaped /\ NotYetSaid /\ FirstRound /\ SecondRound /\ AtTable /\ seat[i].at = "start"
    BY DEF PanelsInv, Speak, AtTable
  <1>1. UNCHANGED <<job, phase, answers, revised, spoken, outcome>>  BY DEF Speak
  <1> DEFINE y == seat[i]
             q == IF Round = 1 THEN <<>> ELSE answers
             s == [at |-> "call", turns |-> y.turns, open |-> y.open, prompt |-> q]
  <1>2. seat' = [seat EXCEPT ![i] = s]
    <2>1. seat' = [seat EXCEPT ![i].at = "call", ![i].prompt = q]  BY DEF Speak
    <2>2. y = [at |-> y.at, turns |-> y.turns, open |-> y.open, prompt |-> y.prompt] /\ DOMAIN seat = Seats
      BY <1>0 DEF PanelsShaped
    <2> DEFINE u == [y EXCEPT !.at = "call"]
    <2>3. seat' = [seat EXCEPT ![i] = [u EXCEPT !.prompt = q]]  BY <2>1, <2>2
    <2> HIDE DEF y, q
    <2>4. u = [at |-> "call", turns |-> y.turns, open |-> y.open, prompt |-> y.prompt]  BY <2>2
    <2> HIDE DEF u
    <2>5. [u EXCEPT !.prompt = q] = s  BY <2>4
    <2> QED  BY <2>3, <2>5
  <1>3. s.at = "call" /\ s.prompt = q
        /\ s = [at |-> s.at, turns |-> s.turns, open |-> s.open, prompt |-> s.prompt]
    OBVIOUS
  <1> HIDE DEF s, q, y
  <1>4. /\ DOMAIN seat' = Seats /\ seat'[i] = s
        /\ \A j \in Seats : seat'[j] = [at |-> seat'[j].at, turns |-> seat'[j].turns,
                                        open |-> seat'[j].open, prompt |-> seat'[j].prompt]
        /\ \A j \in Seats \ {i} : seat'[j] = seat[j]
    BY <1>0, <1>2, <1>3, Moved
  <1>5. PanelsShaped'  BY <1>0, <1>1, <1>4 DEF PanelsShaped
  <1>6. seat'[i].at = "call" /\ seat[i].at = "start" /\ \A j \in Seats : Finished(j)' <=> Finished(j)
    BY <1>0, <1>3, <1>4 DEF Finished
  <1>7. \A j \in Seats : SaidFirst(j)' = SaidFirst(j) /\ SaidLast(j)' = SaidLast(j)
    BY <1>1 DEF SaidFirst, SaidLast
  <1>8. FirstRound'  BY <1>0, <1>1, <1>6, <1>7 DEF FirstRound
  <1>9. SecondRound'
    <2> SUFFICES ASSUME phase = "second", NEW k \in Seats
                 PROVE  /\ answers[k] = SaidFirst(k)
                        /\ Finished(k) => revised[k] = SaidLast(k)
                        /\ ~Finished(k) => spoken[k][2] = Unsaid
                        /\ seat'[k].at # "start" => \A j \in Seats : seat'[k].prompt[j] = SaidFirst(j)
        BY <1>1, <1>6, <1>7 DEF SecondRound
    <2>1. \A j \in Seats : answers[j] = SaidFirst(j)  BY <1>0 DEF SecondRound
    <2>2. k = i => seat'[k].prompt = answers  BY <1>3, <1>4 DEF q, Round
    <2>3. k # i => seat'[k] = seat[k]  BY <1>4
    <2> QED  BY <1>0, <2>1, <2>2, <2>3 DEF SecondRound
  <1>10. phase = "first" => \A j \in Seats : spoken'[j][2] = Unsaid /\ (seat'[j].at # "end" => spoken'[j][1] = Unsaid)
    BY <1>0, <1>1, <1>6 DEF NotYetSaid, Finished
  <1> QED  BY <1>0, <1>1, <1>5, <1>8, <1>9, <1>10, InRound

\* A step that calls or answers tools says nothing, and ends nothing.
LEMMA ToolKeeps ==
    ASSUME PanelsInv, NEW i \in Seats, AtTable, seat[i].at \in {"call", "tools"},
           UNCHANGED <<job, phase, answers, revised, spoken, outcome>>,
           NEW at \in {"call", "tools"}, NEW turns, NEW open,
           seat' = [seat EXCEPT ![i] = [at |-> at, turns |-> turns, open |-> open, prompt |-> seat[i].prompt]]
    PROVE  PanelsInv'
  <1>0. PanelsShaped /\ NotYetSaid /\ FirstRound /\ SecondRound  BY DEF PanelsInv, AtTable
  <1> DEFINE s == [at |-> at, turns |-> turns, open |-> open, prompt |-> seat[i].prompt]
  <1>3. s.at = at /\ s.prompt = seat[i].prompt
        /\ s = [at |-> s.at, turns |-> s.turns, open |-> s.open, prompt |-> s.prompt]
        /\ seat' = [seat EXCEPT ![i] = s]
    OBVIOUS
  <1> HIDE DEF s
  <1>4. /\ DOMAIN seat' = Seats /\ seat'[i] = s
        /\ \A j \in Seats : seat'[j] = [at |-> seat'[j].at, turns |-> seat'[j].turns,
                                        open |-> seat'[j].open, prompt |-> seat'[j].prompt]
        /\ \A j \in Seats \ {i} : seat'[j] = seat[j]
    BY <1>0, <1>3, Moved
  <1>5. PanelsShaped'  BY <1>0, <1>4 DEF PanelsShaped
  <1>6. \A j \in Seats : /\ Finished(j)' <=> Finished(j)
                         /\ seat'[j].prompt = seat[j].prompt
                         /\ seat'[j].at = "start" <=> seat[j].at = "start"
    BY <1>3, <1>4 DEF Finished
  <1>7. \A j \in Seats : SaidFirst(j)' = SaidFirst(j) /\ SaidLast(j)' = SaidLast(j)
    BY DEF SaidFirst, SaidLast
  <1>8. FirstRound'  BY <1>0, <1>6, <1>7 DEF FirstRound
  <1>9. SecondRound'  BY <1>0, <1>6, <1>7 DEF SecondRound
  <1>10. phase = "first" => \A j \in Seats : spoken'[j][2] = Unsaid /\ (seat'[j].at # "end" => spoken'[j][1] = Unsaid)
    BY <1>0, <1>6 DEF NotYetSaid, Finished
  <1> QED  BY <1>5, <1>8, <1>9, <1>10, InRound

\* A turn that ends, in an answer or a failure: what is kept is what was said.
LEMMA EndKeeps ==
    ASSUME PanelsInv, NEW i \in Seats, AtTable, seat[i].at = "call", UNCHANGED <<job, phase, outcome>>,
           seat' = [seat EXCEPT ![i].at = "end"],
           NEW text, Keep(i, text),
           \/ spoken' = spoken /\ text = OnFailure(i)
           \/ spoken' = [spoken EXCEPT ![i][Round] = text] /\ text # Unsaid
    PROVE  PanelsInv'
  <1>0. PanelsShaped /\ NotYetSaid /\ FirstRound /\ SecondRound  BY DEF PanelsInv, AtTable
  <1>1. phase \in {"first", "second"} /\ Round = (IF phase = "first" THEN 1 ELSE 2) /\ Round \in {1, 2}
    BY DEF AtTable, Round
  <1> DEFINE y == seat[i]
             s == [at |-> "end", turns |-> y.turns, open |-> y.open, prompt |-> y.prompt]
  <1>2. seat' = [seat EXCEPT ![i] = s]
    <2>1. y = [at |-> y.at, turns |-> y.turns, open |-> y.open, prompt |-> y.prompt] /\ DOMAIN seat = Seats
      BY <1>0 DEF PanelsShaped
    <2>2. seat' = [seat EXCEPT ![i] = [y EXCEPT !.at = "end"]]  OBVIOUS
    <2> HIDE DEF y
    <2>3. [y EXCEPT !.at = "end"] = s  BY <2>1
    <2> QED  BY <2>2, <2>3
  <1>3. s.at = "end" /\ s.prompt = seat[i].prompt
        /\ s = [at |-> s.at, turns |-> s.turns, open |-> s.open, prompt |-> s.prompt]
    OBVIOUS
  <1> HIDE DEF s, y
  <1>4. /\ DOMAIN seat' = Seats /\ seat'[i] = s
        /\ \A j \in Seats : seat'[j] = [at |-> seat'[j].at, turns |-> seat'[j].turns,
                                        open |-> seat'[j].open, prompt |-> seat'[j].prompt]
        /\ \A j \in Seats \ {i} : seat'[j] = seat[j]
    BY <1>0, <1>2, <1>3, Moved
  <1>5. /\ DOMAIN spoken' = Seats
        /\ \A j \in Seats : spoken'[j] = <<spoken'[j][1], spoken'[j][2]>>
        /\ \A j \in Seats \ {i} : spoken'[j] = spoken[j]
        /\ \A r \in {1, 2} : r # Round => spoken'[i][r] = spoken[i][r]
    <2>1. CASE spoken' = spoken  BY <1>0, <2>1 DEF PanelsShaped
    <2>2. CASE spoken' = [spoken EXCEPT ![i][Round] = text]  BY <1>0, <1>1, <2>2, Noted
    <2> QED  BY <2>1, <2>2
  <1>6. \/ spoken'[i][Round] = spoken[i][Round] /\ text = OnFailure(i)
        \/ spoken'[i][Round] = text /\ text # Unsaid
    BY <1>0, <1>1, Noted
  <1>7. DOMAIN answers = Seats /\ DOMAIN revised = Seats  BY <1>0 DEF PanelsShaped
  <1>8. DOMAIN answers' = Seats /\ DOMAIN revised' = Seats  BY <1>7 DEF Keep
  <1>9. PanelsShaped'  BY <1>0, <1>4, <1>5, <1>8 DEF PanelsShaped
  <1>10. \A j \in Seats \ {i} : /\ Finished(j)' <=> Finished(j)
                                /\ SaidFirst(j)' = SaidFirst(j) /\ SaidLast(j)' = SaidLast(j)
    BY <1>4, <1>5 DEF SaidFirst, SaidLast, Finished
  <1>11. CASE phase = "first"
    <2>1. Round = 1 /\ spoken[i][1] = Unsaid /\ \A j \in Seats : spoken[j][2] = Unsaid
      BY <1>0, <1>1, <1>11 DEF NotYetSaid, Finished
    <2>2. answers'[i] = text /\ \A j \in Seats \ {i} : answers'[j] = answers[j]
      BY <1>7, <2>1 DEF Keep
    <2>3. text = SaidFirst(i)'  BY <1>6, <2>1 DEF SaidFirst, OnFailure
    <2>4. FirstRound'
      <3> SUFFICES ASSUME NEW j \in Seats, Finished(j)' PROVE answers'[j] = SaidFirst(j)'  BY DEF FirstRound
      <3>1. CASE j = i  BY <2>2, <2>3, <3>1
      <3>2. CASE j # i  BY <1>0, <1>10, <1>11, <2>2, <3>2 DEF FirstRound
      <3> QED  BY <3>1, <3>2
    <2>5. SecondRound'  BY <1>11 DEF SecondRound
    <2>6. \A j \in Seats : spoken'[j][2] = Unsaid /\ (seat'[j].at # "end" => spoken'[j][1] = Unsaid)
      <3> SUFFICES ASSUME NEW j \in Seats
                   PROVE  spoken'[j][2] = Unsaid /\ (seat'[j].at # "end" => spoken'[j][1] = Unsaid)
          OBVIOUS
      <3>1. CASE j = i  BY <1>3, <1>4, <1>5, <2>1, <3>1
      <3>2. CASE j # i  BY <1>0, <1>4, <1>5, <1>11, <3>2 DEF NotYetSaid, Finished
      <3> QED  BY <3>1, <3>2
    <2> QED  BY <1>9, <2>4, <2>5, <2>6, InRound
  <1>12. CASE phase = "second"
    <2>1. Round = 2 /\ spoken[i][2] = Unsaid /\ answers[i] = SaidFirst(i) /\ \A j \in Seats : answers[j] = SaidFirst(j)
      BY <1>0, <1>1, <1>12 DEF SecondRound, Finished
    <2>2. revised'[i] = text /\ answers' = answers /\ \A j \in Seats \ {i} : revised'[j] = revised[j]
      BY <1>7, <2>1 DEF Keep
    <2>3. SaidFirst(i)' = SaidFirst(i)  BY <1>5, <2>1 DEF SaidFirst
    <2>4. text = SaidLast(i)'
      <3>1. CASE spoken'[i][2] = spoken[i][2] /\ text = OnFailure(i)
        <4>1. text = answers[i]  BY <2>1, <3>1 DEF OnFailure
        <4>2. SaidLast(i)' = SaidFirst(i)'  BY <2>1, <3>1 DEF SaidLast
        <4> QED  BY <2>1, <2>3, <4>1, <4>2
      <3>2. CASE spoken'[i][2] = text /\ text # Unsaid  BY <3>2 DEF SaidLast
      <3> QED  BY <1>6, <2>1, <3>1, <3>2
    <2>5. \A j \in Seats : SaidFirst(j)' = SaidFirst(j)  BY <1>10, <2>3
    <2>6. SecondRound'
      <3> SUFFICES ASSUME NEW k \in Seats
                   PROVE  /\ answers'[k] = SaidFirst(k)'
                          /\ Finished(k)' => revised'[k] = SaidLast(k)'
                          /\ ~Finished(k)' => spoken'[k][2] = Unsaid
                          /\ seat'[k].at # "start" => \A j \in Seats : seat'[k].prompt[j] = SaidFirst(j)'
          BY DEF SecondRound
      <3>1. answers'[k] = SaidFirst(k)'  BY <2>1, <2>2, <2>5
      <3>2. CASE k = i
        <4>1. Finished(k)'  BY <1>3, <1>4, <3>2 DEF Finished
        <4>2. \A j \in Seats : seat[i].prompt[j] = SaidFirst(j)  BY <1>0, <1>12 DEF SecondRound
        <4> QED  BY <1>3, <1>4, <2>2, <2>4, <2>5, <3>1, <3>2, <4>1, <4>2
      <3>3. CASE k # i
        <4>1. /\ Finished(k) => revised[k] = SaidLast(k)
              /\ ~Finished(k) => spoken[k][2] = Unsaid
              /\ seat[k].at # "start" => \A j \in Seats : seat[k].prompt[j] = SaidFirst(j)
          BY <1>0, <1>12 DEF SecondRound
        <4>2. seat'[k] = seat[k] /\ spoken'[k] = spoken[k] /\ revised'[k] = revised[k]  BY <1>4, <1>5, <2>2, <3>3
        <4> QED  BY <1>10, <2>5, <3>1, <3>3, <4>1, <4>2
      <3> QED  BY <3>2, <3>3
    <2>7. FirstRound'  BY <1>12 DEF FirstRound
    <2> QED  BY <1>9, <1>12, <2>6, <2>7, InRound
  <1> QED  BY <1>1, <1>11, <1>12

\* The records of a member that calls tools, or runs one.
LEMMA ToolRecords ==
    ASSUME PanelsInv, NEW i \in Seats, NEW n \in 1..2, NEW works \in BOOLEAN, TurnCalls(i, n) \/ RunTool(i, works)
    PROVE  PanelsInv'
  <1> DEFINE y == seat[i]
  <1>1. /\ y = [at |-> y.at, turns |-> y.turns, open |-> y.open, prompt |-> y.prompt]
        /\ DOMAIN seat = Seats /\ AtTable /\ y.at \in {"call", "tools"}
        /\ UNCHANGED <<job, phase, answers, revised, spoken, outcome>>
    BY DEF PanelsInv, PanelsShaped, TurnCalls, RunTool
  <1>2. CASE TurnCalls(i, n)
    <2> DEFINE u == [[y EXCEPT !.at = "tools"] EXCEPT !.open = n]
    <2>1. seat' = [seat EXCEPT ![i] = [u EXCEPT !.turns = u.turns + 1]]
      BY <1>1, <1>2 DEF TurnCalls
    <2> HIDE DEF y
    <2>2. u = [at |-> "tools", turns |-> y.turns, open |-> n, prompt |-> y.prompt]
      <3> DEFINE v == [y EXCEPT !.at = "tools"]
      <3>1. v = [at |-> "tools", turns |-> y.turns, open |-> y.open, prompt |-> y.prompt]  BY <1>1
      <3> HIDE DEF v
      <3>2. [v EXCEPT !.open = n] = [at |-> "tools", turns |-> y.turns, open |-> n, prompt |-> y.prompt]  BY <3>1
      <3> QED  BY <3>2 DEF v
    <2> HIDE DEF u
    <2>3. [u EXCEPT !.turns = u.turns + 1] = [at |-> "tools", turns |-> y.turns + 1, open |-> n, prompt |-> y.prompt]
      BY <2>2
    <2>4. seat' = [seat EXCEPT ![i] = [at |-> "tools", turns |-> y.turns + 1, open |-> n, prompt |-> seat[i].prompt]]
      BY <2>1, <2>3 DEF y
    <2> QED  BY <1>1, <2>4, ToolKeeps DEF y
  <1>3. CASE RunTool(i, works)
    <2> DEFINE at == IF seat[i].open = 1 THEN "call" ELSE "tools"
               u == [y EXCEPT !.open = y.open - 1]
    <2>1. seat' = [seat EXCEPT ![i] = [u EXCEPT !.at = at]]  BY <1>1, <1>3 DEF RunTool
    <2>2. at \in {"call", "tools"}  OBVIOUS
    <2> HIDE DEF y, at
    <2>3. u = [at |-> y.at, turns |-> y.turns, open |-> y.open - 1, prompt |-> y.prompt]  BY <1>1
    <2> HIDE DEF u
    <2>4. [u EXCEPT !.at = at] = [at |-> at, turns |-> y.turns, open |-> y.open - 1, prompt |-> y.prompt]
      BY <2>3
    <2>5. seat' = [seat EXCEPT ![i] = [at |-> at, turns |-> y.turns, open |-> y.open - 1, prompt |-> seat[i].prompt]]
      BY <2>1, <2>4 DEF y
    <2> QED  BY <1>1, <2>2, <2>5, ToolKeeps DEF y
  <1> QED  BY <1>2, <1>3

\* A panelist's turn ends with an answer, with nothing, or with a failure.
LEMMA TurnEnds ==
    ASSUME PanelsInv, NEW i \in Seats, TurnFails(i) \/ \E text \in {Answer(i, Round), Blank} : TurnAnswers(i, text)
    PROVE  PanelsInv'
  <1>1. CASE TurnFails(i)
    <2> DEFINE text == OnFailure(i)
    <2>1. AtTable /\ seat[i].at = "call" /\ UNCHANGED <<job, phase, outcome>>
          /\ seat' = [seat EXCEPT ![i].at = "end"] /\ Keep(i, text) /\ spoken' = spoken
      BY <1>1 DEF TurnFails
    <2> QED  BY <2>1, EndKeeps
  <1>2. ASSUME NEW text \in {Answer(i, Round), Blank}, TurnAnswers(i, text) PROVE PanelsInv'
    <2>1. AtTable /\ seat[i].at = "call" /\ UNCHANGED <<job, phase, outcome>>
          /\ seat' = [seat EXCEPT ![i].at = "end"] /\ Keep(i, text) /\ spoken' = [spoken EXCEPT ![i][Round] = text]
      BY <1>2 DEF TurnAnswers
    <2>2. text.round >= 0 /\ Unsaid.round = -2
      BY DEF Answer, Blank, Unsaid, Round
    <2>3. text # Unsaid  BY <2>2
    <2> QED  BY <2>1, <2>3, EndKeeps
  <1> QED  BY <1>1, <1>2

\* The fusion.
LEMMA FusionKeeps ==
    ASSUME PanelsInv,
           \/ \E given \in Histories : StartFusion(given)
           \/ \E i \in Seats, text \in BOOLEAN : Draft(i, IF text THEN Answer(i, 1) ELSE Blank)
           \/ Judge
    PROVE  PanelsInv'
  <1>0. PanelsShaped /\ PhasesInOrder /\ NotYetSaid  BY DEF PanelsInv
  <1>1. ASSUME NEW given, StartFusion(given) PROVE PanelsInv'
    <2>1. /\ phase = "idle" /\ phase' = "first" /\ UNCHANGED <<seat, answers, revised, spoken, outcome>>
          /\ job' = [kind |-> "fusion", rounds |-> job.rounds, history |-> given, squeezed |-> job.squeezed]
      <3>1. job' = [[job EXCEPT !.kind = "fusion"] EXCEPT !.history = given]  BY <1>1 DEF StartFusion
      <3> DEFINE u == [job EXCEPT !.kind = "fusion"]
      <3>2. u = [kind |-> "fusion", rounds |-> job.rounds, history |-> job.history, squeezed |-> job.squeezed]
        BY <1>0 DEF PanelsShaped
      <3> HIDE DEF u
      <3>3. [u EXCEPT !.history = given] = [kind |-> "fusion", rounds |-> job.rounds, history |-> given, squeezed |-> job.squeezed]
        BY <3>2
      <3> QED  BY <1>1, <3>1, <3>3 DEF StartFusion, u
    <2>2. PanelsShaped'  BY <1>0, <2>1 DEF PanelsShaped
    <2>3. PhasesInOrder' /\ Recorded'  BY <1>0, <2>1 DEF PhasesInOrder, Recorded
    <2>4. NotYetSaid'  BY <1>0, <2>1 DEF NotYetSaid, Finished
    <2> QED  BY <2>1, <2>2, <2>3, <2>4 DEF PanelsInv
  <1>2. ASSUME NEW i \in Seats, NEW text, Draft(i, text) PROVE PanelsInv'
    <2>1. /\ job.kind = "fusion" /\ phase = "first" /\ ~Finished(i) /\ UNCHANGED <<job, phase, revised, outcome>>
          /\ spoken' = [spoken EXCEPT ![i][1] = text] /\ seat' = [seat EXCEPT ![i].at = "end"]
          /\ answers' = [answers EXCEPT ![i] = text]
      BY <1>2 DEF Draft
    <2>2. /\ DOMAIN spoken' = Seats
          /\ \A j \in Seats : spoken'[j] = <<spoken'[j][1], spoken'[j][2]>>
          /\ \A j \in Seats \ {i} : spoken'[j] = spoken[j]
          /\ spoken'[i][2] = spoken[i][2]
      <3> DEFINE r == 1
      <3>1. r \in {1, 2} /\ 2 \in {1, 2} /\ 2 # r /\ spoken' = [spoken EXCEPT ![i][r] = text]  BY <2>1
      <3> HIDE DEF r
      <3>2. /\ DOMAIN spoken' = Seats
            /\ \A j \in Seats : spoken'[j] = <<spoken'[j][1], spoken'[j][2]>>
            /\ \A s \in {1, 2} : s # r => spoken'[i][s] = spoken[i][s]
            /\ \A j \in Seats \ {i} : spoken'[j] = spoken[j]
        BY <1>0, <3>1, Noted
      <3> QED  BY <3>1, <3>2
    <2> DEFINE y == seat[i]
               s == [at |-> "end", turns |-> y.turns, open |-> y.open, prompt |-> y.prompt]
    <2>3. seat' = [seat EXCEPT ![i] = s]
      <3>1. y = [at |-> y.at, turns |-> y.turns, open |-> y.open, prompt |-> y.prompt] /\ DOMAIN seat = Seats
        BY <1>0 DEF PanelsShaped
      <3>2. seat' = [seat EXCEPT ![i] = [y EXCEPT !.at = "end"]]  BY <2>1
      <3> HIDE DEF y
      <3>3. [y EXCEPT !.at = "end"] = s  BY <3>1
      <3> QED  BY <3>2, <3>3
    <2>4. s.at = "end" /\ s = [at |-> s.at, turns |-> s.turns, open |-> s.open, prompt |-> s.prompt]
      OBVIOUS
    <2> HIDE DEF s, y
    <2>5. /\ DOMAIN seat' = Seats /\ seat'[i] = s
          /\ \A j \in Seats : seat'[j] = [at |-> seat'[j].at, turns |-> seat'[j].turns,
                                          open |-> seat'[j].open, prompt |-> seat'[j].prompt]
          /\ \A j \in Seats \ {i} : seat'[j] = seat[j]
      BY <1>0, <2>3, <2>4, Moved
    <2>6. DOMAIN answers' = Seats /\ DOMAIN revised' = Seats  BY <1>0, <2>1 DEF PanelsShaped
    <2>7. PanelsShaped'  BY <1>0, <2>1, <2>2, <2>5, <2>6 DEF PanelsShaped
    <2>8. PhasesInOrder' /\ Recorded'  BY <1>0, <2>1 DEF PhasesInOrder, Recorded
    <2>9. NotYetSaid'
      <3>1. ASSUME NEW j \in Seats
            PROVE  spoken'[j][2] = Unsaid /\ (~Finished(j)' => spoken'[j][1] = Unsaid)
        <4>1. CASE j = i  BY <1>0, <2>1, <2>2, <2>4, <2>5, <4>1 DEF NotYetSaid, Finished
        <4>2. CASE j # i  BY <1>0, <2>1, <2>2, <2>5, <4>2 DEF NotYetSaid, Finished
        <4> QED  BY <4>1, <4>2
      <3> QED  BY <2>1, <3>1 DEF NotYetSaid
    <2> QED  BY <2>1, <2>7, <2>8, <2>9 DEF PanelsInv
  <1>3. CASE Judge
    <2>1. job.kind = "fusion" /\ phase' = "done" /\ UNCHANGED <<job, seat, answers, revised, spoken>>
          /\ outcome'.kind # "table"
      BY <1>3 DEF Judge
    <2>2. PanelsShaped'  BY <1>0, <2>1 DEF PanelsShaped
    <2>3. PhasesInOrder' /\ Recorded' /\ NotYetSaid'
      BY <1>0, <2>1 DEF PhasesInOrder, Recorded, NotYetSaid
    <2> QED  BY <2>1, <2>2, <2>3 DEF PanelsInv
  <1> QED  BY <1>1, <1>2, <1>3

\* The table is opened, its rounds gathered, and summed up.
LEMMA ConveneKeeps ==
    ASSUME PanelsInv, NEW rounds, NEW squeezes \in BOOLEAN, NEW works \in BOOLEAN, Convene(rounds, squeezes, works)
    PROVE  PanelsInv'
  <1>0. PanelsShaped /\ PhasesInOrder /\ NotYetSaid  BY DEF PanelsInv
  <1>1. phase = "idle" /\ phase' = "first" /\ UNCHANGED <<seat, answers, revised, spoken, outcome>>
    BY DEF Convene
  <1>2. job' = [kind |-> "table", rounds |-> rounds, history |-> job.history, squeezed |-> squeezes /\ works]
    <2> DEFINE u == [job EXCEPT !.kind = "table"]
               v == [u EXCEPT !.rounds = rounds]
               b == squeezes /\ works
    <2>1. job' = [v EXCEPT !.squeezed = b]  BY DEF Convene
    <2>2. u = [kind |-> "table", rounds |-> job.rounds, history |-> job.history, squeezed |-> job.squeezed]
      BY <1>0 DEF PanelsShaped
    <2> HIDE DEF u, b
    <2>3. v = [kind |-> "table", rounds |-> rounds, history |-> job.history, squeezed |-> job.squeezed]
      BY <2>2
    <2> HIDE DEF v
    <2>4. [v EXCEPT !.squeezed = b] = [kind |-> "table", rounds |-> rounds, history |-> job.history, squeezed |-> b]
      BY <2>3
    <2> QED  BY <2>1, <2>4 DEF b
  <1>3. job'.kind = "table"
        /\ job' = [kind |-> job'.kind, rounds |-> job'.rounds, history |-> job'.history, squeezed |-> job'.squeezed]
    BY <1>2
  <1>4. PanelsShaped'  BY <1>0, <1>1, <1>3 DEF PanelsShaped
  <1>5. PhasesInOrder' /\ Recorded'  BY <1>0, <1>1, <1>3 DEF PhasesInOrder, Recorded
  <1>6. NotYetSaid'  BY <1>0, <1>1 DEF NotYetSaid, Finished
  <1>7. \A i \in Seats : ~Finished(i)'  BY <1>0, <1>1 DEF PhasesInOrder, Finished, Waiting
  <1>8. FirstRound' /\ SecondRound'  BY <1>1, <1>7 DEF FirstRound, SecondRound
  <1> QED  BY <1>4, <1>5, <1>6, <1>8 DEF PanelsInv

\* The round is over when everyone has spoken.
LEMMA GatherKeeps == ASSUME PanelsInv, Gather PROVE PanelsInv'
  <1>0. /\ PanelsShaped /\ PhasesInOrder /\ NotYetSaid /\ FirstRound /\ SecondRound
        /\ job.kind = "table" /\ phase \in {"first", "second"} /\ \A i \in Seats : Finished(i)
        /\ UNCHANGED <<job, revised, spoken, outcome>>
    BY DEF PanelsInv, Gather, AtTable
  <1>1. \A i \in Seats : SaidFirst(i)' = SaidFirst(i) /\ SaidLast(i)' = SaidLast(i)
    BY <1>0 DEF SaidFirst, SaidLast
  <1>2. CASE phase' = "second" /\ phase = "first" /\ seat' = [i \in Seats |-> Waiting] /\ answers' = answers
    <2>1. PanelsShaped'
      <3>1. \A i \in Seats : seat'[i] = Waiting
            /\ Waiting = [at |-> Waiting.at, turns |-> Waiting.turns, open |-> Waiting.open, prompt |-> Waiting.prompt]
        BY <1>2 DEF Waiting
      <3>2. DOMAIN seat' = Seats  BY <1>2
      <3> QED  BY <1>0, <1>2, <3>1, <3>2 DEF PanelsShaped
    <2>2. PhasesInOrder' /\ Recorded'  BY <1>0, <1>2 DEF PhasesInOrder, Recorded
    <2>3. NotYetSaid'  BY <1>2 DEF NotYetSaid
    <2>4. \A i \in Seats : ~Finished(i)' /\ seat'[i].at = "start"  BY <1>2 DEF Finished, Waiting
    <2>5. SecondRound'
      BY <1>0, <1>1, <1>2, <2>4 DEF SecondRound, FirstRound, NotYetSaid
    <2>6. FirstRound'  BY <1>2 DEF FirstRound
    <2> QED  BY <2>1, <2>2, <2>3, <2>5, <2>6 DEF PanelsInv
  <1>3. CASE phase' = "sum" /\ seat' = seat /\ answers' = IF phase = "second" THEN revised ELSE answers
    <2>1. PanelsShaped'  BY <1>0, <1>3 DEF PanelsShaped
    <2>2. PhasesInOrder' /\ Recorded'  BY <1>0, <1>3 DEF PhasesInOrder, Recorded
    <2>3. ASSUME NEW i \in Seats PROVE answers'[i] = SaidLast(i)
      <3>1. CASE phase = "first"
        BY <1>0, <1>3, <3>1 DEF FirstRound, NotYetSaid, SaidLast
      <3>2. CASE phase = "second"
        BY <1>0, <1>3, <3>2 DEF SecondRound
      <3> QED  BY <1>0, <3>1, <3>2
    <2>4. NotYetSaid'  BY <1>1, <1>3, <2>3 DEF NotYetSaid
    <2>5. FirstRound' /\ SecondRound'  BY <1>3 DEF FirstRound, SecondRound
    <2> QED  BY <2>1, <2>2, <2>4, <2>5 DEF PanelsInv
  <1> QED  BY <1>2, <1>3 DEF Gather

\* The moderator sums up what was said.
LEMMA ModerateKeeps == ASSUME PanelsInv, NEW works \in BOOLEAN, Moderate(works) PROVE PanelsInv'
  <1>0. PanelsShaped /\ PhasesInOrder /\ NotYetSaid  BY DEF PanelsInv
  <1>1. /\ job.kind = "table" /\ phase = "sum" /\ phase' = "done" /\ UNCHANGED <<job, seat, answers, revised, spoken>>
        /\ outcome'.positions = answers
    BY DEF Moderate
  <1>2. \A i \in Seats : SaidLast(i)' = SaidLast(i)  BY <1>1 DEF SaidFirst, SaidLast
  <1>3. Recorded'  BY <1>0, <1>1, <1>2 DEF Recorded, NotYetSaid
  <1>4. PanelsShaped'  BY <1>0, <1>1 DEF PanelsShaped
  <1>5. PhasesInOrder' /\ NotYetSaid' /\ FirstRound' /\ SecondRound'
    BY <1>0, <1>1 DEF PhasesInOrder, NotYetSaid, FirstRound, SecondRound
  <1> QED  BY <1>3, <1>4, <1>5 DEF PanelsInv

\* Every step keeps what was said where it was said.
LEMMA PanelsStep == PanelsInv /\ [PanelsNext]_panelVars => PanelsInv'
  <1> SUFFICES ASSUME PanelsInv, [PanelsNext]_panelVars PROVE PanelsInv'
      OBVIOUS
  <1>1. ASSUME UNCHANGED panelVars PROVE PanelsInv'
    BY <1>1 DEF panelVars, PanelsInv, PanelsShaped, PhasesInOrder, NotYetSaid, Recorded,
       FirstRound, SecondRound,
                SaidFirst, SaidLast, Finished
  <1>2. ASSUME NEW i \in Seats, NEW n \in 1..2, TurnCalls(i, n) PROVE PanelsInv'
    BY <1>2, ToolRecords
  <1>3. ASSUME NEW i \in Seats, NEW works \in BOOLEAN, RunTool(i, works) PROVE PanelsInv'
    <2>1. 1 \in 1..2  OBVIOUS
    <2> QED  BY <1>3, <2>1, ToolRecords
  <1>4. CASE PanelsNext
    BY <1>2, <1>3, <1>4, FusionKeeps, ConveneKeeps, SpeakKeeps, TurnEnds, GatherKeeps,
       ModerateKeeps DEF PanelsNext
  <1> QED  BY <1>1, <1>4

\* At first nobody has said anything.
LEMMA PanelsStart == PanelsInit => PanelsInv
  <1> SUFFICES ASSUME PanelsInit PROVE PanelsInv  OBVIOUS
  <1>1. PanelsShaped  BY DEF PanelsInit, PanelsShaped, Waiting
  <1>2. PhasesInOrder /\ Recorded  BY DEF PanelsInit, PhasesInOrder, Recorded
  <1>3. NotYetSaid  BY DEF PanelsInit, NotYetSaid
  <1>4. job.kind = "none"  BY DEF PanelsInit
  <1> QED  BY <1>1, <1>2, <1>3, <1>4 DEF PanelsInv

\* What stands in the end is what each panelist said last, and in the second
\* round everyone reads what the others said in the first (runRoundtable).
THEOREM AnswersStand == PanelsSpec => []FirstAnswerStands
  <1>1. PanelsInv => FirstAnswerStands
    <2> SUFFICES ASSUME PanelsInv PROVE FirstAnswerStands  OBVIOUS
    <2>1. phase = "second" => SecondRound  BY DEF PanelsInv, PhasesInOrder
    <2>2. phase = "second" => \A i, j \in Seats : seat[i].at # "start" => seat[i].prompt[j] = SaidFirst(j)
      BY <2>1 DEF SecondRound
    <2>3. outcome.kind = "table" => \A i \in Seats : outcome.positions[i] = SaidLast(i)
      BY DEF PanelsInv, Recorded
    <2> QED  BY <2>2, <2>3 DEF FirstAnswerStands, SaidFirst, SaidLast
  <1> QED  BY <1>1, PanelsStart, PanelsStep, PTL DEF PanelsSpec

\* A finite set of numbers can be put in order.
LEMMA OrderExists ==
    ASSUME NEW U \in SUBSET Nat, IsFiniteSet(U)
    PROVE  \E s \in [1..Cardinality(U) -> U] : \A k, m \in DOMAIN s : k < m => s[k] < s[m]
  <1> DEFINE Has(S) == \E s \in [1..Cardinality(S) -> S] : \A k, m \in DOMAIN s : k < m => s[k] < s[m]
             Bad == {n \in Nat : \E S \in SUBSET Nat : IsFiniteSet(S) /\ Cardinality(S) = n /\ ~Has(S)}
  <1> HIDE DEF Has
  <1> SUFFICES ASSUME ~Has(U) PROVE FALSE  BY DEF Has
  <1>1. PICK n \in Bad : \A k \in Bad : n <= k
    <2>1. Cardinality(U) \in Bad  BY FS_CardinalityType
    <2>2. Bad \in SUBSET Nat /\ Bad # {}  BY <2>1
    <2> HIDE DEF Bad
    <2> QED  BY <2>2, LeastNat
  <1>2. PICK S \in SUBSET Nat : IsFiniteSet(S) /\ Cardinality(S) = n /\ ~Has(S)  BY <1>1
  <1>3. n \in Nat  BY <1>1
  <1>4. CASE n = 0
    <2>1. S = {}  BY <1>2, <1>4, FS_EmptySet
    <2> DEFINE s == [k \in 1..0 |-> k]
    <2>2. s \in [1..Cardinality(S) -> S] /\ DOMAIN s = {}  BY <1>2, <1>4, <2>1
    <2> HIDE DEF s
    <2>3. Has(S)  BY <2>2 DEF Has
    <2> QED  BY <1>2, <2>3
  <1>5. CASE n # 0
    <2> DEFINE top == Max(S)
               T == S \ {top}
    <2>1. S # {}  BY <1>2, <1>5, FS_EmptySet
    <2>2. top \in S /\ \A y \in S : y <= top  BY <1>2, <2>1, MaxIsThere
    <2> HIDE DEF top
    <2>3. T \in SUBSET Nat /\ IsFiniteSet(T) /\ Cardinality(T) = n - 1
      BY <1>2, <2>2, FS_RemoveElement
    <2>4. \A y \in T : y < top  BY <1>2, <2>2
    <2> HIDE DEF T
    <2>5. n - 1 \in Nat /\ ~(n <= n - 1)  BY <1>3, <1>5
    <2>6. n - 1 \notin Bad
      <3> HIDE DEF Bad
      <3> QED  BY <1>1, <2>5
    <2>7. Has(T)  BY <2>3, <2>5, <2>6
    <2>8. PICK t \in [1..(n - 1) -> T] : \A k, m \in DOMAIN t : k < m => t[k] < t[m]
      BY <2>3, <2>7 DEF Has
    <2> DEFINE s == [k \in 1..n |-> IF k = n THEN top ELSE t[k]]
    <2>9. \A k \in 1..n : k = n \/ k \in 1..(n - 1)  BY <1>3
    <2>10. s \in [1..n -> S]
      <3>1. T \subseteq S  BY DEF T
      <3> QED  BY <2>2, <2>8, <2>9, <3>1
    <2>11. ASSUME NEW k \in 1..n, NEW m \in 1..n, k < m PROVE s[k] < s[m]
      <3>1. k \in 1..(n - 1) /\ k # n  BY <1>3, <2>11
      <3>2. s[k] = t[k] /\ t[k] \in T  BY <2>8, <3>1
      <3>3. CASE m = n  BY <2>4, <3>2, <3>3
      <3>4. CASE m # n
        <4>1. m \in 1..(n - 1)  BY <2>9, <3>4
        <4> QED  BY <2>8, <2>11, <3>1, <3>2, <3>4, <4>1
      <3> QED  BY <3>3, <3>4
    <2> HIDE DEF s
    <2>12. Has(S)  BY <1>2, <2>10, <2>11 DEF Has
    <2> QED  BY <1>2, <2>12
  <1> QED  BY <1>4, <1>5

\* Seats in order are all of them, each once.
LEMMA OrderHolds ==
    ASSUME NEW S \in SUBSET Seats
    PROVE  /\ IsFiniteSet(S) /\ Cardinality(S) \in Nat
           /\ InOrder(S) \in [1..Cardinality(S) -> S]
           /\ \A k, m \in 1..Cardinality(S) : k < m => InOrder(S)[k] < InOrder(S)[m]
           /\ {InOrder(S)[k] : k \in 1..Cardinality(S)} = S
  <1> DEFINE n == Cardinality(S)
             s == InOrder(S)
             T == {s[k] : k \in 1..n}
  <1>1. IsFiniteSet(S) /\ n \in Nat /\ S \in SUBSET Nat
    <2>1. Members \in Nat  BY PanelsAssumption
    <2>2. IsFiniteSet(1..Members)  BY <2>1, FS_Interval
    <2>3. S \subseteq 1..Members  BY DEF Seats
    <2>4. IsFiniteSet(S)  BY <2>2, <2>3, FS_Subset
    <2>5. n \in Nat  BY <2>4, FS_CardinalityType
    <2>6. S \subseteq Nat  BY <2>1, <2>3
    <2> QED  BY <2>4, <2>5, <2>6
  <1>2. s \in [1..n -> S] /\ \A k, m \in DOMAIN s : k < m => s[k] < s[m]
    BY <1>1, OrderExists DEF InOrder
  <1> HIDE DEF n, s
  <1>3. \A k, m \in 1..n : k < m => s[k] < s[m]  BY <1>2
  <1>4. T \in SUBSET S  BY <1>2
  <1>5. s \in Bijection(1..n, T)
    <2>1. s \in [1..n -> T]  BY <1>2
    <2>2. ASSUME NEW k \in 1..n, NEW m \in 1..n, s[k] = s[m] PROVE k = m
      <3>1. s[k] \in Nat  BY <1>1, <1>2
      <3>2. ~(k < m) /\ ~(m < k)  BY <1>3, <2>2, <3>1
      <3> QED  BY <3>2
    <2> HIDE DEF T
    <2>3. s \in Injection(1..n, T)  BY <2>1, <2>2 DEF Injection, IsInjective
    <2>4. s \in Surjection(1..n, T)  BY <2>1 DEF Surjection, T
    <2> QED  BY <2>3, <2>4 DEF Bijection
  <1>6. Cardinality(T) = Cardinality(S)
    <2> HIDE DEF T
    <2>1. IsFiniteSet(1..n) /\ Cardinality(1..n) = n  BY <1>1, FS_Interval
    <2> QED  BY <1>5, <2>1, FS_Bijection DEF ExistsBijection, n
  <1>7. T = S
    <2> HIDE DEF T
    <2> QED  BY <1>1, <1>4, <1>6, FS_Subset
  <1> QED  BY <1>1, <1>2, <1>3, <1>7 DEF n, s

Roles == {"user", "assistant", "tool"}

\* What a fusion holds: each member's draft where it was put, if one came; and
\* for a judge, every draft that came.
Drafted(i) == spoken[i][1] \notin {Unsaid, Blank}

Fusing ==
    /\ job.history \in Seq(Roles)
    /\ job.kind # "table" => \A i \in Seats : IF Drafted(i) THEN answers[i] = Answer(i, 1) ELSE answers[i] = Blank
    /\ phase = "idle" => job.kind = "none"
    /\ DraftsExact

FusionInv == PanelsInv /\ Fusing

\* The drafts that came, under their authors' names and in their order.
LEMMA DraftsOrdered ==
    ASSUME \A i \in Seats : IF Drafted(i) THEN answers[i] = Answer(i, 1) ELSE answers[i] = Blank,
           NEW came, came = {i \in Seats : Drafted(i)}
    PROVE  /\ Len(Drafts) = Cardinality(came)
           /\ Drafts = <<>> <=> came = {}
           /\ DOMAIN Drafts = 1..Cardinality(came)
           /\ {d.by : d \in ToSet(Drafts)} = came
           /\ \A k \in DOMAIN Drafts :
                 /\ Drafts[k].draft.by = Drafts[k].by
                 /\ \A m \in 1..(k - 1) : Drafts[m].by < Drafts[k].by
  <1>1. {i \in Seats : answers[i] # Blank} = came
    <2>1. ASSUME NEW i \in Seats PROVE Answer(i, 1) # Blank  BY DEF Answer, Blank
    <2> QED  BY <2>1
  <1> DEFINE s == InOrder(came)
             n == Cardinality(came)
             f == [k \in DOMAIN s |-> [by |-> s[k], draft |-> answers[s[k]]]]
  <1>2. Drafts = f  BY <1>1 DEF Drafts
  <1>3. came \in SUBSET Seats  OBVIOUS
  <1>4. /\ IsFiniteSet(came) /\ n \in Nat
        /\ s \in [1..n -> came]
        /\ \A k, m \in 1..n : k < m => s[k] < s[m]
        /\ {s[k] : k \in 1..n} = came
    BY <1>3, OrderHolds
  <1> HIDE DEF s, n
  <1>5. DOMAIN f = 1..n /\ Len(f) = n /\ f \in Seq({f[k] : k \in 1..n})
    <2>1. DOMAIN f = 1..n  BY <1>4
    <2> QED  BY <1>4, <2>1
  <1>6. \A k \in 1..n : f[k].by = s[k] /\ f[k].draft = Answer(s[k], 1) /\ s[k] \in Seats
    BY <1>3, <1>4
  <1>7. \A k \in 1..n : f[k].draft.by = f[k].by
    <2> HIDE DEF f
    <2>1. \A k \in 1..n : Answer(s[k], 1).by = s[k]  BY DEF Answer
    <2> QED  BY <1>6, <2>1
  <1>8. ASSUME NEW k \in 1..n, NEW m \in 1..(k - 1) PROVE f[m].by < f[k].by
    <2>1. m \in 1..n /\ m < k  BY <1>4
    <2> QED  BY <1>4, <1>6, <2>1
  <1>9. {d.by : d \in ToSet(f)} = came
    <2>1. ToSet(f) = {f[k] : k \in 1..n}  BY <1>5 DEF ToSet
    <2> HIDE DEF f
    <2> QED  BY <1>4, <1>6, <2>1
  <1>10. f = <<>> <=> came = {}
    <2>1. f = <<>> <=> n = 0  BY <1>4, <1>5
    <2>2. n = 0 <=> came = {}  BY <1>4, FS_EmptySet DEF n
    <2> QED  BY <2>1, <2>2
  <1> HIDE DEF f
  <1> QED  BY <1>2, <1>5, <1>7, <1>8, <1>9, <1>10 DEF n

\* The drafts go where no message of the user comes after them.
LEMMA LastIsLast ==
    ASSUME NEW h \in Seq(Roles), NEW k \in DOMAIN h, k > LastUser(h)
    PROVE  h[k] # "user"
  <1> DEFINE users == {m \in DOMAIN h : h[m] = "user"}
  <1> SUFFICES ASSUME h[k] = "user" PROVE FALSE  OBVIOUS
  <1>1. k \in users /\ users \in SUBSET Nat /\ IsFiniteSet(users)
    <2>1. DOMAIN h = 1..Len(h) /\ Len(h) \in Nat  OBVIOUS
    <2>2. IsFiniteSet(1..Len(h))  BY <2>1, FS_Interval
    <2>3. users \subseteq 1..Len(h)  BY <2>1
    <2>4. IsFiniteSet(users)  BY <2>2, <2>3, FS_Subset
    <2> QED  BY <2>1, <2>4
  <1>2. LastUser(h) = CHOOSE m \in users : \A l \in users : l <= m
    BY <1>1 DEF LastUser
  <1> HIDE DEF users
  <1>3. \E m \in users : \A l \in users : l <= m  BY <1>1, MaxIsThere
  <1>4. LastUser(h) \in users /\ \A l \in users : l <= LastUser(h)  BY <1>2, <1>3
  <1>5. k \in Nat /\ LastUser(h) \in Nat /\ k <= LastUser(h)  BY <1>1, <1>4
  <1> QED  BY <1>5

\* A draft is noted for the member who wrote it.
LEMMA DraftNoted ==
    ASSUME PanelsShaped, NEW i \in Seats, NEW text, spoken' = [spoken EXCEPT ![i][1] = text]
    PROVE  spoken'[i][1] = text /\ \A j \in Seats \ {i} : spoken'[j] = spoken[j]
  <1> DEFINE a == spoken[i][1]
             b == spoken[i][2]
             e == [spoken[i] EXCEPT ![1] = text]
  <1>1. DOMAIN spoken = Seats /\ spoken[i] = <<a, b>>  BY DEF PanelsShaped
  <1>2. spoken' = [spoken EXCEPT ![i] = e]  OBVIOUS
  <1> HIDE DEF a, b
  <1>3. [<<a, b>> EXCEPT ![1] = text][1] = text  OBVIOUS
  <1>4. e[1] = text  BY <1>1, <1>3
  <1> HIDE DEF e
  <1> QED  BY <1>1, <1>2, <1>4

\* Until its judge a fusion holds what was said, and nothing else does.
LEMMA FusingKept ==
    ASSUME FusionInv, PanelsInv', [PanelsNext]_panelVars
    PROVE  Fusing'
  <1>0. PanelsShaped /\ PhasesInOrder /\ NotYetSaid /\ Fusing  BY DEF FusionInv, PanelsInv
  <1>1. CASE UNCHANGED panelVars
    BY <1>0, <1>1 DEF panelVars, Fusing, DraftsExact, Drafted
  <1>2. ASSUME NEW given \in Histories, StartFusion(given) PROVE Fusing'
    <2>1. phase = "idle" /\ phase' = "first" /\ UNCHANGED <<answers, spoken>>
          /\ job' = [job EXCEPT !.kind = "fusion", !.history = given]
      BY <1>2 DEF StartFusion
    <2>2. job.kind = "none" /\ job'.history = given
      BY <1>0, <2>1 DEF Fusing, PanelsShaped
    <2>3. given \in Seq(Roles)
      <3>1. ASSUME NEW R, NEW r \in R, NEW t \in R, NEW u \in R
            PROVE  {<<>>, <<r>>, <<r, t>>, <<r, t, r>>, <<r, t, u>>} \subseteq Seq(R)
        OBVIOUS
      <3>2. "user" \in Roles /\ "assistant" \in Roles /\ "tool" \in Roles  BY DEF Roles
      <3>3. Histories \subseteq Seq(Roles)  BY <3>1, <3>2 DEF Histories
      <3> QED  BY <3>3
    <2> QED  BY <1>0, <2>1, <2>2, <2>3 DEF Fusing, DraftsExact, Drafted
  <1>3. ASSUME NEW i \in Seats, NEW text \in {Answer(i, 1), Blank}, Draft(i, text) PROVE Fusing'
    <2>1. job.kind = "fusion" /\ phase = "first" /\ UNCHANGED <<job, phase>>
          /\ spoken' = [spoken EXCEPT ![i][1] = text] /\ answers' = [answers EXCEPT ![i] = text]
      BY <1>3 DEF Draft
    <2>2. spoken'[i][1] = text /\ \A j \in Seats \ {i} : spoken'[j] = spoken[j]  BY <1>0, <2>1, DraftNoted
    <2>3. answers'[i] = text /\ \A j \in Seats \ {i} : answers'[j] = answers[j]
      BY <1>0, <2>1 DEF PanelsShaped
    <2>4. Answer(i, 1) \notin {Unsaid, Blank}  BY DEF Answer, Unsaid, Blank
    <2>5. ASSUME NEW j \in Seats
          PROVE  IF Drafted(j)' THEN answers'[j] = Answer(j, 1) ELSE answers'[j] = Blank
      <3>1. CASE j = i  BY <2>2, <2>3, <2>4, <3>1 DEF Drafted
      <3>2. CASE j # i  BY <1>0, <2>1, <2>2, <2>3, <3>2 DEF Drafted, Fusing
      <3> QED  BY <3>1, <3>2
    <2> QED  BY <1>0, <2>1, <2>5 DEF Fusing, DraftsExact
  <1>4. CASE Judge
    <2> DEFINE came == {i \in Seats : Drafted(i)}
    <2>1. /\ job.kind = "fusion" /\ phase' = "done" /\ UNCHANGED <<job, answers, spoken>>
          /\ Drafts = <<>> => outcome'.kind = "routed"
          /\ Drafts # <<>> => /\ outcome'.kind = "judged" /\ outcome'.drafts = Drafts
                              /\ outcome'.at = LastUser(job.history)
      BY <1>4 DEF Judge
    <2>2. /\ Len(Drafts) = Cardinality(came)
          /\ Drafts = <<>> <=> came = {}
          /\ DOMAIN Drafts = 1..Cardinality(came)
          /\ {d.by : d \in ToSet(Drafts)} = came
          /\ \A k \in DOMAIN Drafts :
                /\ Drafts[k].draft.by = Drafts[k].by
                /\ \A m \in 1..(k - 1) : Drafts[m].by < Drafts[k].by
      BY <1>0, <2>1, DraftsOrdered DEF Fusing
    <2>3. \A k \in DOMAIN job.history : k > LastUser(job.history) => job.history[k] # "user"
      BY <1>0, LastIsLast DEF Fusing
    <2>4. came' = came  BY <2>1 DEF Drafted
    <2>5. came' = {i \in Seats : spoken'[i][1] \notin {Unsaid, Blank}}  BY DEF Drafted
    <2> HIDE DEF came
    <2>6. DraftsExact'  BY <2>1, <2>2, <2>3, <2>4, <2>5 DEF DraftsExact
    <2> QED  BY <1>0, <2>1, <2>6 DEF Fusing, Drafted
  <1>5. ASSUME NEW rounds, NEW squeezes \in BOOLEAN, NEW works \in BOOLEAN, Convene(rounds, squeezes, works)
        PROVE  Fusing'
    <2>1. job'.kind = "table" /\ job'.history = job.history /\ phase' = "first"
      BY <1>0, <1>5 DEF Convene, PanelsShaped
    <2> QED  BY <1>0, <2>1 DEF Fusing, DraftsExact
  <1>6. CASE job.kind = "table" /\ UNCHANGED job /\ phase' # "idle"
    BY <1>0, <1>6 DEF Fusing, DraftsExact
  <1>7. ASSUME NEW i \in Seats, Speak(i) \/ TurnFails(i) PROVE Fusing'
    BY <1>6, <1>7 DEF Speak, TurnFails, AtTable
  <1>8. ASSUME NEW i \in Seats, NEW text, TurnAnswers(i, text) PROVE Fusing'
    BY <1>6, <1>8 DEF TurnAnswers, AtTable
  <1>9. ASSUME NEW i \in Seats, NEW n, TurnCalls(i, n) PROVE Fusing'
    BY <1>6, <1>9 DEF TurnCalls, AtTable
  <1>10. ASSUME NEW i \in Seats, NEW works, RunTool(i, works) PROVE Fusing'
    BY <1>6, <1>10 DEF RunTool, AtTable
  <1>11. CASE Gather  BY <1>6, <1>11 DEF Gather, AtTable
  <1>12. ASSUME NEW works, Moderate(works) PROVE Fusing'
    BY <1>6, <1>12 DEF Moderate
  <1> QED  BY <1>1, <1>2, <1>3, <1>4, <1>5, <1>7, <1>8, <1>9, <1>10, <1>11, <1>12 DEF PanelsNext

\* The judge of a fusion reads every draft that came and no other, each once,
\* under its author's name and in the configured order, after which no message
\* of the user comes (FusionWith).
THEOREM DraftsAreExact == PanelsSpec => []DraftsExact
  <1>1. PanelsInit => FusionInv
    <2> SUFFICES ASSUME PanelsInit PROVE PanelsInv /\ Fusing  BY DEF FusionInv
    <2>1. PanelsInv  BY PanelsStart
    <2>2. job.history \in Seq(Roles) /\ job.kind = "none" /\ phase = "idle"  BY DEF PanelsInit
    <2>3. ASSUME NEW i \in Seats PROVE ~Drafted(i) /\ answers[i] = Blank  BY DEF PanelsInit, Drafted
    <2> QED  BY <2>1, <2>2, <2>3 DEF Fusing, DraftsExact
  <1>2. FusionInv /\ [PanelsNext]_panelVars => FusionInv'
    BY FusingKept, PanelsStep DEF FusionInv
  <1>3. FusionInv => DraftsExact  BY DEF FusionInv, Fusing
  <1> QED  BY <1>1, <1>2, <1>3, PTL DEF PanelsSpec

-----------------------------------------------------------------------------
(* The load snapshot.                                                       *)

\* A picture of instances there are.
Pictured(pic) ==
    /\ pic = [of |-> pic.of, ready |-> pic.ready, busy |-> pic.busy, unread |-> pic.unread, age |-> pic.age]
    /\ pic.of \subseteq Instances /\ pic.ready \subseteq Instances /\ pic.busy \subseteq Instances
    /\ pic.age \in Nat

\* An instance that is not what the picture says has not been so for longer
\* than the picture is old (c and l are cond and lasted); waiting are those the
\* probe has yet to ask.
TrueOnce(c, l, pic, waiting) ==
    /\ \A m \in pic.ready \union waiting : c[m] = "out" => l[m] <= pic.age
    /\ \A m \in pic.busy : c[m] # "busy" => l[m] <= pic.age
    /\ \A m \in pic.ready \ (pic.busy \union pic.unread) : c[m] = "busy" => l[m] <= pic.age
    /\ \A m \in pic.of \ (pic.ready \union waiting) : c[m] # "out" => l[m] <= pic.age

LoadTyped ==
    /\ cond \in [Instances -> {"out", "idle", "busy"}]
    /\ lasted \in [Instances -> 0..Long]
    /\ Pictured(snap)
    /\ probe = [at |-> probe.at, list |-> probe.list, todo |-> probe.todo, got |-> probe.got]
    /\ probe.at \in {"idle", "running", "slots", "store", "stored"}
    /\ Pictured(probe.got)

SnapTrue == snap.ready # {} => TrueOnce(cond, lasted, snap, {})

ProbeTrue ==
    /\ probe.at = "running" => /\ probe.list \in Seq(Instances) /\ probe.got.of = ToSet(probe.list)
                               /\ probe.got.ready = {} /\ probe.got.busy = {} /\ probe.todo = {}
    /\ probe.at = "slots" => /\ probe.list \in Seq(Instances) /\ probe.todo \subseteq ToSet(probe.list)
                             /\ TrueOnce(cond, lasted, probe.got, probe.todo)
    /\ probe.at = "store" /\ probe.got.ready # {} => TrueOnce(cond, lasted, probe.got, {})

LoadInv == LoadTyped /\ SnapTrue /\ ProbeTrue

\* The bounds on ages are numbers.
LEMMA LoadNumbers == FreshFor \in Nat /\ UsableFor \in Nat /\ Long \in Nat /\ Long = UsableFor + 1
  <1>1. {FreshFor, UsableFor, ProbeTotal, Shifts} \subseteq Nat  BY PoolLoadAssumption, Zenon
  <1>2. FreshFor \in Nat /\ UsableFor \in Nat  BY <1>1
  <1> QED  BY <1>2 DEF Long

\* An age stays within its bound as it grows.
LEMMA LaterIsTyped == ASSUME NEW a \in 0..Long PROVE Later(a) \in 0..Long
  BY LoadNumbers DEF Later

\* A picture stays true of what it was true of, while the instances it names
\* stay as they are or have just changed.
LEMMA StaysTrue ==
    ASSUME NEW c, NEW d, NEW l, NEW k, NEW pic, NEW new, NEW waiting,
           pic.of \subseteq Instances, pic.ready \subseteq Instances, pic.busy \subseteq Instances,
           waiting \subseteq Instances,
           new.of = pic.of, new.ready = pic.ready, new.busy = pic.busy, new.unread = pic.unread,
           \A m \in Instances : \/ k[m] <= new.age
                                \/ d[m] = c[m] /\ (l[m] <= pic.age => k[m] <= new.age),
           TrueOnce(c, l, pic, waiting)
    PROVE  TrueOnce(d, k, new, waiting)
  BY DEF TrueOnce

\* The earliest of the members that cost least.
LEMMA ChosenIsLeast ==
    ASSUME NEW list \in Lists, NEW cost, \A m \in ToSet(list) : cost[m] \in Nat
    PROVE  /\ Least(list, cost) \in ToSet(list)
           /\ \A m \in ToSet(list) : cost[Least(list, cost)] <= cost[m]
  <1>1. list \in Seq(Instances) /\ list # <<>> /\ DOMAIN list = 1..Len(list) /\ 1 \in DOMAIN list
    BY PoolLoadAssumption
  <1>2. \A i \in DOMAIN list : list[i] \in ToSet(list) /\ cost[list[i]] \in Nat  BY DEF ToSet
  <1> DEFINE C == {cost[list[i]] : i \in DOMAIN list}
  <1>3. PICK n \in C : \A k \in C : n <= k
    <2>1. C \in SUBSET Nat /\ C # {}  BY <1>1, <1>2
    <2> HIDE DEF C
    <2> QED  BY <2>1, LeastNat
  <1> DEFINE I == {i \in DOMAIN list : cost[list[i]] = n}
  <1>4. PICK i \in I : \A j \in I : i <= j
    <2>1. I \in SUBSET Nat /\ I # {}  BY <1>1, <1>3
    <2> HIDE DEF I
    <2> QED  BY <2>1, LeastNat
  <1>5. i \in DOMAIN list /\ cost[list[i]] = n /\ n \in Nat /\ \A j \in DOMAIN list : n <= cost[list[j]]
    BY <1>2, <1>3, <1>4
  <1>6. ASSUME NEW j \in 1..(i - 1) PROVE cost[list[i]] < cost[list[j]]
    <2>1. j \in DOMAIN list /\ j < i /\ i \in Nat /\ j \in Nat  BY <1>1, <1>5
    <2>2. j \notin I  BY <1>1, <1>4, <1>5, <2>1
    <2> QED  BY <1>2, <1>5, <2>1, <2>2
  <1>7. \E h \in DOMAIN list :
            /\ \A j \in DOMAIN list : cost[list[h]] <= cost[list[j]]
            /\ \A j \in 1..(h - 1) : cost[list[h]] < cost[list[j]]
    BY <1>5, <1>6
  <1> DEFINE h == CHOOSE g \in DOMAIN list :
                     /\ \A j \in DOMAIN list : cost[list[g]] <= cost[list[j]]
                     /\ \A j \in 1..(g - 1) : cost[list[g]] < cost[list[j]]
  <1>8. h \in DOMAIN list /\ \A j \in DOMAIN list : cost[list[h]] <= cost[list[j]]  BY <1>7
  <1>9. Least(list, cost) = list[h]  BY DEF Least
  <1> HIDE DEF h
  <1> QED  BY <1>8, <1>9 DEF ToSet

\* A member that is there scores less than one that is not.
LEMMA Sighted ==
    ASSUME LoadInv, NEW list \in Lists, NEW load \in [ToSet(list) -> Loads], PlaceCold(list, load)
    PROVE  PlacedBySight'
  <1> DEFINE cost == [m \in ToSet(list) |-> Score(m, load)]
             z == Least(list, cost)
  <1>0. /\ cond' = cond /\ lasted' = lasted /\ snap' = snap
        /\ placed' = IF InUse(list) THEN [why |-> "slots", list |-> list, load |-> load, member |-> z]
                     ELSE [why |-> "inflight", list |-> list, load |-> load, member |-> Least(list, load)]
    BY DEF PlaceCold
  <1>1. CASE ~InUse(list)
    <2>1. placed'.why = "inflight"  BY <1>0, <1>1
    <2> QED  BY <2>1 DEF PlacedBySight
  <1>2. CASE InUse(list)
    <2>1. placed'.why = "slots" /\ placed'.list = list /\ placed'.load = load /\ placed'.member = z
      BY <1>0, <1>2
    <2>2. \A m \in ToSet(list) : load[m] \in Nat /\ load[m] + 8 < 8 * NotResident
      BY PoolLoadAssumption
    <2>3. \A m \in ToSet(list) :
             /\ cost[m] \in Nat
             /\ m \notin snap.ready => cost[m] = 8 * NotResident + load[m]
             /\ m \in snap.ready /\ m \in snap.busy => cost[m] = 8 + load[m]
             /\ m \in snap.ready /\ m \notin snap.busy => cost[m] = load[m]
      BY <2>2 DEF Score, NotResident
    <2>4. z \in ToSet(list) /\ \A m \in ToSet(list) : cost[z] <= cost[m]
      <3> HIDE DEF cost
      <3> QED  BY <2>3, ChosenIsLeast
    <2> HIDE DEF cost, z
    <2>5. PICK r \in ToSet(list) : r \in snap.ready  BY <1>2 DEF InUse
    <2>6. z \in snap.ready
      <3>1. cost[r] <= load[r] + 8 /\ cost[r] \in Nat /\ load[r] \in Nat /\ load[r] + 8 < 8 * NotResident
        BY <2>2, <2>3, <2>5
      <3>2. z \notin snap.ready => cost[z] >= 8 * NotResident  BY <2>2, <2>3, <2>4 DEF NotResident
      <3>3. cost[z] <= cost[r] /\ cost[z] \in Nat /\ NotResident \in Nat  BY <2>3, <2>4, <2>5 DEF NotResident
      <3> HIDE DEF NotResident
      <3> QED  BY <3>1, <3>2, <3>3
    <2>7. TrueOnce(cond, lasted, snap, {}) /\ snap.age <= UsableFor /\ snap.age \in Nat
          /\ Long = UsableFor + 1 /\ UsableFor \in Nat
      BY <1>2, <2>5, LoadNumbers DEF LoadInv, SnapTrue, InUse, LoadTyped, Pictured
    <2>8. ~(Long <= snap.age)  BY <2>7
    <2>9. ~(cond[z] = "out" /\ lasted[z] = Long)  BY <2>6, <2>7, <2>8 DEF TrueOnce
    <2>10. ASSUME NEW m \in ToSet(list) \cap snap.of, cond[m] = "idle", lasted[m] = Long,
                  cond[z] = "busy", lasted[z] = Long, z \notin snap.unread
           PROVE  load[m] > load[z]
      <3>1. z \in snap.busy  BY <2>6, <2>7, <2>8, <2>10 DEF TrueOnce
      <3>2. m \in snap.ready  BY <2>7, <2>8, <2>10 DEF TrueOnce
      <3>3. m \notin snap.busy  BY <2>7, <2>8, <2>10 DEF TrueOnce
      <3>4. cost[z] = 8 + load[z] /\ cost[m] = load[m] /\ cost[z] <= cost[m]
        BY <2>3, <2>4, <2>6, <2>10, <3>1, <3>2, <3>3
      <3> QED  BY <2>2, <2>4, <3>4
    <2> QED  BY <1>0, <2>1, <2>9, <2>10 DEF PlacedBySight
  <1> QED  BY <1>1, <1>2

\* The one asked next is one that is still to be asked.
LEMMA NextIsToBeAsked ==
    ASSUME probe.list \in Seq(Instances), probe.todo \subseteq ToSet(probe.list), probe.todo # {}
    PROVE  NextAsked \in probe.todo
  <1> DEFINE list == probe.list
             I == {i \in DOMAIN list : list[i] \in probe.todo}
  <1>1. DOMAIN list = 1..Len(list) /\ Len(list) \in Nat  OBVIOUS
  <1>2. PICK i \in I : \A j \in I : i <= j
    <2>1. I \in SUBSET Nat  BY <1>1
    <2>2. I # {}  BY DEF ToSet
    <2> HIDE DEF I
    <2> QED  BY <2>1, <2>2, LeastNat
  <1>3. ASSUME NEW j \in 1..(i - 1) PROVE list[j] \notin probe.todo
    <2>1. i \in 1..Len(list)  BY <1>1, <1>2
    <2>2. j \in DOMAIN list /\ ~(i <= j)  BY <1>1, <2>1
    <2> QED  BY <1>2, <2>2
  <1>4. \E h \in DOMAIN list : list[h] \in probe.todo /\ \A j \in 1..(h - 1) : list[j] \notin probe.todo
    BY <1>2, <1>3
  <1> DEFINE h == CHOOSE g \in DOMAIN list :
                     list[g] \in probe.todo /\ \A j \in 1..(g - 1) : list[j] \notin probe.todo
  <1>5. list[h] \in probe.todo  BY <1>4
  <1>6. NextAsked = list[h]  BY DEF NextAsked
  <1> QED  BY <1>5, <1>6

\* A placement starts a probe that has asked nobody, or leaves the one there is.
LEMMA PlaceKeeps ==
    ASSUME LoadInv, NEW list \in Lists, NEW load \in [ToSet(list) -> Loads], PlaceCold(list, load)
    PROVE  LoadInv'
  <1>0. cond' = cond /\ lasted' = lasted /\ snap' = snap /\ probe' = Refreshed(list)  BY DEF PlaceCold
  <1>1. list \in Seq(Instances) /\ ToSet(list) \subseteq Instances  BY PoolLoadAssumption DEF ToSet
  <1>2. CASE probe' = probe
    BY <1>0, <1>2 DEF LoadInv, LoadTyped, SnapTrue, ProbeTrue, TrueOnce, Pictured
  <1>3. CASE probe' # probe
    <2>1. probe' = [at |-> "running", list |-> list, todo |-> {},
                    got |-> [of |-> ToSet(list), ready |-> {}, busy |-> {}, unread |-> {}, age |-> 0]]
      BY <1>0, <1>3 DEF Refreshed, NoSnapshot
    <2>2. Pictured(probe'.got)
      <3>1. probe'.got = [of |-> ToSet(list), ready |-> {}, busy |-> {}, unread |-> {}, age |-> 0]
        BY <2>1
      <3> QED  BY <1>1, <3>1 DEF Pictured
    <2>3. probe'.at = "running"
          /\ probe' = [at |-> probe'.at, list |-> probe'.list, todo |-> probe'.todo, got |-> probe'.got]
      BY <2>1
    <2>4. LoadTyped'  BY <1>0, <2>2, <2>3 DEF LoadInv, LoadTyped, Pictured
    <2>5. SnapTrue'  BY <1>0 DEF LoadInv, SnapTrue, TrueOnce
    <2>6. ProbeTrue'  BY <1>1, <2>1 DEF ProbeTrue
    <2> QED  BY <2>4, <2>5, <2>6 DEF LoadInv
  <1> QED  BY <1>2, <1>3

\* Those that are there are asked next; the others are out.
LEMMA AskKeeps ==
    ASSUME LoadInv, AskRunning
    PROVE  LoadInv'
  <1>1. probe.at = "running" /\ cond' = cond /\ lasted' = lasted /\ snap' = snap  BY DEF AskRunning, Goes
  <1>2. /\ probe.list \in Seq(Instances) /\ probe.got.of = ToSet(probe.list) /\ Pictured(probe.got)
        /\ probe.got.ready = {} /\ probe.got.busy = {}
        /\ probe = [at |-> probe.at, list |-> probe.list, todo |-> probe.todo, got |-> probe.got]
    BY <1>1 DEF LoadInv, LoadTyped, ProbeTrue
  <1>3. probe' = [at |-> "slots", list |-> probe.list,
                  todo |-> {m \in ToSet(probe.list) : cond[m] # "out"}, got |-> probe.got]
    <2>1. probe' = [probe EXCEPT !.at = "slots", !.todo = {m \in ToSet(probe.list) : cond[m] # "out"}]
      BY DEF AskRunning, Goes
    <2> DEFINE T == {m \in ToSet(probe.list) : cond[m] # "out"}
               u == [probe EXCEPT !.at = "slots"]
    <2>2. u = [at |-> "slots", list |-> probe.list, todo |-> probe.todo, got |-> probe.got]  BY <1>2
    <2>3. probe' = [u EXCEPT !.todo = T]  BY <2>1
    <2> HIDE DEF u, T
    <2>4. probe' = [at |-> "slots", list |-> probe.list, todo |-> T, got |-> probe.got]  BY <2>2, <2>3
    <2> QED  BY <2>4 DEF T
  <1>4. LoadTyped'  BY <1>1, <1>2, <1>3 DEF LoadInv, LoadTyped, Pictured
  <1>5. SnapTrue'  BY <1>1 DEF LoadInv, SnapTrue, TrueOnce
  <1>6. ProbeTrue'  BY <1>1, <1>2, <1>3 DEF ProbeTrue, TrueOnce
  <1> QED  BY <1>4, <1>5, <1>6 DEF LoadInv

\* A list that did not come leaves a picture with nobody in it.
LEMMA FailKeeps ==
    ASSUME LoadInv, RunningFails
    PROVE  LoadInv'
  <1>1. probe.at = "running" /\ cond' = cond /\ lasted' = lasted /\ snap' = snap  BY DEF RunningFails, Goes
  <1>2. /\ probe.got.ready = {} /\ Pictured(probe.got)
        /\ probe = [at |-> probe.at, list |-> probe.list, todo |-> probe.todo, got |-> probe.got]
    BY <1>1 DEF LoadInv, LoadTyped, ProbeTrue
  <1>3. probe' = [at |-> "store", list |-> probe.list, todo |-> probe.todo, got |-> probe.got]
    BY <1>2 DEF RunningFails, Goes
  <1>4. LoadTyped'  BY <1>1, <1>2, <1>3 DEF LoadInv, LoadTyped, Pictured
  <1>5. SnapTrue'  BY <1>1 DEF LoadInv, SnapTrue, TrueOnce
  <1>6. ProbeTrue'  BY <1>2, <1>3 DEF ProbeTrue
  <1> QED  BY <1>4, <1>5, <1>6 DEF LoadInv

\* When all have been asked, the picture is ready to be kept.
LEMMA AskedKeeps ==
    ASSUME LoadInv, SlotsAsked
    PROVE  LoadInv'
  <1>1. /\ probe.at = "slots" /\ probe.todo = {} /\ cond' = cond /\ lasted' = lasted /\ snap' = snap
    BY DEF SlotsAsked, Goes
  <1>2. /\ TrueOnce(cond, lasted, probe.got, {}) /\ Pictured(probe.got)
        /\ probe = [at |-> probe.at, list |-> probe.list, todo |-> probe.todo, got |-> probe.got]
    BY <1>1 DEF LoadInv, LoadTyped, ProbeTrue
  <1>3. probe' = [at |-> "store", list |-> probe.list, todo |-> probe.todo, got |-> probe.got]
    BY <1>2 DEF SlotsAsked, Goes
  <1>4. LoadTyped'  BY <1>1, <1>2, <1>3 DEF LoadInv, LoadTyped, Pictured
  <1>5. SnapTrue'  BY <1>1 DEF LoadInv, SnapTrue, TrueOnce
  <1>6. ProbeTrue'  BY <1>1, <1>2, <1>3 DEF ProbeTrue, TrueOnce
  <1> QED  BY <1>4, <1>5, <1>6 DEF LoadInv

\* What an instance answers about its slots is true of it now, and the question
\* may have woken it now.
LEMMA SlotsKeep ==
    ASSUME LoadInv, NEW reads \in BOOLEAN, AskSlots(reads)
    PROVE  LoadInv'
  <1> DEFINE m == NextAsked
             got == probe.got
             B == IF reads /\ cond[m] = "busy" THEN got.busy \union {m} ELSE got.busy
             U == IF reads THEN got.unread ELSE got.unread \union {m}
             new == [of |-> got.of, ready |-> got.ready \union {m}, busy |-> B, unread |-> U, age |-> got.age]
  <1>1. probe.at = "slots" /\ probe.todo # {} /\ snap' = snap  BY DEF AskSlots, Goes
  <1>2. /\ probe.list \in Seq(Instances) /\ probe.todo \subseteq ToSet(probe.list)
        /\ TrueOnce(cond, lasted, got, probe.todo) /\ Pictured(got)
        /\ probe = [at |-> probe.at, list |-> probe.list, todo |-> probe.todo, got |-> got]
        /\ cond \in [Instances -> {"out", "idle", "busy"}] /\ lasted \in [Instances -> 0..Long]
    BY <1>1 DEF LoadInv, LoadTyped, ProbeTrue
  <1>3. m \in probe.todo /\ m \in Instances
    <2>1. NextAsked \in probe.todo  BY <1>1, <1>2, NextIsToBeAsked
    <2>2. ToSet(probe.list) \subseteq Instances  BY <1>2 DEF ToSet
    <2> QED  BY <1>2, <2>1, <2>2
  <1>4. \/ cond' = cond /\ lasted' = lasted /\ (cond[m] # "out" \/ ~reads)
        \/ cond[m] = "out" /\ cond' = [cond EXCEPT ![m] = "idle"] /\ lasted' = [lasted EXCEPT ![m] = 0]
    BY DEF AskSlots
  <1>5. probe' = [at |-> "slots", list |-> probe.list, todo |-> probe.todo \ {m}, got |-> new]
    <2> DEFINE note == [got EXCEPT !.ready = @ \union {m},
                                   !.busy = IF reads /\ cond[m] = "busy" THEN @ \union {m} ELSE @,
                                   !.unread = IF reads THEN @ ELSE @ \union {m}]
    <2>1. probe' = [probe EXCEPT !.todo = @ \ {m}, !.got = note]  BY DEF AskSlots, Goes
    <2>2. note = new
      <3>1. got = [of |-> got.of, ready |-> got.ready, busy |-> got.busy, unread |-> got.unread,
                   age |-> got.age]
        BY <1>2 DEF Pictured
      <3> DEFINE R == got.ready \union {m}
                 u == [got EXCEPT !.ready = R]
                 v == [u EXCEPT !.busy = B]
      <3>2. u = [of |-> got.of, ready |-> R, busy |-> got.busy, unread |-> got.unread, age |-> got.age]
        <4> HIDE DEF R, got
        <4> QED  BY <3>1
      <3>3. note = [[[got EXCEPT !.ready = R] EXCEPT !.busy = IF reads /\ cond[m] = "busy" THEN @ \union {m} ELSE @]
                       EXCEPT !.unread = IF reads THEN @ ELSE @ \union {m}]
        OBVIOUS
      <3>4. [u EXCEPT !.busy = IF reads /\ cond[m] = "busy" THEN @ \union {m} ELSE @] = v
        BY <3>2
      <3>5. v = [of |-> got.of, ready |-> R, busy |-> B, unread |-> got.unread, age |-> got.age]
        <4> HIDE DEF R, B, u, got
        <4> QED  BY <3>2
      <3>6. note = [v EXCEPT !.unread = IF reads THEN @ ELSE @ \union {m}]  BY <3>3, <3>4
      <3> HIDE DEF v, B, note, u
      <3>7. note = [of |-> got.of, ready |-> R, busy |-> B,
                    unread |-> IF reads THEN v.unread ELSE v.unread \union {m}, age |-> got.age]
        BY <3>5, <3>6
      <3>8. v.unread = got.unread  BY <3>5
      <3> QED  BY <3>7, <3>8
    <2> DEFINE T == probe.todo \ {m}
               w == [probe EXCEPT !.todo = T]
    <2>3. w = [at |-> "slots", list |-> probe.list, todo |-> T, got |-> got]
      <3> HIDE DEF T
      <3> QED  BY <1>1, <1>2
    <2>4. probe' = [w EXCEPT !.got = note]  BY <2>1
    <2> HIDE DEF w, note, new, T, got
    <2>5. probe' = [at |-> "slots", list |-> probe.list, todo |-> T, got |-> note]  BY <2>3, <2>4
    <2> QED  BY <2>2, <2>5 DEF T
  <1>6. cond' \in [Instances -> {"out", "idle", "busy"}] /\ lasted' \in [Instances -> 0..Long]
    <2>1. CASE cond' = cond /\ lasted' = lasted  BY <1>2, <2>1
    <2>2. CASE cond' = [cond EXCEPT ![m] = "idle"] /\ lasted' = [lasted EXCEPT ![m] = 0]
      <3>1. 0 \in 0..Long  BY LoadNumbers
      <3> HIDE DEF m
      <3> QED  BY <1>2, <1>3, <2>2, <3>1
    <2> QED  BY <1>4, <2>1, <2>2
  <1>7. Pictured(new)  BY <1>2, <1>3 DEF Pictured
  <1>8. \A i \in Instances : i # m => cond'[i] = cond[i] /\ lasted'[i] = lasted[i]
    BY <1>2, <1>4
  <1>9. lasted'[m] <= got.age \/ (cond'[m] = cond[m] /\ lasted'[m] = lasted[m] /\ (cond[m] # "out" \/ ~reads))
    BY <1>2, <1>3, <1>4 DEF Pictured
  <1>10. TrueOnce(cond', lasted', new, probe.todo \ {m})
    <2>1. /\ new.ready \union (probe.todo \ {m}) = got.ready \union probe.todo
          /\ new.of = got.of /\ new.age = got.age /\ new.busy = B /\ new.unread = U
          /\ new.ready = got.ready \union {m}
      BY <1>3
    <2>2. /\ got.of \subseteq Instances /\ got.ready \subseteq Instances /\ got.busy \subseteq Instances
          /\ probe.todo \subseteq Instances
      BY <1>2 DEF Pictured, ToSet
    <2> HIDE DEF new
    <2>3. \A i \in new.ready \union (probe.todo \ {m}) : cond'[i] = "out" => lasted'[i] <= new.age
      BY <1>2, <1>3, <1>8, <1>9, <2>1, <2>2 DEF TrueOnce
    <2>4. \A i \in new.busy : cond'[i] # "busy" => lasted'[i] <= new.age
      BY <1>2, <1>3, <1>8, <1>9, <2>1, <2>2 DEF TrueOnce
    <2>5. \A i \in new.ready \ (new.busy \union new.unread) : cond'[i] = "busy" => lasted'[i] <= new.age
      <3> SUFFICES ASSUME NEW i \in new.ready \ (new.busy \union new.unread), cond'[i] = "busy"
                   PROVE  lasted'[i] <= new.age
        OBVIOUS
      <3>1. CASE i = m
        <4>1. reads  BY <2>1, <3>1
        <4>2. cond[m] # "busy"  BY <2>1, <3>1, <4>1
        <4> QED  BY <1>4, <1>9, <2>1, <3>1, <4>2
      <3>2. CASE i # m
        <4>1. i \in got.ready \ (got.busy \union got.unread)  BY <2>1, <3>2
        <4> QED  BY <1>2, <1>8, <2>1, <2>2, <3>2, <4>1 DEF TrueOnce
      <3> QED  BY <3>1, <3>2
    <2>6. \A i \in new.of \ (new.ready \union (probe.todo \ {m})) : cond'[i] # "out" => lasted'[i] <= new.age
      BY <1>2, <1>3, <1>8, <2>1, <2>2 DEF TrueOnce
    <2> QED  BY <2>3, <2>4, <2>5, <2>6 DEF TrueOnce
  <1>11. LoadTyped'
    <2> HIDE DEF new
    <2> QED  BY <1>1, <1>5, <1>6, <1>7 DEF LoadInv, LoadTyped, Pictured
  <1>12. SnapTrue'
    <2>1. snap.ready # {} => \A i \in Instances : \/ lasted'[i] <= snap.age
                                                  \/ cond'[i] = cond[i] /\ lasted'[i] = lasted[i]
      BY <1>2, <1>3, <1>4 DEF LoadInv, LoadTyped, Pictured
    <2>2. snap.ready # {} => TrueOnce(cond', lasted', snap, {})
      BY <2>1, StaysTrue DEF LoadInv, LoadTyped, Pictured, SnapTrue
    <2> QED  BY <1>1, <2>2 DEF SnapTrue, TrueOnce
  <1>13. ProbeTrue'
    <2> HIDE DEF new
    <2>1. probe'.at = "slots" /\ probe'.list = probe.list /\ probe'.todo = probe.todo \ {m} /\ probe'.got = new
      BY <1>5
    <2>2. TrueOnce(cond', lasted', probe'.got, probe'.todo)  BY <1>10, <2>1
    <2> QED  BY <1>2, <2>1, <2>2 DEF ProbeTrue, TrueOnce
  <1> QED  BY <1>11, <1>12, <1>13 DEF LoadInv

\* The picture that is kept is the one the probe made.
LEMMA SnapshotKeeps ==
    ASSUME LoadInv, StoreSnapshot
    PROVE  LoadInv'
  <1>1. /\ probe.at = "store" /\ cond' = cond /\ lasted' = lasted /\ snap' = probe.got
        /\ probe' = [at |-> "stored", list |-> <<>>, todo |-> {}, got |-> NoSnapshot]
    BY DEF StoreSnapshot, NoProbe
  <1>2. Pictured(NoSnapshot)  BY LoadNumbers DEF Pictured, NoSnapshot
  <1>3. LoadTyped'  BY <1>1, <1>2 DEF LoadInv, LoadTyped, Pictured
  <1>4. SnapTrue'  BY <1>1 DEF LoadInv, ProbeTrue, SnapTrue, TrueOnce
  <1>5. ProbeTrue'  BY <1>1 DEF ProbeTrue
  <1> QED  BY <1>3, <1>4, <1>5 DEF LoadInv

\* The mark of the refresh says nothing of the picture.
LEMMA DoneKeeps ==
    ASSUME LoadInv, ProbeDone
    PROVE  LoadInv'
  <1>1. /\ cond' = cond /\ lasted' = lasted /\ snap' = snap
        /\ probe' = [at |-> "idle", list |-> <<>>, todo |-> {}, got |-> NoSnapshot]
    BY DEF ProbeDone, Goes, NoProbe
  <1>2. Pictured(NoSnapshot)  BY LoadNumbers DEF Pictured, NoSnapshot
  <1>3. LoadTyped'  BY <1>1, <1>2 DEF LoadInv, LoadTyped, Pictured
  <1>4. SnapTrue'  BY <1>1 DEF LoadInv, SnapTrue, TrueOnce
  <1>5. ProbeTrue'  BY <1>1 DEF ProbeTrue
  <1> QED  BY <1>3, <1>4, <1>5 DEF LoadInv

\* An instance that changes has been so for no time at all.
LEMMA ShiftKeeps ==
    ASSUME LoadInv, NEW m \in Instances, NEW to \in {"out", "idle", "busy"}, Shift(m, to)
    PROVE  LoadInv'
  <1>1. /\ snap' = snap /\ probe' = probe
        /\ cond' = [cond EXCEPT ![m] = to] /\ lasted' = [lasted EXCEPT ![m] = 0]
    BY DEF Shift
  <1>2. /\ cond \in [Instances -> {"out", "idle", "busy"}] /\ lasted \in [Instances -> 0..Long]
        /\ Pictured(snap) /\ Pictured(probe.got)
    BY DEF LoadInv, LoadTyped
  <1>3. cond' \in [Instances -> {"out", "idle", "busy"}] /\ lasted' \in [Instances -> 0..Long]
    BY <1>1, <1>2, LoadNumbers
  <1>4. \A i \in Instances : \/ lasted'[i] = 0
                             \/ cond'[i] = cond[i] /\ lasted'[i] = lasted[i]
    BY <1>1, <1>2
  <1>5. ASSUME NEW pic, NEW waiting \in SUBSET Instances, Pictured(pic), TrueOnce(cond, lasted, pic, waiting)
        PROVE  TrueOnce(cond', lasted', pic, waiting)
    <2>1. \A i \in Instances : \/ lasted'[i] <= pic.age
                               \/ cond'[i] = cond[i] /\ (lasted[i] <= pic.age => lasted'[i] <= pic.age)
      BY <1>4, <1>5 DEF Pictured
    <2> QED  BY <1>5, <2>1, StaysTrue DEF Pictured
  <1>6. LoadTyped'  BY <1>1, <1>3 DEF LoadInv, LoadTyped, Pictured
  <1>7. SnapTrue'
    <2>1. snap.ready # {} => TrueOnce(cond', lasted', snap, {})  BY <1>2, <1>5 DEF LoadInv, SnapTrue
    <2> QED  BY <1>1, <2>1 DEF SnapTrue, TrueOnce
  <1>8. ProbeTrue'
    <2>1. probe.at = "slots" => /\ probe.todo \in SUBSET Instances
                                /\ TrueOnce(cond', lasted', probe.got, probe.todo)
      <3>1. probe.at = "slots" => probe.todo \in SUBSET Instances  BY DEF LoadInv, ProbeTrue, ToSet
      <3> QED  BY <1>2, <1>5, <3>1 DEF LoadInv, ProbeTrue
    <2>2. probe.at = "store" /\ probe.got.ready # {} => TrueOnce(cond', lasted', probe.got, {})
      BY <1>2, <1>5 DEF LoadInv, ProbeTrue
    <2> QED  BY <1>1, <2>1, <2>2 DEF LoadInv, ProbeTrue, TrueOnce
  <1> QED  BY <1>6, <1>7, <1>8 DEF LoadInv

\* A tick makes what is true of an instance and the picture older together.
LEMMA LoadTickKeeps ==
    ASSUME LoadInv, TickLoad
    PROVE  LoadInv'
  <1>1. /\ cond' = cond /\ lasted' = [m \in Instances |-> Later(lasted[m])]
        /\ snap' = [snap EXCEPT !.age = Later(snap.age)]
        /\ probe' = IF probe.at = "idle" THEN probe ELSE [probe EXCEPT !.got.age = @ + 1]
        /\ probe.at \notin {"store", "stored"}
    BY DEF TickLoad
  <1>2. /\ cond \in [Instances -> {"out", "idle", "busy"}] /\ lasted \in [Instances -> 0..Long]
        /\ Pictured(snap) /\ Pictured(probe.got)
        /\ probe = [at |-> probe.at, list |-> probe.list, todo |-> probe.todo, got |-> probe.got]
    BY DEF LoadInv, LoadTyped
  <1>3. lasted' \in [Instances -> 0..Long]  BY <1>1, <1>2, LaterIsTyped
  <1>4. /\ snap'.of = snap.of /\ snap'.ready = snap.ready /\ snap'.busy = snap.busy
        /\ snap'.unread = snap.unread /\ snap'.age = Later(snap.age) /\ Pictured(snap')
    <2>1. snap' = [of |-> snap.of, ready |-> snap.ready, busy |-> snap.busy, unread |-> snap.unread,
                   age |-> Later(snap.age)]
      <3> DEFINE a == Later(snap.age)
      <3>1. snap' = [snap EXCEPT !.age = a]  BY <1>1
      <3> HIDE DEF a
      <3>2. snap' = [of |-> snap.of, ready |-> snap.ready, busy |-> snap.busy, unread |-> snap.unread, age |-> a]
        BY <1>2, <3>1 DEF Pictured
      <3> QED  BY <3>2 DEF a
    <2>2. Later(snap.age) \in Nat  BY <1>2, LoadNumbers DEF Later, Pictured
    <2> QED  BY <1>2, <2>1, <2>2 DEF Pictured
  <1>5. probe'.at = probe.at /\ probe'.list = probe.list /\ probe'.todo = probe.todo
        /\ probe' = [at |-> probe'.at, list |-> probe'.list, todo |-> probe'.todo, got |-> probe'.got]
        /\ probe'.got.of = probe.got.of /\ probe'.got.ready = probe.got.ready
        /\ probe'.got.busy = probe.got.busy /\ probe'.got.unread = probe.got.unread /\ Pictured(probe'.got)
        /\ (probe.at # "idle" => probe'.got.age = probe.got.age + 1)
    <2>1. CASE probe.at = "idle"
      BY <1>1, <1>2, <2>1
    <2>2. CASE probe.at # "idle"
      <3> DEFINE g == [probe.got EXCEPT !.age = probe.got.age + 1]
      <3>1. probe' = [probe EXCEPT !.got = g]  BY <1>1, <1>2, <2>2
      <3>2. g = [of |-> probe.got.of, ready |-> probe.got.ready, busy |-> probe.got.busy,
                 unread |-> probe.got.unread, age |-> probe.got.age + 1]
        BY <1>2 DEF Pictured
      <3> HIDE DEF g
      <3>3. probe' = [at |-> probe.at, list |-> probe.list, todo |-> probe.todo, got |-> g]
        BY <1>2, <3>1
      <3> QED  BY <1>2, <3>2, <3>3 DEF Pictured
    <2> QED  BY <2>1, <2>2
  <1>6. \A m \in Instances : lasted[m] \in 0..Long /\ lasted'[m] = Later(lasted[m])  BY <1>1, <1>2
  <1>7. \A m \in Instances : lasted[m] <= snap.age => lasted'[m] <= snap'.age
    BY <1>2, <1>4, <1>6, LoadNumbers DEF Later, Pictured
  <1>8. probe.at # "idle" => \A m \in Instances : lasted[m] <= probe.got.age => lasted'[m] <= probe'.got.age
    BY <1>2, <1>5, <1>6, LoadNumbers DEF Later, Pictured
  <1>9. LoadTyped'  BY <1>1, <1>2, <1>3, <1>4, <1>5 DEF LoadInv, LoadTyped
  <1>10. SnapTrue'
    <2>1. snap.ready # {} => TrueOnce(cond, lasted', snap', {})
      BY <1>2, <1>4, <1>7, StaysTrue DEF LoadInv, SnapTrue, Pictured
    <2> QED  BY <1>1, <1>4, <2>1 DEF SnapTrue, TrueOnce
  <1>11. ProbeTrue'
    <2>1. probe.at = "slots" => TrueOnce(cond, lasted', probe'.got, probe.todo)
      <3>1. probe.at = "slots" => probe.todo \subseteq Instances  BY DEF LoadInv, ProbeTrue, ToSet
      <3> QED  BY <1>2, <1>5, <1>8, <3>1, StaysTrue DEF LoadInv, ProbeTrue, Pictured
    <2> QED  BY <1>1, <1>5, <2>1 DEF LoadInv, ProbeTrue, TrueOnce
  <1> QED  BY <1>9, <1>10, <1>11 DEF LoadInv

\* Every step keeps the pictures true, and only the placement places.
LEMMA LoadStep ==
    ASSUME LoadInv, PlacedBySight, [PoolLoadNext]_poolLoadVars
    PROVE  LoadInv' /\ PlacedBySight'
  <1>1. ASSUME NEW list \in Lists, NEW load \in [ToSet(list) -> Loads], PlaceCold(list, load)
        PROVE  LoadInv' /\ PlacedBySight'
    BY <1>1, PlaceKeeps, Sighted
  <1>2. placed' = Nowhere => PlacedBySight'  BY DEF PlacedBySight, Nowhere
  <1>3. CASE AskRunning  BY <1>2, <1>3, AskKeeps DEF AskRunning, Goes
  <1>4. CASE RunningFails  BY <1>2, <1>4, FailKeeps DEF RunningFails, Goes
  <1>5. ASSUME NEW reads \in BOOLEAN, AskSlots(reads) PROVE LoadInv' /\ PlacedBySight'
    <2>1. LoadInv'  BY <1>5, SlotsKeep
    <2>2. placed' = Nowhere  BY <1>5 DEF AskSlots, Goes
    <2> QED  BY <1>2, <2>1, <2>2
  <1>6. CASE SlotsAsked  BY <1>2, <1>6, AskedKeeps DEF SlotsAsked, Goes
  <1>7. CASE StoreSnapshot  BY <1>2, <1>7, SnapshotKeeps DEF StoreSnapshot
  <1>8. CASE ProbeDone  BY <1>2, <1>8, DoneKeeps DEF ProbeDone, Goes
  <1>9. ASSUME NEW m \in Instances, NEW to \in {"out", "idle", "busy"}, Shift(m, to)
        PROVE  LoadInv' /\ PlacedBySight'
    <2>1. LoadInv'  BY <1>9, ShiftKeeps
    <2>2. placed' = Nowhere  BY <1>9 DEF Shift
    <2> QED  BY <1>2, <2>1, <2>2
  <1>10. CASE TickLoad  BY <1>2, <1>10, LoadTickKeeps DEF TickLoad
  <1>11. CASE UNCHANGED poolLoadVars
    <2>1. /\ cond' = cond /\ lasted' = lasted /\ snap' = snap /\ probe' = probe /\ placed' = placed
      BY <1>11 DEF poolLoadVars
    <2>2. LoadInv'  BY <2>1 DEF LoadInv, LoadTyped, SnapTrue, ProbeTrue, TrueOnce, Pictured
    <2>3. PlacedBySight'  BY <2>1 DEF PlacedBySight
    <2> QED  BY <2>2, <2>3
  <1> QED
    BY <1>1, <1>3, <1>4, <1>5, <1>6, <1>7, <1>8, <1>9, <1>10, <1>11 DEF PoolLoadNext

\* Every placement by the slots follows what is there (pickColdMember, poolLoad,
\* refreshPoolLoad), for any pools, ages and time limits.
THEOREM SightedAlways == PoolLoadSpec => []PlacedBySight
  <1>1. PoolLoadInit => LoadInv /\ PlacedBySight
    <2> SUFFICES ASSUME PoolLoadInit PROVE LoadInv /\ PlacedBySight  OBVIOUS
    <2>1. /\ cond \in [Instances -> {"out", "idle", "busy"}] /\ lasted = [m \in Instances |-> Long]
          /\ snap = NoSnapshot /\ probe = NoProbe /\ placed = Nowhere
      BY DEF PoolLoadInit
    <2>2. Pictured(NoSnapshot)  BY LoadNumbers DEF Pictured, NoSnapshot
    <2>3. LoadTyped  BY <2>1, <2>2, LoadNumbers DEF LoadTyped, NoProbe
    <2>4. SnapTrue  BY <2>1 DEF SnapTrue, NoSnapshot
    <2>5. ProbeTrue  BY <2>1 DEF ProbeTrue, NoProbe
    <2>6. PlacedBySight  BY <2>1 DEF PlacedBySight, Nowhere
    <2> QED  BY <2>3, <2>4, <2>5, <2>6 DEF LoadInv
  <1>2. LoadInv /\ PlacedBySight /\ [PoolLoadNext]_poolLoadVars => LoadInv' /\ PlacedBySight'
    BY LoadStep
  <1> QED  BY <1>1, <1>2, PTL DEF PoolLoadSpec

-----------------------------------------------------------------------------
(* Skills: the index, its rescan and the fetch.                              *)

\* The next id is beyond every id of the table.
LEMMA NextIdIsNew ==
    ASSUME NEW ids \in SUBSET Nat, IsFiniteSet(ids)
    PROVE  NextId(ids) \in Nat \ {0} /\ \A i \in ids : i < NextId(ids)
  <1>1. CASE ids = {}  BY <1>1 DEF NextId
  <1>2. CASE ids # {}
    <2>1. Max(ids) \in Nat /\ \A y \in ids : y <= Max(ids)  BY <1>2, MaxIsThere
    <2>2. NextId(ids) = 1 + Max(ids)  BY <1>2 DEF NextId
    <2> QED  BY <2>1, <2>2
  <1> QED  BY <1>1, <1>2

\* The rows after a walk: a row keeps its place and its columns, and every file
\* the walk saw has a row of its name (upsertSkill).
LEMMA WalkFiles ==
    ASSUME NEW rows, IsFiniteSet(DOMAIN rows), DOMAIN rows \in SUBSET Nat,
           \A i \in DOMAIN rows : rows[i].path \in Paths,
           NEW ps \in SUBSET Paths
    PROVE  LET t == Upserted(rows, ps)
           IN  /\ IsFiniteSet(DOMAIN t) /\ DOMAIN t \in SUBSET Nat
               /\ \A i \in DOMAIN t : DOMAIN t[i] = {"name", "path"} /\ t[i].path \in Paths
               /\ \A p \in ps : \E j \in DOMAIN t : t[j].path = p /\ t[j].name = files[p]
  <1> DEFINE new == ps \ {rows[i].path : i \in DOMAIN rows}
             upto(p) == {q \in new : q <= p}
             base == NextId(DOMAIN rows) - 1
             id == [p \in new |-> base + Cardinality(upto(p))]
             place(i) == IF i \in DOMAIN rows THEN rows[i].path ELSE CHOOSE q \in new : id[q] = i
             t == Upserted(rows, ps)
  <1>1. t = [i \in DOMAIN rows \cup Range(id) |->
              [name |-> IF place(i) \in ps THEN files[place(i)] ELSE rows[i].name, path |-> place(i)]]
    BY DEF Upserted
  <1>2. base \in Nat /\ \A i \in DOMAIN rows : i <= base
    <2>1. NextId(DOMAIN rows) \in Nat \ {0} /\ \A i \in DOMAIN rows : i < NextId(DOMAIN rows)
      BY NextIdIsNew
    <2> QED  BY <2>1
  <1>3. new \subseteq Paths /\ IsFiniteSet(new) /\ new \subseteq Nat
    BY SkillAssumption, FS_Subset
  <1>4. ASSUME NEW p \in new
        PROVE  IsFiniteSet(upto(p)) /\ Cardinality(upto(p)) \in Nat /\ Cardinality(upto(p)) # 0
    <2>1. upto(p) \in SUBSET new /\ p \in upto(p)  BY <1>3
    <2>2. IsFiniteSet(upto(p))  BY <1>3, <2>1, FS_Subset
    <2> QED  BY <2>1, <2>2, FS_CardinalityType, FS_EmptySet
  <1>5. ASSUME NEW p \in new, NEW q \in new, p < q PROVE id[p] # id[q]
    <2>1. upto(p) \in SUBSET upto(q) /\ q \in upto(q) /\ q \notin upto(p)  BY <1>3, <1>5
    <2>2. Cardinality(upto(p)) # Cardinality(upto(q))  BY <1>4, <2>1, FS_Subset
    <2> HIDE DEF upto
    <2> QED  BY <1>2, <1>4, <2>2
  <1>6. ASSUME NEW p \in new
        PROVE  id[p] \in Nat /\ id[p] \notin DOMAIN rows /\ place(id[p]) = p
    <2>1. id[p] \in Nat /\ id[p] > base
      <3> HIDE DEF upto
      <3> QED  BY <1>2, <1>4
    <2>2. id[p] \notin DOMAIN rows  BY <1>2, <2>1
    <2>3. \A q \in new : id[q] = id[p] => q = p
      <3> HIDE DEF id
      <3>1. ASSUME NEW q \in new, id[q] = id[p] PROVE q = p
        <4>1. ~(p < q) /\ ~(q < p)  BY <1>5, <3>1
        <4> QED  BY <1>3, <4>1
      <3> QED  BY <3>1
    <2> HIDE DEF id
    <2> QED  BY <2>1, <2>2, <2>3
  <1>7. Range(id) = {id[p] : p \in new}  BY DEF Range
  <1>8. ASSUME NEW i \in DOMAIN rows \cup Range(id) PROVE place(i) \in Paths
    <2>1. CASE i \in DOMAIN rows  BY <2>1
    <2>2. CASE i \notin DOMAIN rows
      <3>1. PICK p \in new : i = id[p]  BY <1>7, <2>2
      <3> HIDE DEF id, place
      <3> QED  BY <1>3, <1>6, <3>1
    <2> QED  BY <2>1, <2>2
  <1>9. IsFiniteSet(DOMAIN rows \cup Range(id))
    <2>1. id \in Surjection(new, Range(id))  BY <1>7 DEF Surjection
    <2> HIDE DEF id
    <2>2. IsFiniteSet(Range(id))  BY <1>3, <2>1, FS_Surjection
    <2> QED  BY <2>2, FS_Union
  <1>10. DOMAIN rows \cup Range(id) \in SUBSET Nat
    <2> HIDE DEF id
    <2> QED  BY <1>6, <1>7
  <1>11. ASSUME NEW p \in ps PROVE \E j \in DOMAIN rows \cup Range(id) : place(j) = p
    <2>1. CASE \E i \in DOMAIN rows : rows[i].path = p  BY <2>1
    <2>2. CASE p \in new
      <3> HIDE DEF id, place
      <3>1. id[p] \in Range(id)  BY <1>7, <2>2
      <3> QED  BY <1>6, <2>2, <3>1
    <2> QED  BY <1>11, <2>1, <2>2
  <1> HIDE DEF id, place, new, base
  <1> QED  BY <1>1, <1>8, <1>9, <1>10, <1>11


\* The rows and the records of the scan and of the fetch are what the code
\* keeps; an id is a number, a row's place one of those that are walked.
RowsHeld ==
    /\ IsFiniteSet(DOMAIN skills) /\ DOMAIN skills \subseteq Nat
    /\ \A i \in DOMAIN skills : DOMAIN skills[i] = {"name", "path"} /\ skills[i].path \in Paths
    /\ DOMAIN scan = {"stage", "present", "all", "rest", "kept", "clash"}
    /\ DOMAIN fetch = {"stage", "target", "name", "path", "had", "out"}
    /\ fetch.stage \in {"read", "look", "again"} => fetch.path \in Paths /\ fetch.out = 0

\* An assignment by which a target still has, after the statement at hand, the
\* name that the walk found assigned to it.
Bears(r, a) ==
    /\ r[2] \in DOMAIN skills /\ a = <<r[1], scan.all[r[2]].name>>
    /\ scan.stage = "delete" => r[2] # Next1

\* What the walk found of an assigned name is still so.
Followed(a) ==
    /\ \E j \in DOMAIN scan.all : scan.all[j].name = a[2] /\ scan.all[j].path \in scan.present
    /\ \A j \in DOMAIN skills : scan.all[j].name = a[2] => skills[j].name = a[2]
    /\ a[2] \in scan.clash \/ \E r \in direct : Bears(r, a)

\* A rescan between its statements: the rows are those of the walk but for the
\* deleted ones, which are none that the walk saw.
Walked ==
    /\ DOMAIN skills \subseteq DOMAIN scan.all /\ DOMAIN scan.all \subseteq Nat
    /\ \A i \in scan.rest : i \in DOMAIN scan.all /\ scan.all[i].path \notin scan.present
    /\ \A j \in DOMAIN scan.all : scan.all[j].path \in scan.present => j \in DOMAIN skills
    /\ scan.stage = "delete" => scan.rest # {}
    /\ \A a \in scan.kept : Followed(a)

ScanHeld ==
    \/ scan.stage \in {"idle", "walk"}
    \/ scan.stage \in {"prune", "delete"} /\ Walked


\* The statement at hand is for one of the rows that are left.
LEMMA NextIsLeft ==
    ASSUME Walked, scan.rest # {}
    PROVE  Next1 \in scan.rest
  <1>1. scan.rest \in SUBSET Nat  BY DEF Walked
  <1>2. \E n \in scan.rest : \A m \in scan.rest : n <= m  BY <1>1, LeastNat
  <1> QED  BY <1>2 DEF Next1, Min

\* What touches neither rows nor assignments nor the scan leaves both as they are.
LEMMA NothingScanned ==
    ASSUME ScanHeld, UNCHANGED <<skills, direct, scan>>
    PROVE  ScanHeld'
  <1> USE DEF ScanHeld, Walked, Followed, Bears, Next1
  <1> QED  OBVIOUS

\* An admin who saves a target's assignments settles what it is to have.
LEMMA OthersKept ==
    ASSUME ScanHeld, RowsHeld, skills' = skills, NEW K \in SUBSET scan.kept,
           scan' = [scan EXCEPT !.kept = K],
           \A a \in K, r \in direct : a[1] = r[1] => r \in direct'
    PROVE  ScanHeld'
  <1>1. /\ scan'.stage = scan.stage /\ scan'.present = scan.present /\ scan'.all = scan.all
        /\ scan'.rest = scan.rest /\ scan'.kept = K /\ scan'.clash = scan.clash
    BY DEF RowsHeld
  <1>2. CASE scan.stage \in {"idle", "walk"}  BY <1>1, <1>2 DEF ScanHeld
  <1>3. CASE scan.stage \notin {"idle", "walk"}
    <2>1. Walked /\ scan'.stage \in {"prune", "delete"}  BY <1>1, <1>3 DEF ScanHeld
    <2>2. ASSUME NEW a \in K PROVE Followed(a)'
      <3>1. Followed(a)  BY <2>1 DEF Walked
      <3>2. ASSUME NEW r \in direct, Bears(r, a) PROVE r \in direct' /\ Bears(r, a)'
        <4>1. a[1] = r[1]  BY <3>2 DEF Bears
        <4>2. r \in direct'  BY <2>2, <4>1
        <4> QED  BY <1>1, <3>2, <4>2 DEF Bears, Next1
      <3> QED  BY <1>1, <3>1, <3>2 DEF Followed
    <2>3. Walked'  BY <1>1, <2>1, <2>2 DEF Walked
    <2> QED  BY <2>1, <2>3 DEF ScanHeld
  <1> QED  BY <1>2, <1>3

\* The walk leaves rows, and the table that is read after it says what is
\* assigned and was met.
LEMMA WalkHolds ==
    ASSUME RowsHeld, ScanHeld, ScanStart \/ ScanVisit \/ ScanRead
    PROVE  RowsHeld' /\ ScanHeld'
  <1> DEFINE seen == {i \in DOMAIN skills : skills[i].path \in scan.present}
             had == {a \in Assigned(direct, skills) : \E i \in seen : skills[i].name = a[2]}
             ps == {Next1} \cap {p \in Paths : Readable(p)}
             t == Upserted(skills, ps)
  <1>1. CASE ScanStart
    <2>1. /\ UNCHANGED <<skills, fetch>>
          /\ scan' = [IdleScan EXCEPT !.stage = "walk", !.rest = {p \in Paths : RootOf[p] \in enabled}]
      BY <1>1 DEF ScanStart, tables
    <2>2. scan'.stage = "walk" /\ DOMAIN scan' = {"stage", "present", "all", "rest", "kept", "clash"}
      BY <2>1 DEF IdleScan
    <2>3. RowsHeld'  BY <2>1, <2>2 DEF RowsHeld
    <2> QED  BY <2>2, <2>3 DEF ScanHeld
  <1>2. CASE ScanVisit
    <2>1. /\ scan.stage = "walk" /\ skills' = t /\ UNCHANGED fetch
          /\ scan' = [scan EXCEPT !.rest = @ \ {Next1},
                                  !.present = @ \cup ({Next1} \cap {p \in Paths : Exists(p)})]
      BY <1>2 DEF ScanVisit
    <2>2. scan'.stage = "walk" /\ DOMAIN scan' = {"stage", "present", "all", "rest", "kept", "clash"}
      BY <2>1 DEF RowsHeld
    <2>3. /\ IsFiniteSet(DOMAIN t) /\ DOMAIN t \in SUBSET Nat
          /\ \A i \in DOMAIN t : DOMAIN t[i] = {"name", "path"} /\ t[i].path \in Paths
      <3>1. ps \in SUBSET Paths  OBVIOUS
      <3>2. /\ IsFiniteSet(DOMAIN skills) /\ DOMAIN skills \in SUBSET Nat
            /\ \A i \in DOMAIN skills : skills[i].path \in Paths
        BY DEF RowsHeld
      <3> HIDE DEF ps
      <3> QED  BY <3>1, <3>2, WalkFiles
    <2> HIDE DEF t
    <2>4. RowsHeld'  BY <2>1, <2>2, <2>3 DEF RowsHeld
    <2> QED  BY <2>2, <2>4 DEF ScanHeld
  <1>3. CASE ScanRead
    <2>1. /\ scan.stage = "walk" /\ UNCHANGED <<skills, direct, fetch>>
          /\ scan' = [scan EXCEPT !.stage = "prune", !.all = skills, !.rest = DOMAIN skills \ seen,
                                  !.kept = had]
      BY <1>3 DEF ScanRead, tables
    <2> HIDE DEF had, seen
    <2>2. /\ scan'.stage = "prune" /\ scan'.present = scan.present /\ scan'.all = skills
          /\ scan'.rest = DOMAIN skills \ seen /\ scan'.kept = had
          /\ DOMAIN scan' = {"stage", "present", "all", "rest", "kept", "clash"}
      BY <2>1 DEF RowsHeld
    <2>3. RowsHeld'  BY <2>1, <2>2 DEF RowsHeld
    <2>4. ASSUME NEW a \in had PROVE Followed(a)'
      <3>1. a \in Assigned(direct, skills) /\ \E i \in seen : skills[i].name = a[2]
        BY <2>4 DEF had
      <3>2. PICK r \in direct : r[2] \in DOMAIN skills /\ a = <<r[1], skills[r[2]].name>>
        BY <3>1 DEF Assigned
      <3>3. Bears(r, a)'  BY <2>1, <2>2, <3>2 DEF Bears
      <3>4. \E j \in DOMAIN skills : skills[j].name = a[2] /\ skills[j].path \in scan.present
        BY <3>1 DEF seen
      <3> QED  BY <2>1, <2>2, <3>2, <3>3, <3>4 DEF Followed
    <2>5. /\ DOMAIN skills \subseteq Nat
          /\ \A i \in DOMAIN skills \ seen : skills[i].path \notin scan.present
      BY DEF RowsHeld, seen
    <2>6. Walked'  BY <2>1, <2>2, <2>4, <2>5 DEF Walked
    <2> QED  BY <2>2, <2>3, <2>6 DEF ScanHeld
  <1> QED  BY <1>1, <1>2, <1>3

\* The rescan re-points a moved row's assignments to a copy of its name that it
\* saw, all or, after a clash, none.
LEMMA RepointHolds ==
    ASSUME RowsHeld, ScanHeld, ScanRepoint
    PROVE  RowsHeld' /\ ScanHeld'
  <1>1. /\ scan.stage = "prune" /\ scan.rest # {} /\ Walked /\ UNCHANGED <<skills, fetch>>
        /\ DOMAIN scan = {"stage", "present", "all", "rest", "kept", "clash"}
    BY DEF ScanRepoint, ScanHeld, RowsHeld
  <1>2. Next1 \in scan.rest  BY <1>1, NextIsLeft
  <1>3. ASSUME NEW r, NEW a, Bears(r, a), r[2] # Next1
        PROVE  r[2] \in DOMAIN skills /\ a = <<r[1], scan.all[r[2]].name>>
    BY <1>3 DEF Bears
  <1>4. CASE Survivors(Next1) = {} /\ scan' = [scan EXCEPT !.stage = "delete"] /\ UNCHANGED direct
    <2>1. /\ scan'.stage = "delete" /\ scan'.present = scan.present /\ scan'.all = scan.all
          /\ scan'.rest = scan.rest /\ scan'.kept = scan.kept /\ scan'.clash = scan.clash
          /\ DOMAIN scan' = DOMAIN scan
      BY <1>1, <1>4
    <2>2. RowsHeld'  BY <1>1, <2>1 DEF RowsHeld
    <2>3. ASSUME NEW a \in scan.kept PROVE Followed(a)'
      <3>1. Followed(a)  BY <1>1 DEF Walked
      <3>2. ASSUME NEW r \in direct, Bears(r, a) PROVE Bears(r, a)'
        <4>1. r[2] # Next1
          <5> SUFFICES ASSUME r[2] = Next1 PROVE FALSE  OBVIOUS
          <5>1. scan.all[Next1].name = a[2]  BY <3>2 DEF Bears
          <5>2. PICK j \in DOMAIN scan.all : scan.all[j].name = a[2] /\ scan.all[j].path \in scan.present
            BY <3>1 DEF Followed
          <5>3. j # Next1  BY <1>1, <1>2, <5>2 DEF Walked
          <5>4. j \in Copies(Next1)  BY <5>1, <5>2, <5>3 DEF Copies
          <5> QED  BY <1>4, <5>4 DEF Survivors
        <4>2. Next1' = Next1  BY <2>1 DEF Next1
        <4> QED  BY <1>1, <1>3, <2>1, <3>2, <4>1, <4>2 DEF Bears
      <3> QED  BY <1>1, <1>4, <2>1, <3>1, <3>2 DEF Followed
    <2>4. Walked'  BY <1>1, <2>1, <2>3 DEF Walked
    <2> QED  BY <2>1, <2>2, <2>4 DEF ScanHeld
  <1>5. ASSUME NEW j \in Survivors(Next1),
               direct' = Repoint(Next1, j),
               scan' = [scan EXCEPT !.stage = "delete",
                         !.clash = @ \cup (IF Clashes(Next1, j) THEN {scan.all[j].name} ELSE {})]
        PROVE  RowsHeld' /\ ScanHeld'
    <2> DEFINE more == IF Clashes(Next1, j) THEN {scan.all[j].name} ELSE {}
    <2>1. /\ scan'.stage = "delete" /\ scan'.present = scan.present /\ scan'.all = scan.all
          /\ scan'.rest = scan.rest /\ scan'.kept = scan.kept /\ scan'.clash = scan.clash \cup more
          /\ DOMAIN scan' = DOMAIN scan
      <3> HIDE DEF more
      <3>1. scan' = [scan EXCEPT !.stage = "delete", !.clash = @ \cup more]  BY <1>5 DEF more
      <3> QED  BY <1>1, <3>1
    <2>2. RowsHeld'  BY <1>1, <2>1 DEF RowsHeld
    <2>3. j \in Copies(Next1)  BY <1>5 DEF Survivors, LiveSurvivors
    <2>4. /\ j \in DOMAIN scan.all /\ j # Next1 /\ scan.all[j].name = scan.all[Next1].name
          /\ j \in DOMAIN skills
      BY <1>1, <2>3 DEF Copies, Walked
    <2>5. Next1' = Next1  BY <2>1 DEF Next1
    <2>6. ASSUME NEW a \in scan.kept PROVE Followed(a)'
      <3>1. Followed(a)  BY <1>1 DEF Walked
      <3>2. CASE a[2] \in scan.clash  BY <1>1, <2>1, <3>1, <3>2 DEF Followed
      <3>3. CASE a[2] \notin scan.clash
        <4>1. PICK r \in direct : Bears(r, a)  BY <3>1, <3>3 DEF Followed
        <4>2. r[2] \in DOMAIN skills /\ a = <<r[1], scan.all[r[2]].name>>  BY <4>1 DEF Bears
        <4>3. CASE r[2] = Next1 /\ Clashes(Next1, j)
          <5>1. a[2] \in scan'.clash  BY <2>1, <2>4, <4>2, <4>3
          <5> QED  BY <1>1, <2>1, <3>1, <5>1 DEF Followed
        <4>4. CASE r[2] = Next1 /\ ~Clashes(Next1, j)
          <5> DEFINE s == <<r[1], j>>
          <5>1. s \in direct'  BY <1>5, <4>4 DEF Repoint
          <5>2. Bears(s, a)'  BY <1>1, <2>1, <2>4, <2>5, <4>2, <4>4 DEF Bears
          <5> QED  BY <1>1, <2>1, <3>1, <5>1, <5>2 DEF Followed
        <4>5. CASE r[2] # Next1
          <5>1. r \in direct'  BY <1>5, <4>5 DEF Repoint
          <5>2. Bears(r, a)'  BY <1>1, <2>1, <2>5, <4>2, <4>5 DEF Bears
          <5> QED  BY <1>1, <2>1, <3>1, <5>1, <5>2 DEF Followed
        <4> QED  BY <4>3, <4>4, <4>5
      <3> QED  BY <3>2, <3>3
    <2>7. Walked'  BY <1>1, <2>1, <2>6 DEF Walked
    <2> QED  BY <2>1, <2>2, <2>7 DEF ScanHeld
  <1> QED  BY <1>1, <1>4, <1>5 DEF ScanRepoint

\* The row that is deleted is none that the walk saw and none that bears an
\* assignment still.
LEMMA DeleteHolds ==
    ASSUME RowsHeld, ScanHeld, ScanDelete
    PROVE  RowsHeld' /\ ScanHeld'
  <1>1. /\ scan.stage = "delete" /\ Walked /\ UNCHANGED <<direct, fetch>>
        /\ scan' = [scan EXCEPT !.stage = "prune", !.rest = @ \ {Next1}]
        /\ skills' = Restrict(skills, DOMAIN skills \ {Next1})
        /\ DOMAIN scan = {"stage", "present", "all", "rest", "kept", "clash"}
    BY DEF ScanDelete, ScanHeld, RowsHeld
  <1>2. Next1 \in scan.rest  BY <1>1, NextIsLeft DEF Walked
  <1>3. /\ scan'.stage = "prune" /\ scan'.present = scan.present /\ scan'.all = scan.all
        /\ scan'.rest = scan.rest \ {Next1} /\ scan'.kept = scan.kept /\ scan'.clash = scan.clash
        /\ DOMAIN scan' = DOMAIN scan
    BY <1>1
  <1>4. /\ DOMAIN skills' = DOMAIN skills \ {Next1}
        /\ \A i \in DOMAIN skills' : skills'[i] = skills[i]
    BY <1>1 DEF Restrict
  <1>5. RowsHeld'
    <2>1. IsFiniteSet(DOMAIN skills')  BY <1>4, FS_Subset DEF RowsHeld
    <2> QED  BY <1>1, <1>3, <1>4, <2>1 DEF RowsHeld
  <1>6. ASSUME NEW a \in scan.kept PROVE Followed(a)'
    <2>1. Followed(a)  BY <1>1 DEF Walked
    <2>2. ASSUME NEW r \in direct, Bears(r, a) PROVE Bears(r, a)'
      BY <1>1, <1>3, <1>4, <2>2 DEF Bears
    <2> QED  BY <1>1, <1>3, <1>4, <2>1, <2>2 DEF Followed
  <1>7. \A j \in DOMAIN scan.all : scan.all[j].path \in scan.present => j \in DOMAIN skills'
    BY <1>1, <1>2, <1>4 DEF Walked
  <1>8. Walked'  BY <1>1, <1>3, <1>4, <1>6, <1>7 DEF Walked
  <1> QED  BY <1>3, <1>5, <1>8 DEF ScanHeld


\* A save through the editor renames the row with its file.
LEMMA WriteHolds ==
    ASSUME RowsHeld, ScanHeld, WriteSkill
    PROVE  RowsHeld' /\ ScanHeld'
  <1>1. PICK i \in DOMAIN skills, n \in Names :
          /\ skills' = [skills EXCEPT ![i].name = n]
          /\ scan' = [scan EXCEPT !.kept = {a \in @ : a[2] # skills[i].name}]
    BY DEF WriteSkill
  <1>2. UNCHANGED <<direct, fetch>> /\ DOMAIN scan = {"stage", "present", "all", "rest", "kept", "clash"}
    BY DEF WriteSkill, RowsHeld
  <1>3. /\ scan'.stage = scan.stage /\ scan'.present = scan.present /\ scan'.all = scan.all
        /\ scan'.rest = scan.rest /\ scan'.kept = {a \in scan.kept : a[2] # skills[i].name}
        /\ scan'.clash = scan.clash /\ DOMAIN scan' = DOMAIN scan
    BY <1>1, <1>2
  <1>4. /\ DOMAIN skills' = DOMAIN skills
        /\ \A k \in DOMAIN skills : /\ DOMAIN skills'[k] = {"name", "path"}
                                    /\ skills'[k].path = skills[k].path
                                    /\ k # i => skills'[k] = skills[k]
    BY <1>1 DEF RowsHeld
  <1>5. RowsHeld'  BY <1>2, <1>3, <1>4 DEF RowsHeld
  <1>6. CASE scan.stage \in {"idle", "walk"}  BY <1>3, <1>5, <1>6 DEF ScanHeld
  <1>7. CASE scan.stage \notin {"idle", "walk"}
    <2>1. Walked /\ scan'.stage \in {"prune", "delete"}  BY <1>3, <1>7 DEF ScanHeld
    <2>2. ASSUME NEW a \in scan'.kept PROVE Followed(a)'
      <3>1. Followed(a) /\ a[2] # skills[i].name  BY <1>3, <2>1 DEF Walked
      <3>2. ASSUME NEW r \in direct, Bears(r, a) PROVE Bears(r, a)'
        BY <1>3, <1>4, <3>2 DEF Bears, Next1
      <3>3. \A j \in DOMAIN skills' : scan'.all[j].name = a[2] => skills'[j].name = a[2]
        BY <1>3, <1>4, <3>1 DEF Followed
      <3> QED  BY <1>2, <1>3, <3>1, <3>2, <3>3 DEF Followed
    <2>3. Walked'  BY <1>3, <1>4, <2>1, <2>2 DEF Walked
    <2> QED  BY <1>5, <2>1, <2>3 DEF ScanHeld
  <1> QED  BY <1>6, <1>7

\* An admin's statements, and the row of one assignment dropped.
LEMMA StatementHolds ==
    ASSUME RowsHeld, ScanHeld, Statement \/ DropAssignment
    PROVE  RowsHeld' /\ ScanHeld'
  <1>1. ASSUME NEW K \in SUBSET scan.kept, scan' = [scan EXCEPT !.kept = K],
               UNCHANGED <<skills, fetch>>
        PROVE  RowsHeld'
    <2>1. DOMAIN scan' = DOMAIN scan  BY <1>1
    <2> QED  BY <1>1, <2>1 DEF RowsHeld
  <1>2. ASSUME NEW t, NEW is, SetTargetSkills(t, is), UNCHANGED <<skills, fetch>>
        PROVE  RowsHeld' /\ ScanHeld'
    <2> DEFINE K == {a \in scan.kept : a[1] # t}
    <2>1. K \in SUBSET scan.kept /\ scan' = [scan EXCEPT !.kept = K]  BY <1>2 DEF SetTargetSkills
    <2>2. \A a \in K, r \in direct : a[1] = r[1] => r \in direct'
      BY <1>2 DEF SetTargetSkills, Replaced
    <2> HIDE DEF K
    <2> QED  BY <1>1, <1>2, <2>1, <2>2, OthersKept
  <1>3. ASSUME DropAssignment PROVE RowsHeld' /\ ScanHeld'
    <2>1. PICK b \in direct : /\ direct' = direct \ {b}
                              /\ scan' = [scan EXCEPT !.kept = {a \in @ : a[1] # b[1]}]
      BY <1>3 DEF DropAssignment
    <2> DEFINE K == {a \in scan.kept : a[1] # b[1]}
    <2>2. K \in SUBSET scan.kept /\ scan' = [scan EXCEPT !.kept = K]  BY <2>1
    <2>3. \A a \in K, r \in direct : a[1] = r[1] => r \in direct'  BY <2>1
    <2>4. UNCHANGED <<skills, fetch>>  BY <1>3 DEF DropAssignment
    <2> HIDE DEF K
    <2> QED  BY <1>1, <2>2, <2>3, <2>4, OthersKept
  <1>4. ASSUME UNCHANGED <<skills, direct, scan, fetch>> PROVE RowsHeld' /\ ScanHeld'
    <2>1. RowsHeld'  BY <1>4 DEF RowsHeld
    <2> QED  BY <1>4, <2>1, NothingScanned
  <1>5. ASSUME Statement PROVE RowsHeld' /\ ScanHeld'
    <2>1. UNCHANGED <<skills, fetch>>  BY <1>5 DEF Statement
    <2>2. (\E t, is : SetTargetSkills(t, is)) \/ UNCHANGED <<direct, scan>>
      BY <1>5, Zenon DEF Statement, SetTargetGroups, SetGroupMembers, AddGroupMembers,
         RemoveGroupMembers,
           InsertGroup, DropCarried, DropGroup
    <2> QED  BY <1>2, <1>4, <2>1, <2>2
  <1> QED  BY <1>3, <1>5

\* The fetch: what is resolved is a row's place, and nothing else is touched.
LEMMA FetchHolds ==
    ASSUME RowsHeld, FetchResolve \/ FetchRead \/ FetchLook \/ FetchAgain \/ FetchDone
    PROVE  RowsHeld' /\ UNCHANGED <<skills, direct, scan>>
  <1>1. UNCHANGED <<skills, direct, scan>>
    BY Zenon DEF FetchResolve, FetchRead, FetchLook, FetchAgain, FetchDone, tables
  <1>2. /\ DOMAIN fetch' = DOMAIN fetch
        /\ fetch'.stage \in {"read", "look", "again"} => fetch'.path \in Paths /\ fetch'.out = 0
    <2>1. CASE FetchResolve
      <3>1. PICK t \in Targets, c \in Range(Same) : \E i \in Entries(t, c) :
              fetch' = [stage |-> "read", target |-> t, name |-> c, path |-> skills[i].path,
                        had |-> {}, out |-> 0]
        BY <2>1 DEF FetchResolve
      <3>2. PICK i \in Entries(t, c) :
              fetch' = [stage |-> "read", target |-> t, name |-> c, path |-> skills[i].path,
                        had |-> {}, out |-> 0]
        BY <3>1
      <3>3. i \in DOMAIN skills
        BY <3>2 DEF Entries, DirectRows, BestCopies, LiveCopies, RowsOf
      <3> QED  BY <3>2, <3>3 DEF RowsHeld
    <2>2. CASE FetchRead  BY <2>2 DEF FetchRead, RowsHeld
    <2>3. CASE FetchLook
      <3>1. PICK H : \/ \E i \in BestCopies(fetch.name) :
                          fetch' = [[fetch EXCEPT !.had = H] EXCEPT !.stage = "again", !.path = skills[i].path]
                     \/ fetch' = [[fetch EXCEPT !.had = H] EXCEPT !.stage = "answered"]
        BY <2>3, Zenon DEF FetchLook
      <3>2. \A i \in BestCopies(fetch.name) : i \in DOMAIN skills
        BY DEF BestCopies, LiveCopies, RowsOf
      <3>3. fetch.stage = "look"  BY <2>3 DEF FetchLook
      <3> QED  BY <3>1, <3>2, <3>3 DEF RowsHeld
    <2>4. CASE FetchAgain  BY <2>4 DEF FetchAgain, RowsHeld
    <2>5. CASE FetchDone  BY <2>5 DEF FetchDone, RowsHeld, IdleFetch
    <2> QED  BY <2>1, <2>2, <2>3, <2>4, <2>5
  <1>3. DOMAIN skills' = DOMAIN skills /\ \A i \in DOMAIN skills' : skills'[i] = skills[i]  BY <1>1
  <1> QED  BY <1>1, <1>2 DEF RowsHeld

SkillsInv == RowsHeld /\ ScanHeld

\* It holds at first: the program has scanned once.
LEMMA SkillsBegin == SkillsInit => SkillsInv
  <1> SUFFICES ASSUME SkillsInit PROVE RowsHeld /\ ScanHeld  BY DEF SkillsInv
  <1> DEFINE none == [i \in {} |-> i]
             seen == {p \in Paths : Readable(p)}
             t == Upserted(none, seen)
  <1>1. /\ IsFiniteSet(DOMAIN t) /\ DOMAIN t \in SUBSET Nat
        /\ \A i \in DOMAIN t : DOMAIN t[i] = {"name", "path"} /\ t[i].path \in Paths
    <2>1. IsFiniteSet(DOMAIN none) /\ DOMAIN none = {}  BY FS_EmptySet
    <2>2. seen \in SUBSET Paths  OBVIOUS
    <2> HIDE DEF none, seen
    <2> QED  BY <2>1, <2>2, WalkFiles
  <1>2. skills = t /\ scan = IdleScan /\ fetch = IdleFetch  BY DEF SkillsInit
  <1> HIDE DEF t
  <1>3. RowsHeld  BY <1>1, <1>2 DEF RowsHeld, IdleScan, IdleFetch
  <1> QED  BY <1>2, <1>3 DEF ScanHeld, IdleScan

\* Every step of files, rescan, admin and fetch keeps it.
LEMMA SkillsGoOn == SkillsInv /\ [SkillsNext]_skillVars => SkillsInv'
  <1> SUFFICES ASSUME RowsHeld, ScanHeld, [SkillsNext]_skillVars PROVE RowsHeld' /\ ScanHeld'
    BY DEF SkillsInv
  <1>1. ASSUME UNCHANGED <<skills, direct, scan, fetch>> PROVE RowsHeld' /\ ScanHeld'
    <2>1. RowsHeld'  BY <1>1 DEF RowsHeld
    <2> QED  BY <1>1, <2>1, NothingScanned
  <1>2. CASE ScanStart \/ ScanVisit \/ ScanRead  BY <1>2, WalkHolds
  <1>3. CASE ScanKeep
    <2>1. /\ scan.stage = "prune" /\ UNCHANGED <<skills, direct, fetch>>
          /\ scan' = [scan EXCEPT !.rest = @ \ {Next1}] /\ Walked
      BY <1>3 DEF ScanKeep, tables, ScanHeld
    <2>2. /\ scan'.stage = scan.stage /\ scan'.present = scan.present /\ scan'.all = scan.all
          /\ scan'.rest = scan.rest \ {Next1} /\ scan'.kept = scan.kept /\ scan'.clash = scan.clash
          /\ DOMAIN scan' = DOMAIN scan
      BY <2>1 DEF RowsHeld
    <2>3. RowsHeld'  BY <2>1, <2>2 DEF RowsHeld
    <2>4. ASSUME NEW a \in scan.kept PROVE Followed(a)'
      <3>1. Followed(a)  BY <2>1 DEF Walked
      <3>2. \A r \in direct : Bears(r, a) => Bears(r, a)'  BY <2>1, <2>2 DEF Bears
      <3> QED  BY <2>1, <2>2, <3>1, <3>2 DEF Followed
    <2>5. Walked'  BY <2>1, <2>2, <2>4 DEF Walked
    <2> QED  BY <2>1, <2>2, <2>3, <2>5 DEF ScanHeld
  <1>4. CASE ScanRepoint  BY <1>4, RepointHolds
  <1>5. CASE ScanDelete  BY <1>5, DeleteHolds
  <1>6. CASE ScanEnd
    <2>1. scan' = IdleScan /\ UNCHANGED <<skills, direct, fetch>>  BY <1>6 DEF ScanEnd, tables
    <2>2. RowsHeld'  BY <2>1 DEF RowsHeld, IdleScan
    <2> QED  BY <2>1, <2>2 DEF ScanHeld, IdleScan
  <1>7. CASE Statement \/ DropAssignment  BY <1>7, StatementHolds
  <1>8. CASE WriteSkill  BY <1>8, WriteHolds
  <1>9. CASE FetchResolve \/ FetchRead \/ FetchLook \/ FetchAgain \/ FetchDone
    BY <1>9, FetchHolds, NothingScanned
  <1>10. CASE Restart
    <2>1. scan' = IdleScan /\ fetch' = IdleFetch /\ UNCHANGED <<skills, direct>>
      BY <1>10 DEF Restart, tables
    <2>2. RowsHeld'  BY <2>1 DEF RowsHeld, IdleScan, IdleFetch
    <2> QED  BY <2>1, <2>2 DEF ScanHeld, IdleScan
  <1>11. CASE \/ MoveFile \/ LoadPage \/ SaveAssignments \/ SaveGroup \/ EditGroup \/ DeleteGroup
              \/ SetRoot \/ CopySkill
    <2>1. UNCHANGED <<skills, direct, scan, fetch>>
      BY <1>11, Zenon DEF MoveFile, LoadPage, SaveAssignments, SaveGroup, EditGroup, DeleteGroup,
         SetRoot,
                   CopySkill, tables
    <2> QED  BY <1>1, <2>1
  <1>12. CASE UNCHANGED skillVars
    <2>1. UNCHANGED <<skills, direct, scan, fetch>>  BY <1>12, Zenon DEF skillVars, tables
    <2> QED  BY <1>1, <2>1
  <1> QED  BY <1>2, <1>3, <1>4, <1>5, <1>6, <1>7, <1>8, <1>9, <1>10, <1>11, <1>12, Zenon DEF SkillsNext

\* For any files, moves, admins and restarts, a name that a target has assigned and
\* that the walk found a copy of is still assigned to it when the rescan ends, but
\* for the names of a statement that failed (RescanSkills, repointAssignments).
THEOREM MovesKeep == SkillsSpec => MoveKept
  <1>1. SkillsInv /\ [SkillsNext]_skillVars =>
          [ScanEnd => \A a \in scan.kept : a[2] \notin scan.clash => a \in Assigned(direct, skills)]_skillVars
    <2> SUFFICES ASSUME SkillsInv, ScanEnd, NEW a \in scan.kept, a[2] \notin scan.clash
                 PROVE  a \in Assigned(direct, skills)
      OBVIOUS
    <2>1. Walked /\ Followed(a)  BY DEF SkillsInv, ScanHeld, ScanEnd, Walked
    <2>2. PICK r \in direct : Bears(r, a)  BY <2>1 DEF Followed
    <2>3. r[2] \in DOMAIN skills /\ a = <<r[1], scan.all[r[2]].name>>  BY <2>2 DEF Bears
    <2>4. scan.all[r[2]].name = a[2]  BY <2>3
    <2>5. skills[r[2]].name = a[2]  BY <2>1, <2>3, <2>4 DEF Followed
    <2>6. a = <<r[1], skills[r[2]].name>>  BY <2>3, <2>4, <2>5
    <2> QED  BY <2>3, <2>6 DEF Assigned
  <1> QED  BY <1>1, SkillsBegin, SkillsGoOn, PTL DEF SkillsSpec, MoveKept

\* The copy that a fetch found is one of those that were there, archived only
\* if all of them were.
FetchHeld ==
    /\ fetch.stage = "look" => fetch.out = 0
    /\ fetch.stage = "again" => /\ fetch.path \in fetch.had
                                /\ fetch.path \in Archived => fetch.had \subseteq Archived

\* The search leaves it so.
LEMMA LookHolds ==
    ASSUME RowsHeld, FetchLook
    PROVE  FetchHeld' /\ (fetch'.stage = "answered" => fetch'.out = 0 /\ fetch'.had = {})
  <1> DEFINE H == {p \in Paths : Exists(p) /\ \E i \in RowsOf(fetch.name) : skills[i].path = p}
  <1>1. /\ fetch.stage = "look" /\ UNCHANGED skills
        /\ \/ \E i \in BestCopies(fetch.name) :
                fetch' = [[fetch EXCEPT !.had = H] EXCEPT !.stage = "again", !.path = skills[i].path]
           \/ /\ BestCopies(fetch.name) = {}
              /\ fetch' = [[fetch EXCEPT !.had = H] EXCEPT !.stage = "answered"]
    BY Zenon DEF FetchLook, tables
  <1>2. DOMAIN fetch = {"stage", "target", "name", "path", "had", "out"} /\ fetch.out = 0
    BY <1>1 DEF RowsHeld
  <1>3. \A i \in RowsOf(fetch.name) : i \in DOMAIN skills /\ skills[i].path \in Paths
    BY DEF RowsHeld, RowsOf
  <1>4. ASSUME NEW i \in BestCopies(fetch.name)
        PROVE  /\ skills[i].path \in H
               /\ skills[i].path \in Archived => H \subseteq Archived
    <2>1. i \in RowsOf(fetch.name) /\ Exists(skills[i].path)
      BY DEF BestCopies, LiveCopies
    <2>2. skills[i].path \in Archived => LiveCopies(fetch.name) = {}
      BY DEF BestCopies, LiveCopies
    <2>3. LiveCopies(fetch.name) = {} => H \subseteq Archived
      BY <1>3 DEF LiveCopies
    <2> QED  BY <1>3, <2>1, <2>2, <2>3
  <1>5. BestCopies(fetch.name) = {} => H = {}
    BY <1>3 DEF BestCopies, LiveCopies
  <1> HIDE DEF H
  <1>6. ASSUME NEW i \in BestCopies(fetch.name),
               fetch' = [[fetch EXCEPT !.had = H] EXCEPT !.stage = "again", !.path = skills[i].path]
        PROVE  FetchHeld' /\ fetch'.stage = "again"
    <2>1. fetch'.stage = "again" /\ fetch'.path = skills[i].path /\ fetch'.had = H
      BY <1>2, <1>6
    <2> QED  BY <1>4, <2>1 DEF FetchHeld
  <1>7. ASSUME BestCopies(fetch.name) = {},
               fetch' = [[fetch EXCEPT !.had = H] EXCEPT !.stage = "answered"]
        PROVE  FetchHeld' /\ fetch'.out = 0 /\ fetch'.had = {}
    <2>1. fetch'.stage = "answered" /\ fetch'.out = 0 /\ fetch'.had = H
      BY <1>2, <1>7
    <2> QED  BY <1>5, <1>7, <2>1 DEF FetchHeld
  <1> QED  BY <1>1, <1>6, <1>7

\* Every step keeps it.
LEMMA FetchGoesOn == RowsHeld /\ FetchHeld /\ [SkillsNext]_skillVars => FetchHeld'
  <1> SUFFICES ASSUME RowsHeld, FetchHeld, [SkillsNext]_skillVars PROVE FetchHeld'
    OBVIOUS
  <1>1. CASE FetchResolve
    <2>1. fetch'.stage = "read"  BY <1>1 DEF FetchResolve
    <2> QED  BY <2>1 DEF FetchHeld
  <1>2. CASE FetchRead
    <2>1. \/ fetch'.stage = "answered"
          \/ fetch'.stage = "look" /\ fetch'.out = 0
      BY <1>2 DEF FetchRead, RowsHeld
    <2> QED  BY <2>1 DEF FetchHeld
  <1>3. CASE FetchLook  BY <1>3, LookHolds
  <1>4. CASE FetchAgain
    <2>1. fetch'.stage = "answered"  BY <1>4 DEF FetchAgain, RowsHeld
    <2> QED  BY <2>1 DEF FetchHeld
  <1>5. CASE FetchDone \/ Restart
    <2>1. fetch' = IdleFetch  BY <1>5, Zenon DEF FetchDone, Restart
    <2>2. fetch'.stage = "idle"  BY <2>1 DEF IdleFetch
    <2> QED  BY <2>2 DEF FetchHeld
  <1>6. CASE UNCHANGED fetch  BY <1>6 DEF FetchHeld
  <1>7. \/ FetchResolve \/ FetchRead \/ FetchLook \/ FetchAgain \/ FetchDone \/ Restart
        \/ UNCHANGED fetch
    BY Zenon DEF SkillsNext, skillVars, MoveFile, ScanStart, ScanVisit, ScanRead, ScanKeep,
       ScanRepoint, ScanDelete, ScanEnd, LoadPage, SaveAssignments, SaveGroup, EditGroup,
       DeleteGroup, Statement, DropAssignment, SetRoot, WriteSkill, CopySkill
  <1> QED  BY <1>1, <1>2, <1>3, <1>4, <1>5, <1>6, <1>7

\* For any files, and any moves between the search for another copy and the reading
\* of the one it chose, a fetch fails only when the search found no file or that
\* copy could not be read, and turns to an archive only when the search found
\* nothing else (serveSkillOneFor, readableSkillNamed).
THEOREM LoadsHold == SkillsSpec => LazyLoadHolds
  <1>1. SkillsInit => FetchHeld
    <2>1. SkillsInit => fetch = IdleFetch  BY DEF SkillsInit
    <2>2. IdleFetch.stage = "idle"  BY DEF IdleFetch
    <2>3. fetch.stage = "idle" => FetchHeld  BY DEF FetchHeld
    <2> QED  BY <2>1, <2>2, <2>3
  <1>2. SkillsInv /\ FetchHeld /\ [SkillsNext]_skillVars => FetchHeld'
    BY FetchGoesOn DEF SkillsInv
  <1>3. SkillsInv /\ FetchHeld =>
          [(FetchLook \/ FetchAgain) /\ fetch'.stage = "answered" =>
             IF fetch'.out = 0 THEN \/ fetch'.had = {}
                                   \/ (fetch.path \in fetch'.had /\ ~Readable(fetch.path))
             ELSE fetch'.out \in fetch'.had /\ (fetch'.out \in Archived => fetch'.had \subseteq Archived)]_skillVars
    <2> SUFFICES ASSUME RowsHeld, FetchHeld, FetchLook \/ FetchAgain, fetch'.stage = "answered"
                 PROVE  IF fetch'.out = 0 THEN \/ fetch'.had = {}
                                              \/ (fetch.path \in fetch'.had /\ ~Readable(fetch.path))
                        ELSE /\ fetch'.out \in fetch'.had
                             /\ fetch'.out \in Archived => fetch'.had \subseteq Archived
      BY DEF SkillsInv
    <2>1. CASE FetchLook
      <3>1. fetch'.out = 0 /\ fetch'.had = {}  BY <2>1, LookHolds
      <3> QED  BY <3>1
    <2>2. CASE FetchAgain
      <3>1. /\ fetch.stage = "again" /\ fetch'.had = fetch.had
            /\ fetch'.out = IF Readable(fetch.path) THEN fetch.path ELSE 0
        BY <2>2 DEF FetchAgain, RowsHeld
      <3>2. fetch.path \in Paths /\ fetch.path # 0  BY <3>1, SkillAssumption DEF RowsHeld
      <3>3. fetch.path \in fetch.had /\ (fetch.path \in Archived => fetch.had \subseteq Archived)
        BY <3>1 DEF FetchHeld
      <3>4. CASE Readable(fetch.path)
        <4>1. fetch'.out = fetch.path  BY <3>1, <3>4
        <4> QED  BY <3>1, <3>2, <3>3, <4>1
      <3>5. CASE ~Readable(fetch.path)
        <4>1. fetch'.out = 0  BY <3>1, <3>5
        <4> QED  BY <3>1, <3>3, <3>5, <4>1
      <3> QED  BY <3>4, <3>5
    <2> QED  BY <2>1, <2>2
  <1> QED  BY <1>1, <1>2, <1>3, SkillsBegin, SkillsGoOn, PTL DEF SkillsSpec, LazyLoadHolds

-----------------------------------------------------------------------------
(* Preparation: a conversation, and what of it is sent.                      *)

Said == [role : {"user", "assistant", "tool"}, calls : Nat, text : Texts]
Outgoing == [at : Nat, role : {"user", "assistant", "tool"}, from : Nat, upto : Nat, short : BOOLEAN,
          attached : SUBSET {"drafts", "briefing"}]

\* A tool result stands behind its call or behind another result.
Called(ms) ==
    \A k \in DOMAIN ms : ms[k].role = "tool" => k # 1 /\ ms[k - 1].role \in {"assistant", "tool"}

\* The conversation as the client holds it, and that nothing is sent while
\* results are due.
Talk ==
    /\ history \in Seq(Said) /\ Len(history) # 0 /\ Called(history)
    /\ due \in Nat
    /\ due # 0 => sent = NotSent /\ history[Len(history)].role \in {"assistant", "tool"}

\* A result has a call before it, and only results between.
LEMMA CallIsThere ==
    ASSUME NEW ms \in Seq(Said), Called(ms), NEW k \in DOMAIN ms, ms[k].role = "tool"
    PROVE  \E a \in 1..k : ms[a].role = "assistant" /\ \A m \in (a + 1)..k : ms[m].role = "tool"
  <1> DEFINE Has(j) == \E a \in 1..j : ms[a].role = "assistant" /\ \A m \in (a + 1)..j : ms[m].role = "tool"
             Bad == {j \in 1..Len(ms) : ms[j].role = "tool" /\ ~Has(j)}
  <1> SUFFICES ASSUME ~Has(k) PROVE FALSE  OBVIOUS
  <1>1. PICK j \in Bad : \A i \in Bad : j <= i
    <2>1. Bad \in SUBSET Nat /\ k \in Bad  OBVIOUS
    <2> HIDE DEF Bad
    <2> QED  BY <2>1, LeastNat
  <1>2. /\ j \in 1..Len(ms) /\ j # 1 /\ ms[j].role = "tool" /\ ~Has(j)
        /\ ms[j - 1].role \in {"assistant", "tool"} /\ j - 1 \in 1..Len(ms)
    <2>1. j \in 1..Len(ms) /\ ms[j].role = "tool" /\ ~Has(j)  BY <1>1
    <2> HIDE DEF Has, Bad
    <2>2. j # 1 /\ ms[j - 1].role \in {"assistant", "tool"}
      <3>1. j \in DOMAIN ms  BY <2>1
      <3> QED  BY <2>1, <3>1 DEF Called
    <2> QED  BY <2>1, <2>2
  <1>3. CASE ms[j - 1].role = "assistant"
    <2>1. \A m \in ((j - 1) + 1)..j : m = j  BY <1>2
    <2>2. j - 1 \in 1..j  BY <1>2
    <2> QED  BY <1>2, <1>3, <2>1, <2>2
  <1>4. CASE ms[j - 1].role = "tool"
    <2>1. j - 1 \notin Bad
      <3>1. ~(j <= j - 1)  BY <1>2
      <3> HIDE DEF Bad
      <3> QED  BY <1>1, <3>1
    <2>2. Has(j - 1)  BY <1>2, <1>4, <2>1
    <2>3. PICK a \in 1..(j - 1) : ms[a].role = "assistant" /\ \A m \in (a + 1)..(j - 1) : ms[m].role = "tool"
      BY <2>2
    <2>4. a \in 1..j /\ \A m \in (a + 1)..j : m = j \/ m \in (a + 1)..(j - 1)  BY <1>2
    <2> QED  BY <1>2, <2>3, <2>4
  <1> QED  BY <1>2, <1>3, <1>4

\* The cut leaves the result of no call behind it.
LEMMA CutIsClean ==
    ASSUME NEW ms \in Seq(Said), Cuts(ms)
    PROVE  Cut(ms) \in 2..(Len(ms) - 1) /\ ms[Cut(ms) + 1].role # "tool"
  <1> DEFINE from == Len(ms) - KeepRecent
             clean == {k \in from..Len(ms) : k = Len(ms) \/ ms[k + 1].role # "tool"}
  <1>1. KeepRecent \in Nat  BY PreparationAssumption
  <1>2. from \in Nat /\ Len(ms) \in Nat /\ from <= Len(ms)  BY <1>1 DEF Cuts
  <1>3. clean \in SUBSET Nat /\ Len(ms) \in clean  BY <1>2
  <1>4. Cut(ms) = CHOOSE k \in clean : \A m \in clean : k <= m  BY DEF Cut
  <1>5. Cut(ms) \in clean
    <2> HIDE DEF clean
    <2>1. \E k \in clean : \A m \in clean : k <= m  BY <1>3, LeastNat
    <2> QED  BY <1>4, <2>1
  <1>6. Cut(ms) > 1 /\ Cut(ms) < Len(ms)  BY DEF Cuts
  <1> QED  BY <1>2, <1>5, <1>6

\* What is sent of a conversation: from its message c on, the summary of those up
\* to c in front if there are more than one, of its last ones if the summarizer was
\* not shown all; nothing is on another's words.
Follows(out, ms, c) ==
    /\ out \in Seq(Outgoing)
    /\ c \in 1..Len(ms) /\ Len(out) = Len(ms) - c + 1
    /\ c # 1 => c # Len(ms) /\ ms[c + 1].role # "tool"
    /\ \A k \in 1..Len(out) :
         /\ out[k].upto = c + k - 1
         /\ k = 1 /\ c # 1 => out[k].at = 0 /\ out[k].role = "user"
         /\ k = 1 /\ c # 1 => out[k].from = 1 \/ c > Shown
         /\ k # 1 \/ c = 1 => out[k].at = c + k - 1 /\ out[k].role = ms[c + k - 1].role
         /\ k # 1 \/ c = 1 => out[k].from = c + k - 1
         /\ out[k].attached # {} => out[k].role = "user"

Unshortened(out) == \A k \in 1..Len(out) : ~out[k].short

\* The whole conversation follows from its first message.
LEMMA WholeFollows ==
    ASSUME NEW ms \in Seq(Said), Len(ms) # 0
    PROVE  Follows(Whole(ms), ms, 1) /\ Unshortened(Whole(ms))
  <1> DEFINE out == Whole(ms)
  <1>1. out = [k \in 1..Len(ms) |-> AsSent(ms, k)]  BY DEF Whole
  <1>2. ASSUME NEW k \in 1..Len(ms)
        PROVE  /\ AsSent(ms, k) \in Outgoing /\ AsSent(ms, k).at = k /\ AsSent(ms, k).upto = k
               /\ AsSent(ms, k).from = k /\ AsSent(ms, k).role = ms[k].role /\ AsSent(ms, k).attached = {} /\ ~AsSent(ms, k).short
    <2>1. ms[k] \in Said /\ k \in Nat  OBVIOUS
    <2>2. ms[k].role \in {"user", "assistant", "tool"}  BY <2>1 DEF Said
    <2> QED  BY <2>1, <2>2 DEF AsSent, Outgoing
  <1> HIDE DEF out
  <1>3. out \in Seq(Outgoing) /\ Len(out) = Len(ms)  BY <1>1, <1>2
  <1>4. \A k \in 1..Len(ms) : out[k] = AsSent(ms, k)  BY <1>1
  <1>5. Unshortened(out)  BY <1>2, <1>3, <1>4 DEF Unshortened
  <1>6. Follows(out, ms, 1)  BY <1>2, <1>3, <1>4 DEF Follows
  <1> QED  BY <1>5, <1>6 DEF out

\* A cut conversation follows from the cut.
LEMMA CompressedFollows ==
    ASSUME NEW ms \in Seq(Said), Cuts(ms)
    PROVE  Follows(Compressed(ms), ms, Cut(ms)) /\ Unshortened(Compressed(ms))
  <1> DEFINE c == Cut(ms)
             tail == SubSeq(Whole(ms), c + 1, Len(ms))
             out == Compressed(ms)
  <1>1. c \in 2..(Len(ms) - 1) /\ ms[c + 1].role # "tool" /\ Len(ms) \in Nat  BY CutIsClean
  <1>2. /\ Whole(ms) \in Seq(Outgoing) /\ Len(Whole(ms)) = Len(ms)
        /\ \A k \in 1..Len(ms) : /\ Whole(ms)[k].upto = k /\ Whole(ms)[k].at = k
                                 /\ Whole(ms)[k].from = k /\ Whole(ms)[k].role = ms[k].role
                                 /\ Whole(ms)[k].attached = {} /\ ~Whole(ms)[k].short
    <2>1. Len(ms) # 0  BY <1>1
    <2>2. Follows(Whole(ms), ms, 1) /\ Unshortened(Whole(ms))  BY <2>1, WholeFollows
    <2>3. Whole(ms) \in Seq(Outgoing) /\ Len(Whole(ms)) = Len(ms)  BY <1>1, <2>2 DEF Follows
    <2>4. ASSUME NEW k \in 1..Len(ms)
          PROVE  /\ Whole(ms)[k].upto = k /\ Whole(ms)[k].at = k /\ Whole(ms)[k].from = k
                 /\ Whole(ms)[k].role = ms[k].role
                 /\ Whole(ms)[k].attached = {} /\ ~Whole(ms)[k].short
      <3>1. Whole(ms)[k] = AsSent(ms, k)  BY DEF Whole
      <3> QED  BY <3>1 DEF AsSent
    <2> QED  BY <2>3, <2>4
  <1> HIDE DEF c
  <1>3. tail \in Seq(Outgoing) /\ Len(tail) = Len(ms) - c /\ \A k \in 1..(Len(ms) - c) : tail[k] = Whole(ms)[c + k]
    BY <1>1, <1>2, SMTT(60)
  <1>4. Summary(c) \in Outgoing /\ Summary(c).at = 0 /\ Summary(c).role = "user" /\ Summary(c).upto = c
        /\ Summary(c).attached = {} /\ ~Summary(c).short /\ (Summary(c).from = 1 \/ c > Shown)
    <2>1. Shown \in Nat  BY PreparationAssumption
    <2>2. (IF c > Shown THEN c - Shown + 1 ELSE 1) \in Nat  BY <1>1, <2>1
    <2> QED  BY <1>1, <2>2 DEF Summary, Outgoing
  <1>5. out = <<Summary(c)>> \o tail  BY DEF Compressed, c
  <1> HIDE DEF tail, out
  <1>6. /\ out \in Seq(Outgoing) /\ Len(out) = Len(ms) - c + 1 /\ out[1] = Summary(c)
        /\ \A k \in 1..Len(out) : k # 1 => out[k] = tail[k - 1]
    BY <1>1, <1>3, <1>4, <1>5
  <1>7. ASSUME NEW k \in 1..Len(out), k # 1
        PROVE  /\ out[k].upto = c + k - 1 /\ out[k].at = c + k - 1 /\ out[k].from = c + k - 1
               /\ out[k].role = ms[c + k - 1].role /\ out[k].attached = {} /\ ~out[k].short
    <2>1. k - 1 \in 1..(Len(ms) - c) /\ c + (k - 1) = c + k - 1 /\ c + k - 1 \in 1..Len(ms)
      BY <1>1, <1>6, <1>7
    <2>2. out[k] = Whole(ms)[c + k - 1]  BY <1>3, <1>6, <1>7, <2>1
    <2> QED  BY <1>2, <2>1, <2>2
  <1>8. Unshortened(out)  BY <1>4, <1>6, <1>7 DEF Unshortened
  <1>9. Follows(out, ms, c)
    <2>1. ASSUME NEW k \in 1..Len(out)
          PROVE  /\ out[k].upto = c + k - 1
                 /\ k = 1 /\ c # 1 => out[k].at = 0 /\ out[k].role = "user"
                 /\ k = 1 /\ c # 1 => out[k].from = 1 \/ c > Shown
                 /\ k # 1 \/ c = 1 => out[k].at = c + k - 1 /\ out[k].role = ms[c + k - 1].role
                 /\ k # 1 \/ c = 1 => out[k].from = c + k - 1
                 /\ out[k].attached # {} => out[k].role = "user"
      <3>1. CASE k = 1  BY <1>1, <1>4, <1>6, <3>1
      <3>2. CASE k # 1  BY <1>7, <3>2
      <3> QED  BY <3>1, <3>2
    <2>2. out \in Seq(Outgoing) /\ Len(out) = Len(ms) - c + 1  BY <1>6
    <2>3. c \in 1..Len(ms)  BY <1>1
    <2>4. c # 1 => c # Len(ms) /\ ms[c + 1].role # "tool"  BY <1>1
    <2> QED  BY <2>1, <2>2, <2>3, <2>4, Zenon DEF Follows
  <1> QED  BY <1>8, <1>9 DEF out, c

\* What is attached is attached to words of the user.
LEMMA AttachFollows ==
    ASSUME NEW ms \in Seq(Said), NEW out, NEW c, Follows(out, ms, c), Unshortened(out),
           NEW what \in {"drafts", "briefing"}, NEW ks \in SUBSET UsersIn(out)
    PROVE  Follows(Attach(out, ks, what), ms, c) /\ Unshortened(Attach(out, ks, what))
  <1> DEFINE j == Max(ks)
             to == Attach(out, ks, what)
  <1>1. out \in Seq(Outgoing) /\ DOMAIN out = 1..Len(out) /\ Len(out) \in Nat  BY DEF Follows
  <1>2. CASE ks = {}
    <2>1. to = out  BY <1>2 DEF Attach
    <2> QED  BY <2>1
  <1>3. CASE ks # {}
    <2>1. ks \in SUBSET (1..Len(out)) /\ ks \in SUBSET Nat  BY <1>1 DEF UsersIn
    <2>2. IsFiniteSet(ks)
      <3>1. IsFiniteSet(1..Len(out))  BY <1>1, FS_Interval
      <3> QED  BY <2>1, <3>1, FS_Subset
    <2>5. j \in ks  BY <1>3, <2>1, <2>2, MaxIsThere
    <2>6. j \in 1..Len(out) /\ out[j].role = "user"  BY <1>1, <2>5 DEF UsersIn
    <2> HIDE DEF j
    <2>7. to = [out EXCEPT ![j].attached = @ \union {what}]  BY <1>3 DEF Attach, j
    <2> DEFINE m == [out[j] EXCEPT !.attached = @ \union {what}]
    <2>8. m \in Outgoing /\ m.at = out[j].at /\ m.role = out[j].role /\ m.from = out[j].from
          /\ m.upto = out[j].upto /\ m.short = out[j].short
      <3>1. out[j] \in Outgoing  BY <1>1, <2>6
      <3> QED  BY <3>1 DEF Outgoing
    <2>9. to = [out EXCEPT ![j] = m]  BY <2>7
    <2> HIDE DEF m, to
    <2>10. to \in Seq(Outgoing) /\ Len(to) = Len(out)
           /\ \A k \in 1..Len(out) : to[k] = IF k = j THEN m ELSE out[k]
      BY <1>1, <2>6, <2>8, <2>9
    <2>11. Unshortened(to)  BY <2>6, <2>8, <2>10 DEF Unshortened
    <2>12. ASSUME NEW k \in 1..Len(to)
           PROVE  /\ to[k].upto = out[k].upto /\ to[k].at = out[k].at /\ to[k].role = out[k].role
                  /\ to[k].from = out[k].from
                  /\ to[k].attached # {} => k = j \/ out[k].attached # {}
      <3>1. CASE k = j  BY <2>8, <2>10, <3>1
      <3>2. CASE k # j  BY <2>10, <3>2
      <3> QED  BY <3>1, <3>2
    <2>13. Follows(to, ms, c)  BY <2>6, <2>10, <2>12, SMTT(60) DEF Follows
    <2> QED  BY <2>11, <2>13 DEF to
  <1> QED  BY <1>2, <1>3

\* Shortening leaves everything in its place, and the user's last words alone.
LEMMA CavemanFollows ==
    ASSUME NEW ms \in Seq(Said), NEW out, NEW c, Follows(out, ms, c), Unshortened(out), NEW mode
    PROVE  LET to == Caveman(ms, out, mode)
           IN  Follows(to, ms, c) /\ (to[Len(to)].role = "user" => ~to[Len(to)].short)
  <1> DEFINE to == Caveman(ms, out, mode)
  <1>1. out \in Seq(Outgoing) /\ DOMAIN out = 1..Len(out) /\ Len(out) \in Nat /\ Len(out) # 0
    BY DEF Follows
  <1>2. CASE mode = "off"
    <2>1. to = out  BY <1>2 DEF Caveman
    <2>2. ~out[Len(out)].short  BY <1>1 DEF Unshortened
    <2> QED  BY <2>1, <2>2
  <1>3. CASE mode # "off"
    <2> DEFINE cut(k) == Shortens(ms, out, k, mode = "asked")
               m(k) == [out[k] EXCEPT !.short = cut(k)]
    <2>1. to = [k \in 1..Len(out) |-> m(k)]  BY <1>1, <1>3 DEF Caveman
    <2>2. ASSUME NEW k \in 1..Len(out)
          PROVE  /\ m(k) \in Outgoing /\ m(k).at = out[k].at /\ m(k).role = out[k].role
                 /\ m(k).from = out[k].from /\ m(k).upto = out[k].upto /\ m(k).attached = out[k].attached /\ m(k).short = cut(k)
      <3>1. out[k] \in Outgoing  BY <1>1
      <3>2. cut(k) \in BOOLEAN  BY DEF Shortens
      <3> HIDE DEF cut
      <3> QED  BY <3>1, <3>2 DEF Outgoing
    <2>3. out[Len(out)].role = "user" => ~cut(Len(out))  BY DEF Shortens
    <2> HIDE DEF cut, m, to
    <2>4. to \in Seq(Outgoing) /\ Len(to) = Len(out) /\ \A k \in 1..Len(out) : to[k] = m(k)
      BY <1>1, <2>1, <2>2
    <2>5. Follows(to, ms, c)  BY <2>2, <2>4, ZenonT(60) DEF Follows
    <2>6. to[Len(to)].role = "user" => ~to[Len(to)].short  BY <1>1, <2>2, <2>3, <2>4
    <2> QED  BY <2>5, <2>6 DEF to
  <1> QED  BY <1>2, <1>3

\* A request made like this has what its results answer, and everything else.
LEMMA NothingOrphaned ==
    ASSUME Talk, NEW out, NEW c, Follows(out, history, c),
           out[Len(out)].role = "user" => ~out[Len(out)].short
    PROVE  WellSent(out)
  <1> DEFINE n == Len(out)
             h == Len(history)
  <1>1. /\ history \in Seq(Said) /\ Called(history) /\ out \in Seq(Outgoing) /\ DOMAIN out = 1..n
        /\ n \in Nat /\ h \in Nat /\ c \in 1..h /\ n = h - c + 1 /\ n # 0
        /\ c # 1 => c # h /\ history[c + 1].role # "tool"
    BY DEF Talk, Follows
  <1>2. ASSUME NEW k \in 1..n
        PROVE  /\ out[k].upto = c + k - 1
               /\ k = 1 /\ c # 1 => out[k].at = 0 /\ out[k].role = "user"
               /\ k # 1 \/ c = 1 => out[k].at = c + k - 1 /\ out[k].role = history[c + k - 1].role
               /\ out[k].attached # {} => out[k].role = "user"
    BY DEF Follows
  <1>9. ASSUME NEW k \in 1..n
        PROVE  /\ k = 1 /\ c # 1 => out[k].from = 1 \/ c > Shown
               /\ k # 1 \/ c = 1 => out[k].from = c + k - 1
    BY DEF Follows
  <1> HIDE DEF n, h
  <1>3. ASSUME NEW k \in 1..n, out[k].role = "tool"
        PROVE  \E m \in 1..(k - 1) : out[m].at = CallOf(out[k].at)
    <2> DEFINE j == c + k - 1
               a == CallOf(j)
    <2>1. out[k].at = j /\ history[j].role = "tool" /\ j \in 1..h
      <3>1. k # 1 \/ c = 1  BY <1>2, <1>3
      <3>2. out[k].at = j /\ out[k].role = history[j].role  BY <1>2, <3>1
      <3>3. j \in 1..h  BY <1>1
      <3> QED  BY <1>3, <3>2, <3>3
    <2>2. a \in 1..j /\ history[a].role = "assistant" /\ \A m \in (a + 1)..j : history[m].role = "tool"
      <3>1. j \in DOMAIN history  BY <1>1, <2>1 DEF h
      <3> HIDE DEF j
      <3> QED  BY <1>1, <2>1, <3>1, CallIsThere DEF CallOf
    <2>3. a # j  BY <2>1, <2>2
    <2> HIDE DEF a
    <2>4. c = 1 \/ c < a
      <3> SUFFICES ASSUME c # 1, ~(c < a) PROVE FALSE  OBVIOUS
      <3>1. k # 1  BY <1>2, <1>3
      <3>2. c + 1 \in (a + 1)..j  BY <1>1, <2>2, <3>1
      <3> QED  BY <1>1, <2>2, <3>2
    <2> DEFINE m == a - c + 1
    <2>5. m \in 1..(k - 1) /\ m \in 1..n /\ c + m - 1 = a /\ (m # 1 \/ c = 1)  BY <1>1, <2>2, <2>3, <2>4
    <2> HIDE DEF m
    <2>6. out[m].at = a  BY <1>2, <2>5
    <2> QED  BY <2>1, <2>5, <2>6 DEF a
  <1>4. ASSUME NEW k \in 1..n, k # 1 PROVE out[k].from = out[k - 1].upto + 1
    <2>1. k - 1 \in 1..n  BY <1>1, <1>4
    <2>2. out[k].from = c + k - 1 /\ out[k - 1].upto = c + (k - 1) - 1  BY <1>2, <1>4, <1>9, <2>1
    <2> QED  BY <1>1, <2>2
  <1>5. out[1].from = 1 \/ (out[1].at = 0 /\ out[1].upto > Shown)
    <2>1. 1 \in 1..n /\ out[1].upto = c  BY <1>1, <1>2
    <2>2. CASE c = 1  BY <1>1, <1>9, <2>1, <2>2
    <2>3. CASE c # 1
      <3>1. out[1].at = 0  BY <1>2, <2>1, <2>3
      <3>2. out[1].from = 1 \/ c > Shown  BY <1>9, <2>1, <2>3
      <3> QED  BY <2>1, <3>1, <3>2
    <2> QED  BY <2>2, <2>3
  <1>6. Last(out) = out[n] /\ n \in 1..n  BY <1>1 DEF Last, n
  <1>7. Last(out).at = h
    <2>1. n # 1 \/ c = 1  BY <1>1
    <2> QED  BY <1>1, <1>2, <1>6, <2>1
  <1>8. Last(out).role = "user" => ~Last(out).short  BY <1>6 DEF n
  <1> QED  BY <1>1, <1>2, <1>3, <1>4, <1>5, <1>7, <1>8 DEF WellSent, h

PrepInv == Talk /\ NoOrphanResults

\* It holds at first: nothing is sent.
LEMMA PrepBegin == PrepInit => PrepInv
  <1> SUFFICES ASSUME PrepInit PROVE PrepInv  OBVIOUS
  <1>1. PICK text \in Texts : history = <<[role |-> "user", calls |-> 0, text |-> text]>>  BY DEF PrepInit
  <1> DEFINE m == [role |-> "user", calls |-> 0, text |-> text]
  <1>2. history \in Seq(Said) /\ Len(history) = 1 /\ history[1].role = "user"
    <2>1. m \in Said /\ m.role = "user"  BY DEF Said
    <2> HIDE DEF m
    <2>2. history = <<m>>  BY <1>1 DEF m
    <2> QED  BY <2>1, <2>2
  <1>3. Talk  BY <1>2 DEF PrepInit, Talk, Called
  <1> QED  BY <1>3 DEF PrepInit, PrepInv, NoOrphanResults

\* Every request is made of the whole conversation.
LEMMA PrepareKeeps ==
    ASSUME PrepInv, NEW works, NEW way, NEW planned, NEW answer, NEW mode,
           Prepare(works, way, planned, answer, mode)
    PROVE  PrepInv'
  <1> DEFINE cuts == Cuts(history) /\ (works \/ Cut(history) \in summaries)
             head == IF cuts THEN Compressed(history) ELSE Whole(history)
             c == IF cuts THEN Cut(history) ELSE 1
             brief == IF planned THEN Attach(head, Wordy(history, head), "briefing") ELSE head
             drafts == IF way \in {"fusion", "router to fusion"} THEN Attach(brief, UsersIn(brief), "drafts")
                       ELSE brief
             out == Caveman(history, drafts, mode)
  <1>1. Talk /\ due = 0 /\ due' = due /\ history' = history /\ sent'.messages = out
    BY DEF PrepInv, Prepare
  <1>2. Follows(head, history, c) /\ Unshortened(head)
    <2>1. CASE cuts  BY <1>1, <2>1, CompressedFollows DEF Talk
    <2>2. CASE ~cuts  BY <1>1, <2>2, WholeFollows DEF Talk
    <2> QED  BY <2>1, <2>2
  <1>3. history \in Seq(Said)  BY <1>1 DEF Talk
  <1> HIDE DEF head, c
  <1>4. Follows(brief, history, c) /\ Unshortened(brief)
    <2>1. "briefing" \in {"drafts", "briefing"} /\ Wordy(history, head) \in SUBSET UsersIn(head)
      BY DEF Wordy
    <2> QED  BY <1>2, <1>3, <2>1, AttachFollows
  <1> HIDE DEF brief
  <1>5. Follows(drafts, history, c) /\ Unshortened(drafts)
    <2>1. "drafts" \in {"drafts", "briefing"} /\ UsersIn(brief) \in SUBSET UsersIn(brief)  OBVIOUS
    <2> QED  BY <1>3, <1>4, <2>1, AttachFollows
  <1> HIDE DEF drafts
  <1>6. Follows(out, history, c) /\ (out[Len(out)].role = "user" => ~out[Len(out)].short)
    BY <1>3, <1>5, CavemanFollows
  <1> HIDE DEF out
  <1>7. Talk'  BY <1>1 DEF Talk
  <1>8. WellSent(out)  BY <1>1, <1>6, NothingOrphaned
  <1>9. NoOrphanResults'
    <2>1. \A k : CallOf(k)' = CallOf(k)  BY <1>1 DEF CallOf
    <2> QED  BY <1>1, <1>8, <2>1 DEF NoOrphanResults, WellSent
  <1> QED  BY <1>7, <1>9 DEF PrepInv

\* A message more, of the client or of the model.
LEMMA SayKeeps ==
    ASSUME PrepInv,
           \/ \E calls \in 0..MaxCalls : Reply(calls)
           \/ Retry
           \/ \E text \in Texts : (text # "none" /\ Result(text)) \/ Ask(text)
    PROVE  PrepInv'
  <1>1. ASSUME NEW role \in {"user", "assistant", "tool"}, NEW calls \in Nat, NEW text \in Texts,
               history' = Say(role, calls, text),
               role = "tool" => history[Len(history)].role \in {"assistant", "tool"}
        PROVE  /\ history' \in Seq(Said) /\ Len(history') # 0 /\ Called(history')
               /\ history'[Len(history')].role = role
    <2> DEFINE m == [role |-> role, calls |-> calls, text |-> text]
    <2>1. m \in Said /\ m.role = role  BY <1>1 DEF Said
    <2> HIDE DEF m
    <2>2. history' = Append(history, m)  BY <1>1 DEF Say, m
    <2>3. history \in Seq(Said) /\ Len(history) \in Nat \ {0} /\ Called(history)  BY DEF PrepInv, Talk
    <2>4. /\ history' \in Seq(Said) /\ Len(history') = Len(history) + 1
          /\ DOMAIN history' = 1..(Len(history) + 1) /\ DOMAIN history = 1..Len(history)
          /\ history'[Len(history) + 1] = m
          /\ \A k \in 1..Len(history) : history'[k] = history[k]
      BY <2>1, <2>2, <2>3
    <2>5. ASSUME NEW k \in DOMAIN history', history'[k].role = "tool"
          PROVE  k # 1 /\ history'[k - 1].role \in {"assistant", "tool"}
      <3>1. CASE k = Len(history) + 1
        <4>1. k # 1 /\ k - 1 = Len(history) /\ role = "tool" /\ history'[k - 1] = history[k - 1]
          BY <2>1, <2>3, <2>4, <2>5, <3>1
        <4> QED  BY <1>1, <4>1
      <3>2. CASE k # Len(history) + 1
        <4>1. k \in DOMAIN history /\ history'[k] = history[k]  BY <2>3, <2>4, <2>5, <3>2
        <4>2. k # 1 /\ history[k - 1].role \in {"assistant", "tool"}  BY <2>3, <2>5, <4>1 DEF Called
        <4>3. k - 1 \in 1..Len(history)  BY <2>3, <2>4, <4>1, <4>2
        <4> QED  BY <2>4, <4>2, <4>3
      <3> QED  BY <3>1, <3>2
    <2> QED  BY <2>1, <2>3, <2>4, <2>5 DEF Called
  <1>2. due \in Nat /\ (due # 0 => sent = NotSent /\ history[Len(history)].role \in {"assistant", "tool"})
    BY DEF PrepInv, Talk
  <1>3. ASSUME NEW calls \in 0..MaxCalls, Reply(calls) PROVE PrepInv'
    <2>1. history' = Say("assistant", calls, "short") /\ due' = calls /\ sent' = NotSent  BY <1>3 DEF Reply
    <2>2. calls \in Nat /\ "short" \in Texts  BY PreparationAssumption DEF Texts
    <2>3. /\ history' \in Seq(Said) /\ Len(history') # 0 /\ Called(history')
          /\ history'[Len(history')].role = "assistant"
      BY <1>1, <2>1, <2>2
    <2>4. Talk'  BY <2>1, <2>2, <2>3 DEF Talk
    <2> QED  BY <2>1, <2>4 DEF PrepInv, NoOrphanResults
  <1>4. ASSUME NEW text \in Texts, Result(text) PROVE PrepInv'
    <2>1. history' = Say("tool", 0, text) /\ due # 0 /\ due' \in Nat /\ sent' = sent  BY <1>2, <1>4 DEF Result
    <2>2. sent' = NotSent /\ history[Len(history)].role \in {"assistant", "tool"}  BY <1>2, <2>1
    <2>3. /\ history' \in Seq(Said) /\ Len(history') # 0 /\ Called(history')
          /\ history'[Len(history')].role = "tool"
      BY <1>1, <2>1, <2>2
    <2>4. Talk'  BY <2>1, <2>2, <2>3 DEF Talk
    <2> QED  BY <2>2, <2>4 DEF PrepInv, NoOrphanResults
  <1>5. ASSUME NEW text \in Texts, Ask(text) PROVE PrepInv'
    <2>1. history' = Say("user", 0, text) /\ due = 0 /\ due' = due /\ sent' = NotSent  BY <1>5 DEF Ask
    <2>2. history' \in Seq(Said) /\ Len(history') # 0 /\ Called(history')  BY <1>1, <2>1
    <2>3. Talk'  BY <1>2, <2>1, <2>2 DEF Talk
    <2> QED  BY <2>1, <2>3 DEF PrepInv, NoOrphanResults
  <1>6. ASSUME Retry PROVE PrepInv'
    <2>1. UNCHANGED <<history, due>> /\ sent' = NotSent  BY <1>6 DEF Retry
    <2> QED  BY <2>1 DEF PrepInv, Talk, Called, NoOrphanResults
  <1> QED  BY <1>3, <1>4, <1>5, <1>6

\* For any conversation, cut, attachment and shortening, a tool result is sent behind
\* its call, and every message is sent or summarised, once and in order, but for the
\* oldest of a head longer than what the summarizer is shown (Compress, FusionWith,
\* CavemanCompress).
THEOREM NothingIsOrphaned == PrepSpec => []NoOrphanResults
  <1>1. PrepInv /\ [PrepNext]_prepVars => PrepInv'
    <2> SUFFICES ASSUME PrepInv, [PrepNext]_prepVars PROVE PrepInv'  OBVIOUS
    <2>1. CASE \E works, way, planned, answer, mode : Prepare(works, way, planned, answer, mode)
      BY <2>1, PrepareKeeps
    <2>2. CASE \/ \E calls \in 0..MaxCalls : Reply(calls)
               \/ Retry
               \/ \E text \in Texts : (text # "none" /\ Result(text)) \/ Ask(text)
      BY <2>2, SayKeeps
    <2>3. CASE UNCHANGED prepVars
      BY <2>3 DEF prepVars, PrepInv, Talk, Called, NoOrphanResults, WellSent, CallOf
    <2> QED  BY <2>1, <2>2, <2>3, Zenon DEF PrepNext
  <1>2. PrepInv => NoOrphanResults  BY DEF PrepInv
  <1> QED  BY <1>1, <1>2, PrepBegin, PTL DEF PrepSpec

=============================================================================
