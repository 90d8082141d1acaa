------------------------------- MODULE Tables -------------------------------
(* Four small tables of the process, each bounded and each with a clock: who *)
(* is a session's main agent (sessionRole in src/internal/proxy/proxy.go),   *)
(* which failover was announced (globalfallback.go), which administrator was *)
(* verified (src/internal/store/admin.go), and the size of the cache log and *)
(* its rotation (cachelog.go). Ages are counted in ticks.                    *)
EXTENDS Integers, FiniteSets

CONSTANTS
    Sessions, Talks,      \* harness sessions, and their conversations' fingerprints
    Active,               \* sessionMainActive
    Hour,                 \* how long the clean-up leaves a seat alone
    SeatMax,              \* seats from which a new one cleans up
    Pairs,                \* failovers: "from -> to"
    NoticeTTL, NoticeMax, \* failoverNoticeTTL, failoverNoticeMax
    Passwords,            \* what administrators type
    AdminTTL, AdminMax,   \* adminCacheTTL, adminCacheMax
    MaxHashes,            \* bound on password changes
    LogMax, LineMax,      \* cacheLogMaxBytes, and the longest line
    FileMax               \* bound on a file that failed rotations let grow

ASSUME TablesAssumption ==
    /\ Active \in Nat /\ Hour \in Nat /\ Active <= Hour
    /\ {SeatMax, NoticeMax, AdminMax, NoticeTTL, AdminTTL, LineMax, LogMax, FileMax} \subseteq Nat \ {0}
    /\ LineMax <= LogMax /\ LogMax + LineMax <= FileMax

VARIABLES
    seats,        \* [session -> who sits there and how long ago it spoke; or empty]
    notices,      \* [pair -> ticks since it was announced; -1: not in the table]
    hash,         \* the stored password and how often it was changed
    verified,     \* the cache: [pass, of, age]
    log,          \* the writer and its file: [open, n, size], and whether its count slipped
    told,         \* what the last call answered
    since         \* [pair -> ticks since it was last shown, -1: never, or the table dropped]

tablesVars == <<seats, notices, hash, verified, log, told, since>>

Empty == [talk |-> "nobody", age |-> 0]
Quiet == [what |-> "none"]

TablesInit ==
    /\ seats = [s \in Sessions |-> Empty]
    /\ notices = [k \in Pairs |-> -1] /\ since = notices
    /\ hash \in {[pass |-> w, of |-> 0] : w \in Passwords}
    /\ verified = {}
    /\ log = [open |-> FALSE, n |-> 0, size |-> 0, slipped |-> FALSE]
    /\ told = Quiet

-----------------------------------------------------------------------------
(* Seats.                                                                    *)

\* Faulty: whoever looks like the main agent sits down.
TakesAny(s, talk) == TRUE

\* The seat is free, the same conversation's, or has been quiet too long.
Takes(s, talk) == seats[s] = Empty \/ seats[s].talk = talk \/ seats[s].age > Active

\* The clean-up that a taken seat sets off when there are too many.
Swept(t) ==
    IF Cardinality({s \in Sessions : t[s] # Empty}) > SeatMax
    THEN [s \in Sessions |-> IF t[s].age > Hour THEN Empty ELSE t[s]]
    ELSE t

\* sessionRole for a request with the main agent's prompt.
SessionRole(s, talk) ==
    /\ IF Takes(s, talk)
       THEN /\ seats' = Swept([seats EXCEPT ![s] = [talk |-> talk, age |-> 0]])
            /\ told' = [what |-> "role", main |-> TRUE]
       ELSE told' = [what |-> "role", main |-> FALSE] /\ UNCHANGED seats
    /\ UNCHANGED <<notices, hash, verified, log, since>>

-----------------------------------------------------------------------------
(* Notices.                                                                  *)

\* Faulty: the age compared the wrong way round.
AnnounceStale(k) == notices[k] = -1 \/ notices[k] < NoticeTTL

Due(k) == notices[k] = -1 \/ notices[k] >= NoticeTTL

\* announce: a full table is dropped first.
Announce(k) ==
    LET full == Cardinality({p \in Pairs : notices[p] # -1}) >= NoticeMax
    IN  /\ told' = [what |-> "notice", pair |-> k, shown |-> Due(k)]
        /\ IF Due(k)
           THEN /\ notices' = [p \in Pairs |-> IF p = k THEN 0 ELSE IF full THEN -1 ELSE notices[p]]
                /\ since' = [p \in Pairs |-> IF p = k THEN 0 ELSE IF full THEN -1 ELSE since[p]]
           ELSE UNCHANGED <<notices, since>>
        /\ UNCHANGED <<seats, hash, verified, log>>

-----------------------------------------------------------------------------
(* Administrators. A stored hash is the password and its change: the salt is *)
(* new each time.                                                            *)

SetPassword(pass) ==
    /\ hash.of < MaxHashes
    /\ hash' = [pass |-> pass, of |-> hash.of + 1]
    /\ told' = Quiet
    /\ UNCHANGED <<seats, notices, verified, log, since>>

\* Faulty: the entry does not name the hash it was checked against.
HitAnyHash(pass) == \E v \in verified : v.pass = pass /\ v.age < AdminTTL

Hit(pass) == \E v \in verified : v.pass = pass /\ v.of = hash.of /\ v.age < AdminTTL

\* VerifyAdmin: a hit, or the comparison, whose success is remembered; a full
\* cache is dropped first.
VerifyAdmin(pass) ==
    LET new == [pass |-> pass, of |-> hash.of, age |-> 0]
        old == {v \in verified : ~(v.pass = pass /\ v.of = hash.of)}
    IN  /\ told' = [what |-> "admin", pass |-> pass, ok |-> Hit(pass) \/ pass = hash.pass]
        /\ verified' = IF Hit(pass) \/ pass # hash.pass THEN verified
                       ELSE IF Cardinality(verified) >= AdminMax THEN {new} ELSE old \union {new}
        /\ UNCHANGED <<seats, notices, hash, log, since>>

-----------------------------------------------------------------------------
(* The cache log.                                                            *)

\* Faulty: the counter starts at nothing with every opening.
OpenedAnew(stats) == IF log.open THEN log ELSE [log EXCEPT !.open = TRUE, !.n = 0]

\* The file is opened if it is not, and its size looked up; a size that cannot
\* be had leaves the counter as it was.
Opened(stats) ==
    IF log.open THEN log
    ELSE [log EXCEPT !.open = TRUE, !.n = IF stats THEN log.size ELSE @,
                     !.slipped = @ \/ (~stats /\ log.n # log.size)]

\* A full file becomes the old one, and a new one is started; a rename that
\* fails is not noticed and the counter starts over on the full file.
Rotated(l, len, renames) ==
    IF l.n + len <= LogMax THEN l
    ELSE [l EXCEPT !.n = 0, !.size = IF renames THEN 0 ELSE @, !.slipped = ~renames /\ l.size > 0]

\* writeCacheRecord: nothing is written when the file does not open, before or
\* after the rotation; a write that fails, having written a part, closes it.
WriteRecord(len, stats, renames, reopens, part) ==
    LET l == Opened(stats)
        rotates == l.n + len > LogMax
        r == Rotated(l, len, renames)
    IN  /\ log' = IF rotates /\ ~reopens THEN [r EXCEPT !.open = FALSE, !.n = l.n]
                  ELSE IF part < len THEN [r EXCEPT !.open = FALSE, !.size = @ + part]
                  ELSE [r EXCEPT !.n = @ + len, !.size = @ + len]
        /\ told' = Quiet
        /\ UNCHANGED <<seats, notices, hash, verified, since>>

\* The process ends and starts: the tables in memory are empty, the file stays.
RestartTables ==
    /\ seats' = [s \in Sessions |-> Empty]
    /\ notices' = [k \in Pairs |-> -1] /\ since' = notices'
    /\ verified' = {}
    /\ log' = [log EXCEPT !.open = FALSE, !.n = 0]
    /\ told' = Quiet
    /\ UNCHANGED hash

Aged(age, most) == IF age = -1 \/ age > most THEN age ELSE age + 1

TickTables ==
    /\ seats' = [s \in Sessions |-> IF seats[s] = Empty THEN Empty
                                    ELSE [seats[s] EXCEPT !.age = Aged(@, Hour)]]
    /\ notices' = [k \in Pairs |-> Aged(notices[k], NoticeTTL)]
    /\ since' = [k \in Pairs |-> Aged(since[k], NoticeTTL)]
    /\ verified' = {[v EXCEPT !.age = Aged(@, AdminTTL)] : v \in verified}
    /\ told' = Quiet
    /\ UNCHANGED <<hash, log>>

SeatsNext == \E s \in Sessions, talk \in Talks : SessionRole(s, talk)
NoticesNext == \E k \in Pairs : Announce(k)
AdminNext == \E pass \in Passwords : SetPassword(pass) \/ VerifyAdmin(pass)
LogNext ==
    \E len \in 1..LineMax, stats, renames, reopens \in BOOLEAN :
        /\ log.size + len <= FileMax
        /\ \E part \in 0..len : WriteRecord(len, stats, renames, reopens, part)
CommonNext == RestartTables \/ TickTables

TablesNext == SeatsNext \/ NoticesNext \/ AdminNext \/ LogNext \/ CommonNext

TablesSpec == TablesInit /\ [][TablesNext]_tablesVars

-----------------------------------------------------------------------------

\* A conversation that looks like the main agent is called a fork only while
\* another one sits there and spoke within the active time, and takes a seat
\* over only from one that did not (sessionRole).
SeatHeld ==
    \A s \in Sessions : seats[s] # Empty /\ seats'[s] # Empty /\ seats'[s].talk # seats[s].talk =>
        seats[s].age > Active

\* A failover is announced once in its time to live, unless the table was
\* dropped in between (announce).
NoticeOnce ==
    told'.what = "notice" /\ told'.shown =>
        since[told'.pair] = -1 \/ since[told'.pair] >= NoticeTTL

\* A password is accepted only while it is the stored one, whatever is cached
\* (VerifyAdmin).
CurrentPassword == told'.what = "admin" /\ told'.ok => told'.pass = hash.pass

\* The three tables in memory answer for what is the case now: seats held by
\* those who speak, notices given once, passwords of today.
TablesCurrent == [][SeatHeld /\ NoticeOnce /\ CurrentPassword]_tablesVars

\* The log's counter is the file's size while it is open, and the file keeps
\* its bound but for a rename, or a look at its size, that failed: through
\* rotations, torn writes, files that do not reopen and restarts
\* (writeCacheRecord).
LogBounded ==
    ~log.slipped => (log.open => log.n = log.size) /\ log.size <= LogMax
=============================================================================
