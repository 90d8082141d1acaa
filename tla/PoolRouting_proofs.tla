-------------------------- MODULE PoolRouting_proofs --------------------------
(***************************************************************************)
(* Proofs about PoolRouting, for any set of requests, members,             *)
(* conversations and settings: type correctness, the dispatch counters,    *)
(* that routing implements PoolLeases, and that a conversation returns to  *)
(* the member that answered it last.                                       *)
(***************************************************************************)
EXTENDS PoolRouting, FiniteSetTheorems, TLAPS

\* What TypeOK needs of a handler's locals while it scans, compares and tries:
\* once a counter has been read there is a best member, and a scan that may
\* yield knows the prefix owner it compares with.
Reading == {"scan", "near", "far", "cold"}

LocalsOK ==
    \A r \in Request :
        /\ turn[r].next >= 1 /\ scan[r].next >= 1
        /\ pc[r] \notin Reading => scan[r] = NoScan
        /\ scan[r].next > 1 => scan[r].best \in Member
        /\ pc[r] = "scan" /\ scan[r].aim = "yield" => scan[r].owner \in Member
        /\ pc[r] \in {"near", "far"} => /\ scan[r].best \in Member
                                        /\ scan[r].owner \in Member
        /\ pc[r] \in {"rebindConv", "rebindPrefix"} => turn[r].at \in Member

TypeInv == TypeOK /\ LocalsOK

\* A pool lists at least two members, all of them members.
LEMMA SpecFacts ==
  ASSUME NEW s \in Specs
  PROVE  /\ s.members \in Seq(Member) /\ Len(s.members) \in Nat /\ Len(s.members) >= 2
         /\ \A i \in 1..Len(s.members) : s.members[i] \in Member
         /\ Listed(s.members) \subseteq Member
         /\ s.affinity \in BOOLEAN /\ s.probe \in BOOLEAN /\ s.failover \in BOOLEAN
  BY PoolAssumption DEF IsSpec, Listed

\* The empty locals of a handler are of their type.
LEMMA NoTurnType == NoTurn \in Turn
  BY PoolAssumption DEF NoTurn, Turn

\* So is a scan that starts, and it starts at the first member.
LEMMA ScanType ==
  ASSUME NEW aim \in {"busy", "yield", "cold"}, NEW weight \in [Member -> Nat],
         NEW owner \in Member \cup {None}
  PROVE  /\ Scan(aim, weight, owner) \in Scans
         /\ Scan(aim, weight, owner).next = 1
         /\ Scan(aim, weight, owner).aim = aim
         /\ Scan(aim, weight, owner).owner = owner
  BY DEF Scan, Scans

\* And the scan of a handler that does not scan.
LEMMA NoScanType == NoScan \in Scans /\ NoScan.next = 1 /\ NoScan.aim = "busy"
  BY ScanType DEF NoScan, NoWeight

\* A live binding is a member or none.
LEMMA BoundType ==
  ASSUME TypeOK, NEW k \in Conv \cup Prefix, NEW s \in Specs
  PROVE  Bound(k, s) \in Member \cup {None}
  BY SpecFacts DEF TypeOK, Bound

\* A handler looks up and binds keys of the table only.
LEMMA KeysType ==
  ASSUME TypeOK, NEW r \in Request
  PROVE  ConvKey(r) \in Conv /\ PrefKey(r) \in Prefix /\ turn[r].spec \in Specs
  BY PoolAssumption DEF TypeOK, Turn, ConvKey, PrefKey

\* Types are kept when the member is chosen and the locals of the scan cleared.
LEMMA ChooseType ==
  ASSUME TypeInv, NEW r \in Request, NEW m \in Member, Choose(r, m),
         UNCHANGED <<setting, inflight, bind, home>>
  PROVE  TypeInv'
<1>1. turn' \in [Request -> Turn] /\ turn'[r].member = m /\ turn'[r].next = turn[r].next
  BY SMTT(60) DEF TypeInv, TypeOK, Choose, Turn
<1>2. scan' \in [Request -> Scans] /\ scan'[r] = NoScan
  BY NoScanType DEF TypeInv, TypeOK, Choose
<1>3. \A q \in Request : q # r => /\ turn'[q] = turn[q] /\ scan'[q] = scan[q]
                                  /\ pc'[q] = pc[q]
  BY DEF TypeInv, TypeOK, Choose, Goto
<1>4. pc'[r] \in {"pinConv", "dispatch"} /\ pc' \in [Request -> Positions]
  BY DEF TypeInv, TypeOK, Choose, Goto, Positions
<1>5. TypeOK'
  BY <1>1, <1>2, <1>3, <1>4 DEF TypeInv, TypeOK, Placed, Holding
<1>6. LocalsOK'
  BY <1>1, <1>2, <1>3, <1>4, NoScanType DEF TypeInv, LocalsOK, Reading
<1>. QED
  BY <1>5, <1>6 DEF TypeInv

\* Types hold at the start.
LEMMA TypeInit == Init => TypeInv
<1>. SUFFICES ASSUME Init PROVE TypeInv
  OBVIOUS
<1>1. TypeOK
  BY NoTurnType, NoScanType DEF Init, TypeOK, Positions, Placed, Holding
<1>2. LocalsOK
  BY NoScanType DEF Init, LocalsOK, NoTurn
<1>. QED
  BY <1>1, <1>2 DEF TypeInv

\* Types are kept when one handler moves and its locals have their types after.
LEMMA StepType ==
  ASSUME TypeInv, NEW r \in Request, NEW to \in Positions,
         setting' \in Specs, inflight' \in [Member -> Int],
         bind' \in [Conv \cup Prefix -> Member \cup {None}],
         home' \in [Conv -> Member \cup {None}],
         Goto(r, to),
         turn' \in [Request -> Turn], scan' \in [Request -> Scans],
         \A q \in Request : q # r => /\ turn'[q].member = turn[q].member
                                     /\ turn'[q].next = turn[q].next
                                     /\ turn'[q].at = turn[q].at
                                     /\ scan'[q] = scan[q],
         turn'[r].next >= 1, scan'[r].next >= 1, to \notin Reading => scan'[r] = NoScan,
         scan'[r].next > 1 => scan'[r].best \in Member,
         to = "scan" /\ scan'[r].aim = "yield" => scan'[r].owner \in Member,
         to \in {"near", "far"} => scan'[r].best \in Member /\ scan'[r].owner \in Member,
         to \in Placed => turn'[r].member \in Member,
         to \in {"rebindConv", "rebindPrefix"} => turn'[r].at \in Member
  PROVE  TypeInv'
<1>1. pc' \in [Request -> Positions] /\ pc'[r] = to
      /\ \A q \in Request : q # r => pc'[q] = pc[q]
  BY DEF TypeInv, TypeOK, Goto
<1>2. TypeOK'
  BY <1>1 DEF TypeInv, TypeOK
<1>3. LocalsOK'
  BY <1>1 DEF TypeInv, LocalsOK
<1>. QED
  BY <1>2, <1>3 DEF TypeInv

\* An arriving request keeps the types, its own locals and those it disturbs.
LEMMA ArriveType ==
  ASSUME TypeInv, NEW r \in Request, NEW c \in Conv, Arrive(r, c)
  PROVE  TypeInv'
<1> DEFINE t == [NoTurn EXCEPT !.conv = c, !.spec = setting, !.clean = (TurnsOf(c) = {})]
           to == IF setting.affinity THEN "conv" ELSE "scan"
<1>1. setting \in Specs /\ turn \in [Request -> Turn] /\ scan \in [Request -> Scans]
  BY DEF TypeInv, TypeOK
<1>2. t \in Turn /\ t.next = 1
  BY <1>1, NoTurnType DEF Turn, NoTurn
<1>3. Disturb(c) \in [Request -> Turn]
      /\ \A q \in Request : /\ Disturb(c)[q].member = turn[q].member
                            /\ Disturb(c)[q].next = turn[q].next
                            /\ Disturb(c)[q].at = turn[q].at
  BY <1>1 DEF Disturb, Turn
<1>4. turn' = [Disturb(c) EXCEPT ![r] = t] /\ Goto(r, to) /\ to \in Positions
  BY DEF Arrive, Positions
<1>. HIDE DEF t
<1>5. /\ turn' \in [Request -> Turn] /\ turn'[r].next = 1
      /\ \A q \in Request : q # r => /\ turn'[q].member = turn[q].member
                                     /\ turn'[q].next = turn[q].next
                                     /\ turn'[q].at = turn[q].at
  BY <1>2, <1>3, <1>4
<1>6. home' \in [Conv -> Member \cup {None}]
  BY DEF Arrive, TypeInv, TypeOK
<1>7. scan[r] = NoScan
  BY DEF Arrive, TypeInv, LocalsOK, Reading
<1>8. to \notin Placed \cup {"near", "far", "rebindConv", "rebindPrefix"} /\ to \in {"conv", "scan"}
  BY DEF Placed, Holding
<1>9. inflight' \in [Member -> Int] /\ bind' \in [Conv \cup Prefix -> Member \cup {None}]
      /\ setting' \in Specs /\ scan' = scan
  BY DEF Arrive, TypeInv, TypeOK
<1>. QED
  BY <1>1, <1>4, <1>5, <1>6, <1>7, <1>8, <1>9, NoScanType, StepType

\* Types are kept by a step that only moves a handler on or changes its scan.
LEMMA ReadType ==
  ASSUME TypeInv, NEW r \in Request, NEW to \in Positions, Goto(r, to),
         NEW u \in Scans, scan' = [scan EXCEPT ![r] = u],
         UNCHANGED <<setting, inflight, bind, turn, home>>,
         u.next >= 1, to \notin Reading => u = NoScan,
         u.next > 1 => u.best \in Member,
         to = "scan" /\ u.aim = "yield" => u.owner \in Member,
         to \in {"near", "far"} => u.best \in Member /\ u.owner \in Member,
         to \notin {"rebindConv", "rebindPrefix"},
         to \in Placed => turn[r].member \in Member
  PROVE  TypeInv'
<1>1. scan' \in [Request -> Scans] /\ scan'[r] = u
      /\ \A q \in Request : q # r => scan'[q] = scan[q]
  BY DEF TypeInv, TypeOK
<1>2. turn[r].next >= 1
  BY DEF TypeInv, LocalsOK
<1>. QED
  BY <1>1, <1>2, StepType DEF TypeInv, TypeOK

\* ... in particular when the handler starts a scan, or has none.
LEMMA FreshScanType ==
  ASSUME TypeInv, NEW r \in Request, NEW to \in Positions, Goto(r, to),
         NEW u \in Scans, scan' = [scan EXCEPT ![r] = u],
         UNCHANGED <<setting, inflight, bind, turn, home>>,
         u.next = 1, to \in {"prefix", "cold", "scan"},
         to = "prefix" => u = NoScan, u.aim = "yield" => u.owner \in Member
  PROVE  TypeInv'
<1>1. to \notin Placed /\ to \notin {"near", "far", "rebindConv", "rebindPrefix"}
      /\ (to \notin Reading => u = NoScan)
  BY DEF Placed, Holding, Reading
<1>2. u.next >= 1 /\ ~(u.next > 1)
  OBVIOUS
<1>. QED
  BY <1>1, <1>2, ReadType

\* Reading one counter does: the best so far is a member.
LEMMA ScanOneType ==
  ASSUME TypeInv, NEW r \in Request, ScanOne(r)
  PROVE  TypeInv'
<1> DEFINE s == scan[r]
           m == turn[r].spec.members[s.next]
           cost == s.weight[m] * 8 + inflight[m]
           b == IF Lighter(cost, s) THEN m ELSE s.best
           w == IF Lighter(cost, s) THEN cost ELSE s.low
           u == [s EXCEPT !.next = s.next + 1, !.best = b, !.low = w]
<1>1. s \in Scans /\ s.next >= 1 /\ turn[r].spec \in Specs /\ pc[r] = "scan"
  BY DEF ScanOne, TypeInv, TypeOK, LocalsOK, Turn
<1>2. m \in Member
  BY <1>1, SpecFacts DEF ScanOne, Scans
<1>3. cost \in Int
  BY <1>1, <1>2 DEF TypeInv, TypeOK, Scans
<1>4. u \in Scans /\ u.next = s.next + 1 /\ u.aim = s.aim /\ u.owner = s.owner
      /\ u.best = b
  <2>1. s.next + 1 \in Nat /\ b \in Member \cup {None} /\ w \in Int
    BY <1>1, <1>2, <1>3 DEF Scans
  <2>. HIDE DEF s, b, w
  <2>. QED
    BY <1>1, <2>1 DEF Scans
<1>5. u.best \in Member
  BY <1>1, <1>2, <1>4, Zenon DEF Lighter, Scans
<1>6. scan' = [scan EXCEPT ![r] = u]
  BY DEF ScanOne
<1>7. Goto(r, "scan")
  BY <1>1 DEF ScanOne, Goto, TypeInv, TypeOK
<1>8. s.aim = "yield" => s.owner \in Member
  BY <1>1 DEF TypeInv, LocalsOK
<1>9. UNCHANGED <<setting, inflight, bind, turn, home>>
  BY DEF ScanOne
<1>10. u.next >= 1 /\ (u.aim = "yield" => u.owner \in Member)
  <2>. HIDE DEF u
  <2>. QED
    BY <1>1, <1>4, <1>8 DEF Scans
<1>11. "scan" \in Positions /\ "scan" \in Reading /\ "scan" \notin Placed
  BY DEF Positions, Reading, Placed, Holding
<1>. HIDE DEF u, s
<1>. QED
  BY <1>4, <1>5, <1>6, <1>7, <1>9, <1>10, <1>11, ReadType

\* Looking up either binding does: a bound member is a member of the pool.
LEMMA LookupType ==
  ASSUME TypeInv, NEW r \in Request, LookupConv(r) \/ LookupPrefix(r)
  PROVE  TypeInv'
<1>0. TypeOK /\ scan \in [Request -> Scans] /\ pc \in [Request -> Positions]
  BY DEF TypeInv, TypeOK
<1>1. CASE LookupConv(r)
  <2> DEFINE m == Bound(ConvKey(r), turn[r].spec)
  <2>1. m \in Member \cup {None} /\ UNCHANGED <<setting, inflight, bind, home>>
    BY <1>0, <1>1, KeysType, BoundType DEF LookupConv
  <2>2. CASE m # None /\ Choose(r, m)
    <3>. HIDE DEF m
    <3>. QED
      BY <2>1, <2>2, ChooseType
  <2>3. CASE Goto(r, "prefix") /\ UNCHANGED <<turn, scan>>
    <3>1. scan' = [scan EXCEPT ![r] = NoScan] /\ scan[r] = NoScan
      BY <1>0, <1>1, <2>3 DEF LookupConv, TypeInv, LocalsOK, Reading
    <3>. QED
      BY <2>1, <2>3, <3>1, NoScanType, FreshScanType DEF Positions
  <2>. QED
    BY <1>1, <2>2, <2>3 DEF LookupConv
<1>2. CASE LookupPrefix(r)
  <2> DEFINE m == Bound(PrefKey(r), turn[r].spec)
  <2>1. m \in Member \cup {None} /\ UNCHANGED <<setting, inflight, bind, turn, home>>
    BY <1>0, <1>2, KeysType, BoundType DEF LookupPrefix
  <2>2. CASE Goto(r, "cold") /\ UNCHANGED scan
    <3>1. scan' = [scan EXCEPT ![r] = NoScan] /\ scan[r] = NoScan
      BY <1>0, <1>2, <2>2 DEF LookupPrefix, TypeInv, LocalsOK, Reading
    <3>. QED
      BY <2>1, <2>2, <3>1, NoScanType, FreshScanType DEF Positions
  <2>3. CASE m # None /\ scan' = [scan EXCEPT ![r] = Scan("yield", NoWeight, m)]
             /\ Goto(r, "scan")
    <3>1. NoWeight \in [Member -> Nat] /\ m \in Member
      BY <2>1, <2>3 DEF NoWeight
    <3>. HIDE DEF m
    <3>2. /\ Scan("yield", NoWeight, m) \in Scans /\ Scan("yield", NoWeight, m).next = 1
          /\ Scan("yield", NoWeight, m).owner = m
      BY <3>1, ScanType
    <3>. QED
      BY <2>1, <2>3, <3>1, <3>2, FreshScanType DEF Positions
  <2>. QED
    BY <1>2, <2>2, <2>3 DEF LookupPrefix
<1>. QED
  BY <1>1, <1>2

\* Starting a cold placement does.
LEMMA ColdStartType ==
  ASSUME TypeInv, NEW r \in Request, ColdStart(r)
  PROVE  TypeInv'
<1>1. PICK w \in [Member -> Nat] : scan' = [scan EXCEPT ![r] = Scan("cold", w, None)]
  BY PoolAssumption DEF ColdStart, NoWeight
<1>2. /\ Scan("cold", w, None) \in Scans /\ Scan("cold", w, None).next = 1
      /\ Scan("cold", w, None).aim = "cold"
  BY ScanType
<1>3. Goto(r, "scan") /\ UNCHANGED <<setting, inflight, bind, turn, home>>
  BY DEF ColdStart
<1>. QED
  BY <1>1, <1>2, <1>3, FreshScanType DEF Positions

\* The end of a pass does: a pool lists members, so the pass has a best one.
LEMMA ScanEndType ==
  ASSUME TypeInv, NEW r \in Request, ScanEnd(r)
  PROVE  TypeInv'
<1>1. /\ scan[r] \in Scans /\ turn[r].spec \in Specs /\ scan \in [Request -> Scans]
      /\ scan[r].next >= 1 /\ pc[r] = "scan" /\ UNCHANGED <<setting, inflight, bind, home>>
  BY DEF ScanEnd, TypeInv, TypeOK, LocalsOK, Turn
<1>2. scan[r].best \in Member
  BY <1>1, SpecFacts, SMTT(60) DEF ScanEnd, TypeInv, LocalsOK, Scans
<1>3. CASE Choose(r, scan[r].best)
  BY <1>1, <1>2, <1>3, ChooseType
<1>4. CASE scan[r].aim = "yield" /\ Goto(r, "near") /\ UNCHANGED <<turn, scan>>
  <2>1. scan[r].owner \in Member
    BY <1>1, <1>4 DEF TypeInv, LocalsOK
  <2>2. scan' = [scan EXCEPT ![r] = scan[r]]
    BY <1>1, <1>4
  <2>. QED
    BY <1>1, <1>2, <1>4, <2>1, <2>2, ReadType DEF Positions, Placed, Holding, Reading
<1>. QED
  BY <1>3, <1>4 DEF ScanEnd

\* Reading the winner again does.
LEMMA ReadNearType ==
  ASSUME TypeInv, NEW r \in Request, ReadNear(r)
  PROVE  TypeInv'
<1> DEFINE low == inflight[scan[r].best]
           u == [scan[r] EXCEPT !.low = low]
<1>1. /\ scan[r] \in Scans /\ scan[r].next >= 1 /\ scan[r].best \in Member
      /\ scan[r].owner \in Member /\ low \in Int
  BY DEF ReadNear, TypeInv, TypeOK, LocalsOK
<1>2. scan' = [scan EXCEPT ![r] = u]
  BY DEF ReadNear
<1>3. u \in Scans /\ u.next = scan[r].next /\ u.best = scan[r].best
      /\ u.owner = scan[r].owner
  <2>. HIDE DEF low
  <2>. QED
    BY <1>1 DEF Scans
<1>4. Goto(r, "far") /\ UNCHANGED <<setting, inflight, bind, turn, home>>
  BY DEF ReadNear
<1>. HIDE DEF u
<1>. QED
  BY <1>1, <1>2, <1>3, <1>4, ReadType DEF Positions, Placed, Holding, Reading

\* Comparing the owner with it does: the owner is a member.
LEMMA ReadFarType ==
  ASSUME TypeInv, NEW r \in Request, ReadFar(r)
  PROVE  TypeInv'
<1>1. /\ scan[r] \in Scans /\ scan \in [Request -> Scans] /\ scan[r].next >= 1
      /\ scan[r].best \in Member /\ scan[r].owner \in Member
      /\ UNCHANGED <<setting, inflight, bind, home>>
  BY DEF ReadFar, TypeInv, TypeOK, LocalsOK
<1>2. CASE Choose(r, scan[r].owner)
  BY <1>1, <1>2, ChooseType
<1>3. CASE Goto(r, "cold") /\ UNCHANGED <<turn, scan>>
  <2>1. scan' = [scan EXCEPT ![r] = scan[r]]
    BY <1>1, <1>3
  <2>. QED
    BY <1>1, <1>3, <2>1, ReadType DEF Positions, Placed, Holding, Reading
<1>. QED
  BY <1>2, <1>3 DEF ReadFar

\* Types are kept by a step of a handler that has chosen its member.
LEMMA ServeType ==
  ASSUME TypeInv, NEW r \in Request, NEW to \in Positions \ Reading, Goto(r, to),
         pc[r] \notin Reading,
         NEW u \in Turn, turn' = [turn EXCEPT ![r] = u], u.next >= 1,
         to \in Placed => u.member \in Member,
         to \in {"rebindConv", "rebindPrefix"} => u.at \in Member,
         inflight' \in [Member -> Int], bind' \in [Conv \cup Prefix -> Member \cup {None}],
         home' \in [Conv -> Member \cup {None}], UNCHANGED <<setting, scan>>
  PROVE  TypeInv'
<1>1. /\ turn' \in [Request -> Turn] /\ turn'[r] = u
      /\ \A q \in Request : q # r => turn'[q] = turn[q]
  BY DEF TypeInv, TypeOK
<1>2. scan' = scan /\ scan[r] = NoScan /\ scan \in [Request -> Scans] /\ setting' \in Specs
  BY DEF TypeInv, TypeOK, LocalsOK
<1>3. to \notin {"scan", "near", "far", "cold"}
  BY DEF Reading
<1>. QED
  BY <1>1, <1>2, <1>3, NoScanType, StepType

\* Putting a binding does: what is put is a member.
LEMMA PinType ==
  ASSUME TypeInv, NEW r \in Request,
         PinConv(r) \/ SeePrefix(r) \/ PinPrefix(r) \/ RebindConv(r) \/ RebindPrefix(r)
  PROVE  TypeInv'
<1>1. /\ turn[r] \in Turn /\ turn' = [turn EXCEPT ![r] = turn[r]] /\ turn[r].next >= 1
      /\ inflight' \in [Member -> Int] /\ home' \in [Conv -> Member \cup {None}]
      /\ UNCHANGED <<setting, scan>>
  BY DEF TypeInv, TypeOK, LocalsOK, PinConv, SeePrefix, PinPrefix, RebindConv, RebindPrefix
<1>2. turn[r].member \in Member /\ pc[r] \notin Reading
  BY DEF TypeInv, TypeOK, PinConv, SeePrefix, PinPrefix, RebindConv, RebindPrefix,
         Placed, Holding, Reading
<1>3. /\ ConvKey(r) \in Conv \cup Prefix /\ PrefKey(r) \in Conv \cup Prefix
  BY KeysType DEF TypeInv
<1>4. bind' \in [Conv \cup Prefix -> Member \cup {None}]
  <2>1. CASE PinConv(r) \/ SeePrefix(r) \/ PinPrefix(r)
    BY <1>2, <1>3, <2>1 DEF TypeInv, TypeOK, PinConv, SeePrefix, PinPrefix
  <2>2. CASE RebindConv(r) \/ RebindPrefix(r)
    BY <1>3, <2>2 DEF TypeInv, TypeOK, LocalsOK, RebindConv, RebindPrefix
  <2>. QED
    BY <2>1, <2>2
<1>5. PICK to \in Positions \ Reading :
            Goto(r, to) /\ (to \in {"rebindConv", "rebindPrefix"} => turn[r].at \in Member)
  BY DEF TypeInv, LocalsOK, PinConv, SeePrefix, PinPrefix, RebindConv, RebindPrefix, Positions, Reading
<1>. QED
  BY <1>1, <1>2, <1>4, <1>5, ServeType

\* The retry position moves forward.
LEMMA SkipPickedType ==
  \A t \in Turn : \A i \in Nat : SkipPicked(t, i) \in Nat /\ SkipPicked(t, i) >= i
  BY DEF SkipPicked

\* Dispatching to the chosen member does.
LEMMA DispatchType ==
  ASSUME TypeInv, NEW r \in Request, Dispatch(r)
  PROVE  TypeInv'
<1> DEFINE n == FirstSibling(turn[r])
           u == [turn[r] EXCEPT !.at = turn[r].member, !.next = n]
<1>1. /\ turn[r] \in Turn /\ turn[r].member \in Member /\ turn[r].spec \in Specs
      /\ pc[r] \notin Reading
  BY DEF Dispatch, TypeInv, TypeOK, Turn, Placed, Reading
<1>2. n \in Nat /\ n >= 1
  <2>1. SkipPicked(turn[r], 1) \in Nat /\ SkipPicked(turn[r], 1) >= 1
    BY <1>1, SkipPickedType
  <2>2. Len(turn[r].spec.members) \in Nat
    BY <1>1, SpecFacts
  <2>. QED
    BY <2>1, <2>2 DEF FirstSibling
<1>3. u \in Turn /\ u.next = n /\ u.member = turn[r].member
  <2>. HIDE DEF n
  <2>. QED
    BY <1>1, <1>2 DEF Turn
<1>4. turn' = [turn EXCEPT ![r] = u]
  BY DEF Dispatch
<1>5. /\ inflight' \in [Member -> Int] /\ bind' \in [Conv \cup Prefix -> Member \cup {None}]
      /\ home' \in [Conv -> Member \cup {None}] /\ UNCHANGED <<setting, scan>>
      /\ Goto(r, "attempt")
  BY <1>1 DEF Dispatch, TypeInv, TypeOK
<1>6. "attempt" \in Positions \ Reading /\ "attempt" \notin {"rebindConv", "rebindPrefix"}
  BY DEF Positions, Reading
<1>. HIDE DEF u, n
<1>. QED
  BY <1>1, <1>2, <1>3, <1>4, <1>5, <1>6, ServeType

\* An answer does: only a member that answered is bound again.
LEMMA AnswerType ==
  ASSUME TypeInv, NEW r \in Request, NEW reply \in {"ok", "error"}, Answer(r, reply)
  PROVE  TypeInv'
<1> DEFINE u == [turn[r] EXCEPT !.reply = reply]
           to == IF Rebinds(turn[r]) THEN "rebindConv" ELSE "relay"
<1>1. /\ turn[r] \in Turn /\ turn[r].member \in Member /\ turn[r].next >= 1
      /\ pc[r] \notin Reading
  BY DEF Answer, TypeInv, TypeOK, LocalsOK, Placed, Holding, Reading
<1>2. u \in Turn /\ u.next = turn[r].next /\ u.member = turn[r].member /\ u.at = turn[r].at
  BY <1>1 DEF Turn
<1>3. turn' = [turn EXCEPT ![r] = u] /\ Goto(r, to)
  BY DEF Answer
<1>4. to \in Positions \ Reading /\ (to \in {"rebindConv", "rebindPrefix"} => u.at \in Member)
  BY <1>2 DEF Positions, Reading, Rebinds
<1>5. /\ inflight' \in [Member -> Int] /\ bind' \in [Conv \cup Prefix -> Member \cup {None}]
      /\ home' \in [Conv -> Member \cup {None}] /\ UNCHANGED <<setting, scan>>
  BY <1>1 DEF Answer, Settles, TypeInv, TypeOK, Turn
<1>. HIDE DEF u, to
<1>. QED
  BY <1>1, <1>2, <1>3, <1>4, <1>5, ServeType

\* Moving to the next candidate does.
LEMMA TryNextType ==
  ASSUME TypeInv, NEW r \in Request, TryNext(r)
  PROVE  TypeInv'
<1> DEFINE t == turn[r]
<1>1. /\ t \in Turn /\ t.member \in Member /\ t.spec \in Specs /\ t.next >= 1
      /\ t.next \in Nat /\ pc[r] = "attempt"
  BY DEF TryNext, TypeInv, TypeOK, LocalsOK, Turn, Placed, Holding
<1>2. /\ inflight' \in [Member -> Int] /\ bind' \in [Conv \cup Prefix -> Member \cup {None}]
      /\ home' \in [Conv -> Member \cup {None}] /\ UNCHANGED <<setting, scan>>
      /\ Goto(r, "attempt")
  BY <1>1 DEF TryNext, TypeInv, TypeOK, Goto
<1>3. "attempt" \in Positions \ Reading /\ "attempt" \notin {"rebindConv", "rebindPrefix"}
  BY DEF Positions, Reading
<1>4. ASSUME NEW at \in Member \cup {Elsewhere}, NEW n \in Nat, n >= 1,
             turn' = [turn EXCEPT ![r] = [t EXCEPT !.at = at, !.next = n]]
      PROVE  TypeInv'
  <2> DEFINE u == [t EXCEPT !.at = at, !.next = n]
  <2>1. u \in Turn /\ u.next = n /\ u.member = t.member
    <3>. HIDE DEF t
    <3>. QED
      BY <1>1 DEF Turn
  <2>2. turn' = [turn EXCEPT ![r] = u]
    BY <1>4
  <2>. HIDE DEF u
  <2>. QED
    BY <1>1, <1>2, <1>3, <1>4, <2>1, <2>2, ServeType, ZenonT(60)
<1>7. Len(t.spec.members) \in Nat
  BY <1>1, SpecFacts
<1>5. CASE t.next <= Len(t.spec.members)
  <2> DEFINE at == t.spec.members[t.next]
             n == SkipPicked(t, t.next + 1)
  <2>1. at \in Member /\ n \in Nat /\ n >= 1
    <3>1. at \in Member /\ t.next + 1 \in Nat
      BY <1>1, <1>5, SpecFacts
    <3>2. n \in Nat /\ n >= t.next + 1
      BY <1>1, <3>1, SkipPickedType
    <3>. QED
      BY <1>1, <3>1, <3>2
  <2>2. turn' = [turn EXCEPT ![r].at = at, ![r].next = n]
    BY <1>1, <1>5, <1>7 DEF TryNext
  <2>3. [turn EXCEPT ![r].at = at, ![r].next = n]
          = [turn EXCEPT ![r] = [t EXCEPT !.at = at, !.next = n]]
    <3>. HIDE DEF at, n
    <3>. QED
      OBVIOUS
  <2>. QED
    BY <1>4, <2>1, <2>2, <2>3
<1>6. CASE t.next > Len(t.spec.members)
  <2>1. turn' = [turn EXCEPT ![r] = [t EXCEPT !.at = Elsewhere, !.next = t.next]]
    <3>1. turn' = [turn EXCEPT ![r] = [t EXCEPT !.at = Elsewhere]]
      BY <1>1, <1>6, <1>7 DEF TryNext
    <3>2. [t EXCEPT !.at = Elsewhere] = [t EXCEPT !.at = Elsewhere, !.next = t.next]
      <4>. HIDE DEF t
      <4>. QED
        BY <1>1 DEF Turn
    <3>. QED
      BY <3>1, <3>2
  <2>. QED
    BY <1>1, <1>4, <2>1
<1>. QED
  BY <1>1, <1>5, <1>6, <1>7

\* The end of a request does.
LEMMA FinishType ==
  ASSUME TypeInv, NEW r \in Request, pc[r] \in Holding, Finish(r)
  PROVE  TypeInv'
<1>1. /\ inflight' \in [Member -> Int] /\ bind' \in [Conv \cup Prefix -> Member \cup {None}]
      /\ home' \in [Conv -> Member \cup {None}] /\ UNCHANGED <<setting, scan>>
      /\ Goto(r, "idle") /\ turn' = [turn EXCEPT ![r] = NoTurn]
  BY DEF Finish, Released, TypeInv, TypeOK, Placed
<1>2. /\ "idle" \in Positions \ Reading /\ "idle" \notin Placed
      /\ "idle" \notin {"rebindConv", "rebindPrefix"} /\ pc[r] \notin Reading
      /\ NoTurn.next >= 1
  BY DEF Positions, Reading, Placed, Holding, NoTurn
<1>. QED
  BY <1>1, <1>2, NoTurnType, ServeType

\* Losing a binding does.
LEMMA ForgetType ==
  ASSUME TypeInv, NEW k \in Conv \cup Prefix, Forget(k)
  PROVE  TypeInv'
<1>1. /\ turn' = Disturb(k) /\ Disturb(k) \in [Request -> Turn]
      /\ \A q \in Request : /\ Disturb(k)[q].member = turn[q].member
                            /\ Disturb(k)[q].next = turn[q].next
                            /\ Disturb(k)[q].at = turn[q].at
  BY ZenonT(60) DEF Forget, Disturb, TypeInv, TypeOK, Turn
<1>2. /\ UNCHANGED <<setting, inflight, pc, scan>>
      /\ bind' \in [Conv \cup Prefix -> Member \cup {None}]
      /\ home' \in [Conv -> Member \cup {None}]
  BY DEF Forget, TypeInv, TypeOK
<1>3. TypeOK'
  BY <1>1, <1>2 DEF TypeInv, TypeOK
<1>4. LocalsOK'
  BY <1>1, <1>2 DEF TypeInv, LocalsOK
<1>. QED
  BY <1>3, <1>4 DEF TypeInv

\* Every step keeps the types, one case per action.
LEMMA TypeStep == TypeInv /\ [Next]_vars => TypeInv'
<1>. SUFFICES ASSUME TypeInv, [Next]_vars PROVE TypeInv'
  OBVIOUS
<1>1. ASSUME NEW r \in Request, NEW c \in Conv, Arrive(r, c) PROVE TypeInv'
  BY <1>1, ArriveType
<1>2. ASSUME NEW r \in Request, Route(r) PROVE TypeInv'
  BY <1>2, LookupType, ColdStartType, ScanOneType, ScanEndType, ReadNearType, ReadFarType,
     PinType, DispatchType DEF Route
<1>3. ASSUME NEW r \in Request, Serve(r) PROVE TypeInv'
  BY <1>3, AnswerType, PinType, TryNextType, FinishType DEF Serve, Relayed, GiveUp, Holding
<1>4. CASE Reconfigure
  BY <1>4 DEF Reconfigure, TypeInv, TypeOK, LocalsOK
<1>5. ASSUME NEW k \in Conv \cup Prefix, Forget(k) PROVE TypeInv'
  BY <1>5, ForgetType
<1>6. CASE UNCHANGED vars
  BY <1>6 DEF vars, TypeInv, TypeOK, LocalsOK
<1>. QED
  BY <1>1, <1>2, <1>3, <1>4, <1>5, <1>6 DEF Next

\* So they hold throughout.
LEMMA TypeAlways == Spec => []TypeInv
<1>. QED
  BY TypeInit, TypeStep, PTL DEF Spec

\* Every variable keeps its type, and a request past the choice has a member:
\* no interleaving of look-ups, scans and failovers dispatches to nothing.
THEOREM TypeCorrect == Spec => []TypeOK
<1>1. TypeInv => TypeOK
  BY DEF TypeInv
<1>. QED
  BY TypeAlways, <1>1, PTL

-------------------------------------------------------------------------------
(* The counters: a step takes one lease, drops one, or leaves them alone.  *)

LeasesSame == inflight' = inflight /\ \A q \in Request : LeaseOf(q)' = LeaseOf(q)

LeaseTaken(r, m) ==
    /\ LeaseOf(r) = None /\ LeaseOf(r)' = m
    /\ \A q \in Request \ {r} : LeaseOf(q)' = LeaseOf(q)
    /\ inflight' = [inflight EXCEPT ![m] = @ + 1]

LeaseDropped(r, m) ==
    /\ LeaseOf(r) = m /\ LeaseOf(r)' = None
    /\ \A q \in Request \ {r} : LeaseOf(q)' = LeaseOf(q)
    /\ inflight' = [inflight EXCEPT ![m] = @ - 1]

\* A handler that does not move in or out of the holding positions, and does not
\* change its member while it holds, changes no lease.
LEMMA SameLease ==
  ASSUME TypeInv, NEW r \in Request, NEW to \in Positions, Goto(r, to),
         inflight' = inflight,
         \A q \in Request : q # r => turn'[q].member = turn[q].member,
         pc[r] \in Holding <=> to \in Holding,
         to \in Holding => turn'[r].member = turn[r].member
  PROVE  LeasesSame
<1>1. pc'[r] = to /\ \A q \in Request : q # r => pc'[q] = pc[q]
  BY DEF TypeInv, TypeOK, Goto
<1>. QED
  BY <1>1 DEF LeasesSame, LeaseOf

\* A routing step takes a lease if it dispatches and changes none otherwise.
LEMMA RouteLease ==
  ASSUME TypeInv, NEW r \in Request, Route(r)
  PROVE  LeasesSame \/ \E m \in Member : LeaseTaken(r, m)
<1>1. CASE Dispatch(r)
  <2>1. turn[r].member \in Member /\ pc[r] = "dispatch"
    BY <1>1 DEF Dispatch, TypeInv, TypeOK, Placed
  <2>2. /\ pc'[r] = "attempt" /\ turn'[r].member = turn[r].member
        /\ \A q \in Request : q # r => pc'[q] = pc[q] /\ turn'[q] = turn[q]
    BY <1>1 DEF Dispatch, Goto, TypeInv, TypeOK, Turn
  <2>3. LeaseOf(r) = None /\ LeaseOf(r)' = turn[r].member
    BY <2>1, <2>2 DEF LeaseOf, Holding
  <2>4. \A q \in Request \ {r} : LeaseOf(q)' = LeaseOf(q)
    BY <2>2 DEF LeaseOf
  <2>5. inflight' = [inflight EXCEPT ![turn[r].member] = @ + 1]
    BY <1>1 DEF Dispatch
  <2>6. LeaseTaken(r, turn[r].member)
    BY <2>3, <2>4, <2>5 DEF LeaseTaken
  <2>. QED
    BY <2>1, <2>6
<1>2. CASE ~Dispatch(r)
  <2>1. /\ pc[r] \notin Holding /\ inflight' = inflight
        /\ \E to \in Positions \ Holding : Goto(r, to)
    <3>1. CASE \E m \in Member \cup {None} : Choose(r, m) /\ inflight' = inflight
                                             /\ pc[r] \in {"conv", "scan", "far"}
      BY <3>1 DEF Choose, Holding, Positions
    <3>2. CASE ScanOne(r)
      BY <3>2 DEF ScanOne, Goto, TypeInv, TypeOK, Holding, Positions
    <3>3. CASE \/ LookupPrefix(r) \/ ColdStart(r) \/ ReadNear(r) \/ PinConv(r)
               \/ SeePrefix(r) \/ PinPrefix(r)
      BY <3>3 DEF LookupPrefix, ColdStart, ReadNear, PinConv, SeePrefix, PinPrefix,
                  Holding, Positions
    <3>4. CASE LookupConv(r)
      <4>1. Bound(ConvKey(r), turn[r].spec) \in Member \cup {None}
        BY KeysType, BoundType DEF TypeInv
      <4>. QED
        BY <3>1, <3>4, <4>1 DEF LookupConv, Holding, Positions
    <3>5. CASE ScanEnd(r)
      BY <3>1, <3>5 DEF ScanEnd, Holding, Positions, TypeInv, TypeOK, Scans
    <3>6. CASE ReadFar(r)
      BY <3>1, <3>6, SMTT(60) DEF ReadFar, Holding, Positions, TypeInv, TypeOK, Scans
    <3>. QED
      BY <1>2, <3>2, <3>3, <3>4, <3>5, <3>6 DEF Route
  <2>2. \A q \in Request : q # r => turn'[q].member = turn[q].member
    BY <1>2 DEF Route, LookupConv, LookupPrefix, ColdStart, ScanOne, ScanEnd, ReadNear,
                ReadFar, PinConv, SeePrefix, PinPrefix, Choose, TypeInv, TypeOK
  <2>. QED
    BY <2>1, <2>2, SameLease
<1>. QED
  BY <1>1, <1>2

\* A serving step drops the lease if it ends the request and changes none otherwise.
LEMMA ServeLease ==
  ASSUME TypeInv, NEW r \in Request, Serve(r)
  PROVE  LeasesSame \/ \E m \in Member : LeaseDropped(r, m)
<1>1. CASE Relayed(r) \/ GiveUp(r)
  <2>1. pc[r] \in Holding /\ Finish(r) /\ turn[r].member \in Member
    BY <1>1 DEF Relayed, GiveUp, Holding, Placed, TypeInv, TypeOK
  <2>2. pc'[r] = "idle" /\ \A q \in Request : q # r => pc'[q] = pc[q] /\ turn'[q] = turn[q]
    BY <2>1 DEF Finish, Goto, TypeInv, TypeOK
  <2>3. LeaseOf(r) = turn[r].member /\ LeaseOf(r)' = None
    BY <2>1, <2>2 DEF LeaseOf, Holding
  <2>4. \A q \in Request \ {r} : LeaseOf(q)' = LeaseOf(q)
    BY <2>2 DEF LeaseOf
  <2>5. inflight' = [inflight EXCEPT ![turn[r].member] = @ - 1]
    BY <2>1 DEF Finish, Released
  <2>. QED
    BY <2>1, <2>3, <2>4, <2>5 DEF LeaseDropped
<1>2. CASE (\E reply \in {"ok", "error"} : Answer(r, reply)) \/ RebindConv(r) \/ RebindPrefix(r)
  <2>1. /\ pc[r] \in Holding /\ inflight' = inflight
        /\ \E to \in Holding : Goto(r, to)
    BY <1>2 DEF Answer, RebindConv, RebindPrefix, Holding
  <2>2. \A q \in Request : turn'[q].member = turn[q].member
    <3>1. turn \in [Request -> Turn]
      BY DEF TypeInv, TypeOK
    <3>2. turn' = turn \/ \E reply : turn' = [turn EXCEPT ![r].reply = reply]
      BY <1>2 DEF Answer, RebindConv, RebindPrefix
    <3>. QED
      BY <3>1, <3>2 DEF Turn
  <2>. QED
    BY <2>1, <2>2, SameLease DEF Holding, Positions
<1>3. CASE TryNext(r)
  <2>1. pc' = pc /\ inflight' = inflight
    BY <1>3 DEF TryNext
  <2>2. \A q \in Request : turn'[q].member = turn[q].member
    <3>1. turn \in [Request -> Turn]
      BY DEF TypeInv, TypeOK
    <3>2. \/ \E at, n : turn' = [turn EXCEPT ![r].at = at, ![r].next = n]
          \/ \E at : turn' = [turn EXCEPT ![r].at = at]
      BY <1>3 DEF TryNext
    <3>3. ASSUME NEW at, NEW n, turn' = [turn EXCEPT ![r].at = at, ![r].next = n]
          PROVE  \A q \in Request : turn'[q].member = turn[q].member
      <4>1. turn'[r] = [turn[r] EXCEPT !.at = at, !.next = n]
            /\ \A q \in Request : q # r => turn'[q] = turn[q]
        BY <3>1, <3>3
      <4>2. ASSUME NEW t \in Turn PROVE [t EXCEPT !.at = at, !.next = n].member = t.member
        BY DEF Turn
      <4>3. turn[r] \in Turn
        BY <3>1
      <4>. QED
        BY <4>1, <4>2, <4>3
    <3>4. ASSUME NEW at, turn' = [turn EXCEPT ![r].at = at]
          PROVE  \A q \in Request : turn'[q].member = turn[q].member
      BY <3>1, <3>4 DEF Turn
    <3>. QED
      BY <3>2, <3>3, <3>4
  <2>. QED
    BY <2>1, <2>2 DEF LeasesSame, LeaseOf
<1>. QED
  BY <1>1, <1>2, <1>3 DEF Serve

\* Every step takes one lease, drops one, or leaves leases and counters alone.
LEMMA LeaseStep ==
  ASSUME TypeInv, [Next]_vars
  PROVE  \/ LeasesSame
         \/ \E r \in Request, m \in Member : LeaseTaken(r, m) \/ LeaseDropped(r, m)
<1>1. ASSUME NEW r \in Request, NEW c \in Conv, Arrive(r, c) PROVE LeasesSame
  <2>1. pc[r] = "idle" /\ inflight' = inflight /\ \E to \in {"conv", "scan"} : Goto(r, to)
    BY <1>1 DEF Arrive
  <2>2. \A q \in Request : q # r => turn'[q].member = turn[q].member
    <3>1. Disturb(c) \in [Request -> Turn]
          /\ \A q \in Request : Disturb(c)[q].member = turn[q].member
      BY ZenonT(60) DEF Disturb, TypeInv, TypeOK, Turn
    <3>2. \E t : turn' = [Disturb(c) EXCEPT ![r] = t]
      BY <1>1 DEF Arrive
    <3>. QED
      BY <3>1, <3>2
  <2>. QED
    BY <2>1, <2>2, SameLease DEF Holding, Positions
<1>2. ASSUME NEW k \in Conv \cup Prefix, Forget(k) PROVE LeasesSame
  <2>1. pc' = pc /\ inflight' = inflight /\ turn' = Disturb(k)
    BY <1>2 DEF Forget
  <2>2. \A q \in Request : Disturb(k)[q].member = turn[q].member
    BY DEF Disturb, TypeInv, TypeOK, Turn
  <2>. QED
    BY <2>1, <2>2 DEF LeasesSame, LeaseOf
<1>3. CASE Reconfigure \/ UNCHANGED vars
  BY <1>3 DEF Reconfigure, vars, LeasesSame, LeaseOf
<1>. QED
  BY <1>1, <1>2, <1>3, RouteLease, ServeLease DEF Next

\* Routing implements the lease specification: whatever the interleaving and
\* the path a request ends on, its dispatch takes one lease and its end drops it.
THEOREM ImplementsLeases == Spec => LeaseSpec
<1> DEFINE L == [r \in Request |-> LeaseOf(r)]
<1>1. Init => Leases!Init
  BY DEF Init, Leases!Init, LeaseOf, Holding
<1>2. TypeInv /\ [Next]_vars => [Leases!Next]_Leases!vars
  <2>. SUFFICES ASSUME TypeInv, [Next]_vars PROVE [Leases!Next]_Leases!vars
    OBVIOUS
  <2>1. CASE LeasesSame
    BY <2>1 DEF LeasesSame, Leases!vars
  <2>2. ASSUME NEW r \in Request, NEW m \in Member, LeaseTaken(r, m) PROVE Leases!Take(r, m)
    <3>1. L[r] = None /\ L' = [L EXCEPT ![r] = m]
      BY <2>2 DEF LeaseTaken
    <3>. QED
      BY <2>2, <3>1 DEF LeaseTaken, Leases!Take
  <2>3. ASSUME NEW r \in Request, NEW m \in Member, LeaseDropped(r, m) PROVE Leases!Drop(r)
    <3>1. L' = [L EXCEPT ![r] = None]
      BY <2>3 DEF LeaseDropped
    <3>2. L[r] = m /\ m # None
      BY <2>3, PoolAssumption DEF LeaseDropped
    <3>. QED
      BY <2>3, <3>1, <3>2 DEF LeaseDropped, Leases!Drop
  <2>. QED
    BY <2>1, <2>2, <2>3, LeaseStep DEF Leases!Next
<1>. QED
  BY <1>1, <1>2, TypeAlways, PTL DEF Spec, LeaseSpec, Leases!Spec

\* The counters and the types together are inductive.
CountInv == CountsHeld /\ TypeInv

\* Requests are finite, so those a member holds can be counted.
LEMMA HeldFinite == \A m \in Member : IsFiniteSet(HeldBy(m)) /\ Cardinality(HeldBy(m)) \in Nat
  BY PoolAssumption, FS_Subset, FS_CardinalityType DEF HeldBy

\* A lease taken adds one to its member's count and one to the requests on it.
LEMMA CountTaken ==
  ASSUME CountInv, NEW r \in Request, NEW m \in Member, LeaseTaken(r, m)
  PROVE  CountsHeld'
<1>1. HeldBy(m)' = HeldBy(m) \cup {r} /\ r \notin HeldBy(m)
  BY PoolAssumption DEF LeaseTaken, HeldBy
<1>2. \A n \in Member \ {m} : HeldBy(n)' = HeldBy(n)
  BY PoolAssumption DEF LeaseTaken, HeldBy
<1>3. Cardinality(HeldBy(m)') = Cardinality(HeldBy(m)) + 1
  BY <1>1, HeldFinite, FS_AddElement
<1>4. inflight \in [Member -> Int] /\ inflight' = [inflight EXCEPT ![m] = @ + 1]
  BY DEF LeaseTaken, CountInv, TypeInv, TypeOK
<1>. QED
  BY <1>2, <1>3, <1>4 DEF CountInv, CountsHeld

\* A lease dropped takes one from both.
LEMMA CountDropped ==
  ASSUME CountInv, NEW r \in Request, NEW m \in Member, LeaseDropped(r, m)
  PROVE  CountsHeld'
<1>1. HeldBy(m)' = HeldBy(m) \ {r} /\ r \in HeldBy(m)
  BY PoolAssumption DEF LeaseDropped, HeldBy
<1>2. \A n \in Member \ {m} : HeldBy(n)' = HeldBy(n)
  BY PoolAssumption DEF LeaseDropped, HeldBy
<1>3. Cardinality(HeldBy(m)') = Cardinality(HeldBy(m)) - 1
  BY <1>1, HeldFinite, FS_RemoveElement
<1>4. inflight \in [Member -> Int] /\ inflight' = [inflight EXCEPT ![m] = @ - 1]
  BY DEF LeaseDropped, CountInv, TypeInv, TypeOK
<1>. QED
  BY <1>2, <1>3, <1>4 DEF CountInv, CountsHeld

\* The counter of every member is the number of requests dispatched to it and
\* not finished: no path through the handler loses or keeps a count.
THEOREM CountsAccurate == Spec => []CountsHeld
<1>1. Init => CountInv
  <2>. SUFFICES ASSUME Init PROVE CountInv
    OBVIOUS
  <2>1. \A m \in Member : HeldBy(m) = {}
    BY PoolAssumption DEF Init, HeldBy, LeaseOf, Holding
  <2>. QED
    BY <2>1, TypeInit, FS_EmptySet DEF Init, CountInv, CountsHeld
<1>2. CountInv /\ [Next]_vars => CountInv'
  <2>. SUFFICES ASSUME CountInv, [Next]_vars PROVE CountInv'
    OBVIOUS
  <2>1. CASE LeasesSame
    <3>1. \A m \in Member : HeldBy(m)' = HeldBy(m)
      BY <2>1 DEF LeasesSame, HeldBy
    <3>. QED
      BY <2>1, <3>1, TypeStep DEF LeasesSame, CountInv, CountsHeld
  <2>. QED
    BY <2>1, LeaseStep, CountTaken, CountDropped, TypeStep DEF CountInv
<1>3. CountInv => CountsHeld
  BY DEF CountInv
<1>. QED
  BY <1>1, <1>2, <1>3, PTL DEF Spec

-------------------------------------------------------------------------------
(* The conversation returns to the member that answered it last.           *)


\* An undisturbed turn has its conversation to itself.
Alone ==
    \A r, q \in Request :
        /\ pc[r] # "idle" /\ pc[q] # "idle"
        /\ turn[r].clean /\ turn[q].conv = turn[r].conv
        => q = r

\* A conversation with a home has undisturbed turns only.
Undisturbed ==
    \A r \in Request : pc[r] # "idle" /\ home[turn[r].conv] # None => turn[r].clean

Bounds == {"pinConv", "seePrefix", "pinPrefix", "rebindConv", "rebindPrefix"}
Held == {"seePrefix", "pinPrefix", "dispatch", "attempt"}

\* What holds at each position of a turn: only affinity pools bind; the binding
\* of an undisturbed turn is the member it was sent to; and while the
\* conversation has a home the binding is that home, except between a sibling's
\* answer and the rebind.
AtHome(r) ==
    /\ pc[r] = "rebindConv" => turn[r].at = home[turn[r].conv]
    /\ pc[r] # "rebindConv" => bind[turn[r].conv] = home[turn[r].conv]
    /\ turn[r].spec.affinity =>
         /\ pc[r] \in {"conv"} \cup Placed
         /\ pc[r] = "conv" => home[turn[r].conv] \in Listed(turn[r].spec.members)
         /\ pc[r] \in Chosen => turn[r].member = home[turn[r].conv]

Stage(r) ==
    /\ pc[r] \in Bounds => turn[r].spec.affinity
    /\ pc[r] \in Held /\ turn[r].clean /\ turn[r].spec.affinity
         => bind[turn[r].conv] = turn[r].member
    /\ home[turn[r].conv] # None => AtHome(r)

HomeInv == /\ Alone /\ Undisturbed /\ BoundToHome
           /\ \A r \in Request : pc[r] # "idle" => Stage(r)

FullInv == TypeInv /\ HomeInv

\* The history and the bindings that a step of r may change: those of its own
\* conversation, and the history only when its turn is undisturbed.
OwnOnly(r) ==
    /\ \A k \in Conv : k # turn[r].conv => bind'[k] = bind[k] /\ home'[k] = home[k]
    /\ ~turn[r].clean => home' = home

\* r moves on within its turn, and the other turns stay as they are.
Moves(r) ==
    /\ pc[r] # "idle" /\ pc'[r] # "idle"
    /\ \A q \in Request : q # r => pc'[q] = pc[q] /\ turn'[q] = turn[q]
    /\ turn'[r].conv = turn[r].conv /\ turn'[r].spec = turn[r].spec
    /\ turn'[r].clean = turn[r].clean

\* Such a step keeps the invariant if it keeps it at r and the turn is still
\* undisturbed when the conversation has a home.
LEMMA MoveStep ==
  ASSUME FullInv, NEW r \in Request, Moves(r), OwnOnly(r), Stage(r)'
  PROVE  HomeInv'
<1>1. /\ \A q \in Request : turn'[q].conv = turn[q].conv /\ turn'[q].clean = turn[q].clean
      /\ \A q \in Request : pc'[q] # "idle" <=> pc[q] # "idle"
      /\ \A q \in Request : turn[q].conv \in Conv
  BY DEF Moves, FullInv, TypeInv, TypeOK, Turn
<1>2. Alone'
  BY <1>1 DEF FullInv, HomeInv, Alone
<1>3. Undisturbed'
  <2>. SUFFICES ASSUME NEW q \in Request, pc'[q] # "idle", home'[turn'[q].conv] # None
                PROVE  turn'[q].clean
    BY DEF Undisturbed
  <2>1. pc[q] # "idle" /\ turn'[q].conv = turn[q].conv /\ turn'[q].clean = turn[q].clean
        /\ turn[q].conv \in Conv
    BY <1>1
  <2>2. CASE home' = home
    BY <2>1, <2>2 DEF FullInv, HomeInv, Undisturbed
  <2>3. CASE turn[q].conv # turn[r].conv
    <3>1. home'[turn[q].conv] = home[turn[q].conv]
      BY <2>1, <2>3 DEF OwnOnly
    <3>. QED
      BY <2>1, <3>1 DEF FullInv, HomeInv, Undisturbed
  <2>4. CASE home' # home /\ turn[q].conv = turn[r].conv
    <3>1. turn[r].clean
      BY <2>4 DEF OwnOnly
    <3>2. q = r
      BY <2>1, <2>4, <3>1 DEF FullInv, HomeInv, Alone, Moves
    <3>. QED
      BY <2>1, <3>1, <3>2
  <2>. QED
    BY <2>2, <2>3, <2>4
<1>4. BoundToHome'
  <2>1. ASSUME NEW c \in Conv, TurnsOf(c)' = {} PROVE c # turn[r].conv /\ TurnsOf(c) = {}
    BY <1>1, <2>1 DEF Moves, TurnsOf, Active
  <2>. QED
    BY <2>1 DEF FullInv, HomeInv, BoundToHome, OwnOnly
<1>5. ASSUME NEW q \in Request, pc'[q] # "idle" PROVE Stage(q)'
  <2>1. CASE q = r
    BY <2>1
  <2>2. CASE q # r
    <3>1. pc'[q] = pc[q] /\ turn'[q] = turn[q] /\ turn[q].conv \in Conv /\ pc[q] # "idle"
          /\ Stage(q)
      BY <1>1, <1>5, <2>2 DEF Moves, FullInv, HomeInv
    <3>2. CASE turn[q].conv # turn[r].conv
      <4>1. bind'[turn[q].conv] = bind[turn[q].conv] /\ home'[turn[q].conv] = home[turn[q].conv]
        BY <3>1, <3>2 DEF OwnOnly
      <4>. QED
        BY <3>1, <4>1 DEF Stage, AtHome
    <3>3. CASE turn[q].conv = turn[r].conv
      <4>1. ~turn[q].clean /\ ~turn[r].clean
        BY <2>2, <3>1, <3>3 DEF Moves, FullInv, HomeInv, Alone
      <4>2. home' = home /\ home[turn[q].conv] = None
        BY <3>1, <4>1 DEF OwnOnly, FullInv, HomeInv, Undisturbed
      <4>. QED
        BY <3>1, <4>1, <4>2 DEF Stage
    <3>. QED
      BY <3>2, <3>3
  <2>. QED
    BY <2>1, <2>2
<1>. QED
  BY <1>2, <1>3, <1>4, <1>5 DEF HomeInv

-------------------------------------------------------------------------------
\* The turn of a handler that is not idle belongs to a conversation, whose
\* binding is no prefix's.
LEMMA KeysApart ==
  ASSUME TypeInv, NEW r \in Request
  PROVE  /\ turn[r].conv \in Conv /\ PrefKey(r) \in Prefix /\ PrefKey(r) # turn[r].conv
         /\ turn[r].conv \notin Prefix /\ PrefKey(r) \notin Conv
         /\ turn[r].spec \in Specs /\ turn \in [Request -> Turn] /\ pc \in [Request -> Positions]
         /\ bind \in [Conv \cup Prefix -> Member \cup {None}]
         /\ home \in [Conv -> Member \cup {None}]
  BY KeysType, PoolAssumption DEF TypeInv, TypeOK, ConvKey

\* A step that leaves the locals, the bindings and the history alone keeps the
\* invariant as long as the new position asks for no more than the old one.
LEMMA QuietHome ==
  ASSUME FullInv, NEW r \in Request, NEW to \in Positions \ {"idle"}, Goto(r, to),
         pc[r] # "idle", UNCHANGED <<turn, bind, home>>,
         to \in Bounds => pc[r] \in Bounds,
         to \in Held => pc[r] \in Held,
         home[turn[r].conv] # None =>
            /\ pc[r] # "rebindConv" /\ to # "rebindConv"
            /\ turn[r].spec.affinity => to \in Placed
            /\ turn[r].spec.affinity /\ to \in Chosen => pc[r] \in Chosen
  PROVE  HomeInv'
<1>1. pc'[r] = to /\ \A q \in Request : q # r => pc'[q] = pc[q]
  BY KeysApart DEF Goto, FullInv
<1>2. Moves(r)
  BY <1>1 DEF Moves
<1>3. OwnOnly(r)
  BY DEF OwnOnly
<1>4. Stage(r)
  BY DEF FullInv, HomeInv
<1>5. Stage(r)'
  <2>1. to # "conv" \/ home[turn[r].conv] = None \/ ~turn[r].spec.affinity
    BY DEF Placed, Holding
  <2>. QED
    BY <1>1, <1>4, <2>1 DEF Stage, AtHome
<1>. QED
  BY <1>2, <1>3, <1>5, MoveStep

\* So does the choice of a member, if it is the conversation's home when it has
\* one to go to.
LEMMA ChooseHome ==
  ASSUME FullInv, NEW r \in Request, NEW m \in Member, Choose(r, m),
         pc[r] \in {"conv", "scan", "far"}, UNCHANGED <<bind, home>>,
         home[turn[r].conv] # None /\ turn[r].spec.affinity => m = home[turn[r].conv]
  PROVE  HomeInv'
<1>1. /\ turn[r] \in Turn /\ turn' = [turn EXCEPT ![r].member = m]
      /\ turn \in [Request -> Turn] /\ pc \in [Request -> Positions]
  BY KeysApart DEF FullInv, Choose
<1>2. /\ \A q \in Request : q # r => turn'[q] = turn[q] /\ pc'[q] = pc[q]
      /\ pc'[r] = IF turn[r].spec.affinity THEN "pinConv" ELSE "dispatch"
  BY <1>1 DEF Choose, Goto
<1>3. /\ turn'[r].member = m /\ turn'[r].conv = turn[r].conv /\ turn'[r].spec = turn[r].spec
      /\ turn'[r].clean = turn[r].clean
  BY <1>1 DEF Turn
<1>4. Moves(r)
  BY <1>2, <1>3 DEF Moves
<1>5. OwnOnly(r)
  BY DEF OwnOnly
<1>6. Stage(r)
  BY DEF FullInv, HomeInv
<1>7. Stage(r)'
  BY <1>2, <1>3, <1>6 DEF Stage, AtHome, Bounds, Held, Placed, Chosen
<1>. QED
  BY <1>4, <1>5, <1>7, MoveStep

\* Looking up a conversation that has a home finds the home.
LEMMA LookupHome ==
  ASSUME FullInv, NEW r \in Request, LookupConv(r)
  PROVE  HomeInv'
<1>1. /\ pc[r] = "conv" /\ UNCHANGED <<bind, home>> /\ Stage(r) /\ turn[r].conv \in Conv
      /\ Bound(ConvKey(r), turn[r].spec) \in Member \cup {None} /\ ConvKey(r) = turn[r].conv
  BY KeysType, KeysApart, BoundType DEF LookupConv, FullInv, HomeInv, TypeInv, ConvKey
<1>2. home[turn[r].conv] # None /\ turn[r].spec.affinity
        => Bound(ConvKey(r), turn[r].spec) = home[turn[r].conv]
  BY <1>1 DEF Stage, AtHome, Bound
<1>3. CASE Bound(ConvKey(r), turn[r].spec) # None
  BY <1>1, <1>2, <1>3, ChooseHome DEF LookupConv
<1>4. CASE Bound(ConvKey(r), turn[r].spec) = None
  <2>1. Goto(r, "prefix") /\ UNCHANGED turn
    BY <1>4 DEF LookupConv
  <2>. QED
    BY <1>1, <1>2, <1>4, <2>1, QuietHome DEF Positions, Bounds, Held, Chosen
<1>. QED
  BY <1>3, <1>4

\* A handler that scans or compares serves a conversation without a home, or a
\* pool without affinity.
LEMMA HomelessReads ==
  ASSUME FullInv, NEW r \in Request, pc[r] \in Reading \cup {"prefix"}
  PROVE  home[turn[r].conv] = None \/ ~turn[r].spec.affinity
<1>1. Stage(r)
  BY DEF FullInv, HomeInv, Reading
<1>. QED
  BY <1>1 DEF Stage, AtHome, Reading, Placed, Holding

\* Weighing the members keeps the invariant.
LEMMA ReadingHome ==
  ASSUME FullInv, NEW r \in Request,
         \/ LookupPrefix(r) \/ ColdStart(r) \/ ScanOne(r) \/ ScanEnd(r)
         \/ ReadNear(r) \/ ReadFar(r)
  PROVE  HomeInv'
<1>1. /\ pc[r] \in Reading \cup {"prefix"} /\ UNCHANGED <<bind, home>>
      /\ home[turn[r].conv] = None \/ ~turn[r].spec.affinity
  BY HomelessReads DEF LookupPrefix, ColdStart, ScanOne, ScanEnd, ReadNear, ReadFar, Reading
<1>2. CASE \E m \in Member : Choose(r, m) /\ pc[r] \in {"scan", "far"}
  BY <1>1, <1>2, ChooseHome
<1>3. CASE \E to \in Reading : Goto(r, to) /\ UNCHANGED turn
  BY <1>1, <1>3, QuietHome DEF Positions, Bounds, Held, Chosen, Reading
<1>4. CASE LookupPrefix(r) \/ ColdStart(r) \/ ReadNear(r)
  BY <1>3, <1>4 DEF LookupPrefix, ColdStart, ReadNear, Reading
<1>5. CASE ScanOne(r)
  <2>1. pc[r] = "scan" /\ pc' = pc /\ turn' = turn /\ pc \in [Request -> Positions]
    BY <1>5, KeysApart DEF ScanOne, FullInv
  <2>. QED
    BY <1>3, <2>1, SMTT(60) DEF Goto, Reading
<1>6. CASE ScanEnd(r)
  <2>1. scan[r].next > 1
    BY <1>6, KeysType, SpecFacts DEF ScanEnd, FullInv, TypeInv, TypeOK, Scans
  <2>2. scan[r].best \in Member /\ pc[r] = "scan"
    BY <1>6, <2>1 DEF ScanEnd, FullInv, TypeInv, LocalsOK
  <2>. QED
    BY <1>2, <1>3, <1>6, <2>2 DEF ScanEnd, Reading
<1>7. CASE ReadFar(r)
  <2>1. scan[r].owner \in Member /\ pc[r] = "far"
    BY <1>7 DEF ReadFar, FullInv, TypeInv, LocalsOK
  <2>. QED
    BY <1>2, <1>3, <1>7, <2>1 DEF ReadFar, Reading
<1>. QED
  BY <1>4, <1>5, <1>6, <1>7, SMTT(60)

\* Putting the bindings of the chosen member keeps the invariant.
LEMMA PinHome ==
  ASSUME FullInv, NEW r \in Request, PinConv(r) \/ SeePrefix(r) \/ PinPrefix(r)
  PROVE  HomeInv'
<1>1. /\ Stage(r) /\ turn' = turn /\ home' = home /\ pc[r] # "idle"
      /\ turn[r].conv \in Conv /\ turn[r].conv # PrefKey(r) /\ PrefKey(r) \notin Conv
      /\ ConvKey(r) = turn[r].conv
  BY KeysApart DEF PinConv, SeePrefix, PinPrefix, FullInv, HomeInv, ConvKey
<1>2. CASE SeePrefix(r)
  BY <1>1, <1>2, QuietHome DEF SeePrefix, Positions, Bounds, Held, Chosen, Placed
<1>3. CASE PinConv(r)
  <2>1. /\ pc[r] = "pinConv" /\ pc'[r] = "seePrefix"
        /\ \A q \in Request : q # r => pc'[q] = pc[q]
        /\ bind' = [bind EXCEPT ![turn[r].conv] = turn[r].member]
        /\ bind \in [Conv \cup Prefix -> Member \cup {None}]
    BY <1>1, <1>3, KeysApart DEF PinConv, Goto, FullInv
  <2>2. Moves(r) /\ OwnOnly(r)
    BY <1>1, <2>1 DEF Moves, OwnOnly
  <2>3. bind'[turn[r].conv] = turn[r].member
    BY <1>1, <2>1
  <2>4. Stage(r)'
    BY <1>1, <2>1, <2>3 DEF Stage, AtHome, Bounds, Placed, Chosen
  <2>. QED
    BY <2>2, <2>4, MoveStep
<1>4. CASE PinPrefix(r)
  <2>1. /\ pc[r] = "pinPrefix" /\ pc'[r] = "dispatch"
        /\ \A q \in Request : q # r => pc'[q] = pc[q]
        /\ \A c \in Conv : bind'[c] = bind[c]
    BY <1>1, <1>4, KeysApart DEF PinPrefix, Goto, FullInv
  <2>2. Moves(r) /\ OwnOnly(r)
    BY <1>1, <2>1 DEF Moves, OwnOnly
  <2>3. Stage(r)'
    BY <1>1, <2>1 DEF Stage, AtHome, Bounds, Held, Placed, Holding, Chosen
  <2>. QED
    BY <2>2, <2>3, MoveStep
<1>. QED
  BY <1>2, <1>3, <1>4

\* Dispatching, and moving to the next candidate, change where the request is.
LEMMA TryHome ==
  ASSUME FullInv, NEW r \in Request, Dispatch(r) \/ TryNext(r)
  PROVE  HomeInv'
<1>1. /\ Stage(r) /\ UNCHANGED <<bind, home>> /\ pc[r] \in {"dispatch", "attempt"}
      /\ pc'[r] = "attempt" /\ \A q \in Request : q # r => pc'[q] = pc[q]
  BY KeysApart DEF Dispatch, TryNext, Goto, FullInv, HomeInv
<1>2. \/ \E at, n : turn' = [turn EXCEPT ![r].at = at, ![r].next = n]
      \/ \E at : turn' = [turn EXCEPT ![r].at = at]
  BY DEF Dispatch, TryNext
<1>3. /\ \A q \in Request : q # r => turn'[q] = turn[q]
      /\ turn'[r].conv = turn[r].conv /\ turn'[r].spec = turn[r].spec
      /\ turn'[r].clean = turn[r].clean /\ turn'[r].member = turn[r].member
  <2>1. turn \in [Request -> Turn] /\ turn[r] \in Turn
    BY KeysApart DEF FullInv
  <2>2. ASSUME NEW at, NEW n, turn' = [turn EXCEPT ![r].at = at, ![r].next = n] PROVE <1>3
    <3>1. turn'[r] = [turn[r] EXCEPT !.at = at, !.next = n]
          /\ \A q \in Request : q # r => turn'[q] = turn[q]
      BY <2>1, <2>2
    <3>2. ASSUME NEW t \in Turn
          PROVE  LET u == [t EXCEPT !.at = at, !.next = n]
                 IN /\ u.conv = t.conv /\ u.spec = t.spec /\ u.clean = t.clean
                    /\ u.member = t.member
      BY DEF Turn
    <3>. QED
      BY <2>1, <3>1, <3>2
  <2>3. ASSUME NEW at, turn' = [turn EXCEPT ![r].at = at] PROVE <1>3
    BY <2>1, <2>3 DEF Turn
  <2>. QED
    BY <1>2, <2>2, <2>3
<1>4. Moves(r) /\ OwnOnly(r)
  BY <1>1, <1>3 DEF Moves, OwnOnly
<1>5. Stage(r)'
  BY <1>1, <1>3 DEF Stage, AtHome, Bounds, Held, Placed, Holding, Chosen
<1>. QED
  BY <1>4, <1>5, MoveStep

\* The member that answers an undisturbed turn becomes the conversation's home:
\* the binding names it already, or the rebind is next.
LEMMA AnswerHome ==
  ASSUME FullInv, NEW r \in Request, NEW reply \in {"ok", "error"}, Answer(r, reply)
  PROVE  HomeInv'
<1>1. /\ Stage(r) /\ bind' = bind /\ pc[r] = "attempt" /\ turn[r] \in Turn
      /\ turn[r].conv \in Conv /\ home \in [Conv -> Member \cup {None}]
      /\ turn \in [Request -> Turn] /\ pc \in [Request -> Positions]
      /\ turn' = [turn EXCEPT ![r].reply = reply]
  BY KeysApart DEF Answer, FullInv, HomeInv
<1>2. /\ pc'[r] = IF Rebinds(turn[r]) THEN "rebindConv" ELSE "relay"
      /\ \A q \in Request : q # r => turn'[q] = turn[q] /\ pc'[q] = pc[q]
  BY <1>1 DEF Answer, Goto
<1>3. /\ turn'[r].conv = turn[r].conv /\ turn'[r].spec = turn[r].spec
      /\ turn'[r].clean = turn[r].clean /\ turn'[r].member = turn[r].member
      /\ turn'[r].at = turn[r].at
  BY <1>1 DEF Turn
<1>4. Moves(r)
  BY <1>1, <1>2, <1>3 DEF Moves
<1>5. home' = IF Settles(turn[r]) THEN [home EXCEPT ![turn[r].conv] = turn[r].at] ELSE home
  BY DEF Answer
<1>6. OwnOnly(r)
  BY <1>1, <1>5 DEF OwnOnly, Settles
<1>7. Stage(r)'
  <2>1. CASE Settles(turn[r])
    <3>1. home'[turn[r].conv] = turn[r].at
      BY <1>1, <1>5, <2>1
    <3>2. bind[turn[r].conv] = turn[r].member /\ turn[r].spec.affinity
      BY <1>1, <2>1 DEF Settles, Stage, Held
    <3>. QED
      BY <1>1, <1>2, <1>3, <2>1, <3>1, <3>2
         DEF Stage, AtHome, Bounds, Held, Placed, Holding, Chosen, Settles, Rebinds
  <2>2. CASE ~Settles(turn[r])
    <3>1. home' = home
      BY <1>5, <2>2
    <3>2. ASSUME home[turn[r].conv] # None PROVE ~Rebinds(turn[r])
      <4>1. turn[r].clean
        BY <1>1, <3>2 DEF FullInv, HomeInv, Undisturbed
      <4>. QED
        BY <2>2, <4>1 DEF Settles, Rebinds
    <3>. QED
      BY <1>1, <1>2, <1>3, <3>1, <3>2
         DEF Stage, AtHome, Bounds, Held, Placed, Holding, Chosen, Rebinds
  <2>. QED
    BY <2>1, <2>2
<1>. QED
  BY <1>4, <1>6, <1>7, MoveStep

\* The rebind puts the member that answered.
LEMMA RebindHome ==
  ASSUME FullInv, NEW r \in Request, RebindConv(r) \/ RebindPrefix(r)
  PROVE  HomeInv'
<1>1. /\ Stage(r) /\ turn' = turn /\ home' = home /\ pc[r] # "idle"
      /\ turn[r].conv \in Conv /\ turn[r].conv # PrefKey(r) /\ PrefKey(r) \notin Conv
      /\ ConvKey(r) = turn[r].conv
  BY KeysApart DEF RebindConv, RebindPrefix, FullInv, HomeInv, ConvKey
<1>2. CASE RebindConv(r)
  <2>1. /\ pc[r] = "rebindConv" /\ pc'[r] = "rebindPrefix"
        /\ \A q \in Request : q # r => pc'[q] = pc[q]
        /\ bind' = [bind EXCEPT ![turn[r].conv] = turn[r].at]
        /\ bind \in [Conv \cup Prefix -> Member \cup {None}]
    BY <1>1, <1>2, KeysApart DEF RebindConv, Goto, FullInv
  <2>2. Moves(r) /\ OwnOnly(r)
    BY <1>1, <2>1 DEF Moves, OwnOnly
  <2>3. bind'[turn[r].conv] = turn[r].at
    BY <1>1, <2>1
  <2>4. Stage(r)'
    BY <1>1, <2>1, <2>3 DEF Stage, AtHome, Bounds, Held, Placed, Holding, Chosen
  <2>. QED
    BY <2>2, <2>4, MoveStep
<1>3. CASE RebindPrefix(r)
  <2>1. /\ pc[r] = "rebindPrefix" /\ pc'[r] = "relay"
        /\ \A q \in Request : q # r => pc'[q] = pc[q]
        /\ \A c \in Conv : bind'[c] = bind[c]
    BY <1>1, <1>3, KeysApart DEF RebindPrefix, Goto, FullInv
  <2>2. Moves(r) /\ OwnOnly(r)
    BY <1>1, <2>1 DEF Moves, OwnOnly
  <2>3. Stage(r)'
    BY <1>1, <2>1 DEF Stage, AtHome, Bounds, Held, Placed, Holding, Chosen
  <2>. QED
    BY <2>2, <2>3, MoveStep
<1>. QED
  BY <1>2, <1>3

\* A turn that ends leaves its conversation bound to its home.
LEMMA FinishHome ==
  ASSUME FullInv, NEW r \in Request, Relayed(r) \/ GiveUp(r)
  PROVE  HomeInv'
<1>1. /\ pc[r] \in {"relay", "attempt"} /\ UNCHANGED <<bind, home>> /\ pc'[r] = "idle"
      /\ \A q \in Request : q # r => turn'[q] = turn[q] /\ pc'[q] = pc[q]
  BY KeysApart DEF Relayed, GiveUp, Finish, Goto, FullInv
<1>2. Alone'
  BY <1>1 DEF FullInv, HomeInv, Alone
<1>3. Undisturbed'
  BY <1>1 DEF FullInv, HomeInv, Undisturbed
<1>4. ASSUME NEW c \in Conv, home[c] # None, TurnsOf(c)' = {} PROVE bind[c] = home[c]
  <2>1. \A q \in Request : q # r => ~(pc[q] # "idle" /\ turn[q].conv = c)
    BY <1>1, <1>4 DEF TurnsOf, Active
  <2>2. CASE turn[r].conv = c
    <3>1. Stage(r)
      BY <1>1 DEF FullInv, HomeInv
    <3>. QED
      BY <1>1, <1>4, <2>2, <3>1 DEF Stage, AtHome
  <2>3. CASE turn[r].conv # c
    <3>1. TurnsOf(c) = {}
      BY <2>1, <2>3 DEF TurnsOf, Active
    <3>. QED
      BY <1>4, <3>1 DEF FullInv, HomeInv, BoundToHome
  <2>. QED
    BY <2>2, <2>3
<1>5. ASSUME NEW q \in Request, pc'[q] # "idle" PROVE Stage(q)'
  <2>1. q # r /\ Stage(q)
    BY <1>1, <1>5 DEF FullInv, HomeInv
  <2>. QED
    BY <1>1, <2>1 DEF Stage, AtHome
<1>. QED
  BY <1>1, <1>2, <1>3, <1>4, <1>5 DEF HomeInv, BoundToHome

\* A turn that arrives keeps the home of a quiet conversation, and ends that of
\* a conversation that is already at work, whose turns it disturbs.
LEMMA ArriveHome ==
  ASSUME FullInv, NEW r \in Request, NEW c \in Conv, Arrive(r, c)
  PROVE  HomeInv'
<1>1. /\ pc[r] = "idle" /\ bind' = bind
      /\ pc'[r] = IF setting.affinity THEN "conv" ELSE "scan"
      /\ \A q \in Request : q # r => pc'[q] = pc[q]
      /\ home' = IF KeepsHome(c) THEN home ELSE [home EXCEPT ![c] = None]
      /\ home \in [Conv -> Member \cup {None}]
  BY KeysApart DEF Arrive, Goto, FullInv
<1>2. /\ turn'[r].conv = c /\ turn'[r].spec = setting /\ turn'[r].clean = (TurnsOf(c) = {})
      /\ turn'[r].member = None
  <2>1. turn'[r] = [NoTurn EXCEPT !.conv = c, !.spec = setting, !.clean = (TurnsOf(c) = {})]
    BY DEF Arrive, Disturb
  <2>. QED
    BY <2>1, NoTurnType DEF NoTurn
<1>3. \A q \in Request : q # r =>
         /\ turn'[q].conv = turn[q].conv /\ turn'[q].spec = turn[q].spec
         /\ turn'[q].member = turn[q].member /\ turn'[q].at = turn[q].at
         /\ turn'[q].clean = (turn[q].clean /\ q \notin TurnsOf(c))
  <2>1. \A q \in Request : q # r => turn'[q] = Disturb(c)[q]
    BY DEF Arrive, Disturb
  <2>2. turn \in [Request -> Turn]
    BY KeysApart DEF FullInv
  <2>. QED
    BY <2>1, <2>2 DEF Disturb, Turn
<1>4. \A q \in Request : q # r /\ pc'[q] # "idle" /\ turn'[q].conv = c => q \in TurnsOf(c)
  BY <1>1, <1>3 DEF TurnsOf, Active
<1>5. Alone'
  <2>. SUFFICES ASSUME NEW p \in Request, NEW q \in Request, pc'[p] # "idle", pc'[q] # "idle",
                       turn'[p].clean, turn'[q].conv = turn'[p].conv
                PROVE  q = p
    BY DEF Alone
  <2>1. CASE p = r
    BY <1>2, <1>4, <2>1
  <2>2. CASE p # r /\ q = r
    BY <1>2, <1>3, <1>4, <2>2
  <2>3. CASE p # r /\ q # r
    <3>1. pc[p] # "idle" /\ pc[q] # "idle"
      BY <1>1, <2>3
    <3>2. turn[p].clean /\ turn[q].conv = turn[p].conv
      BY <1>3, <2>3
    <3>. QED
      BY <3>1, <3>2 DEF FullInv, HomeInv, Alone
  <2>. QED
    BY <2>1, <2>2, <2>3
<1>6. \A d \in Conv : d # c => home'[d] = home[d]
  BY <1>1
<1>7. home'[c] # None => /\ home' = home /\ TurnsOf(c) = {} /\ bind[c] = home[c]
                         /\ setting.affinity => home[c] \in Listed(setting.members)
  <2>1. home'[c] # None => KeepsHome(c)
    BY <1>1
  <2>. QED
    BY <1>1, <2>1 DEF KeepsHome, FullInv, HomeInv, BoundToHome
<1>8. \A q \in Request : turn[q].conv \in Conv
  BY KeysApart DEF FullInv
<1>9. Undisturbed'
  <2>. SUFFICES ASSUME NEW q \in Request, pc'[q] # "idle", home'[turn'[q].conv] # None
                PROVE  turn'[q].clean
    BY DEF Undisturbed
  <2>1. CASE q = r
    BY <1>2, <1>7, <2>1
  <2>2. CASE q # r
    <3>1. pc[q] # "idle" /\ turn'[q].conv = turn[q].conv
      BY <1>1, <1>3, <2>2
    <3>2. turn[q].conv # c
      BY <1>4, <1>7, <2>2, <3>1
    <3>3. turn[q].clean /\ q \notin TurnsOf(c)
      BY <1>6, <1>8, <3>1, <3>2 DEF FullInv, HomeInv, Undisturbed, TurnsOf
    <3>. QED
      BY <1>3, <2>2, <3>3
  <2>. QED
    BY <2>1, <2>2
<1>10. BoundToHome'
  <2>. SUFFICES ASSUME NEW d \in Conv, home'[d] # None, TurnsOf(d)' = {} PROVE bind[d] = home'[d]
    BY <1>1 DEF BoundToHome
  <2>1. d # c
    BY <1>1, <1>2 DEF TurnsOf, Active
  <2>2. TurnsOf(d) = {}
    <3>1. \A q \in Request : ~(pc'[q] # "idle" /\ turn'[q].conv = d)
      BY DEF TurnsOf, Active
    <3>. QED
      BY <1>1, <1>3, <3>1 DEF TurnsOf, Active
  <2>. QED
    BY <1>6, <2>1, <2>2 DEF FullInv, HomeInv, BoundToHome
<1>11. ASSUME NEW q \in Request, pc'[q] # "idle" PROVE Stage(q)'
  <2>1. CASE q = r
    BY <1>1, <1>2, <1>7, <2>1
       DEF Stage, AtHome, Bounds, Held, Chosen
  <2>2. CASE q # r
    <3>1. /\ pc[q] # "idle" /\ pc'[q] = pc[q] /\ Stage(q)
          /\ turn'[q].conv = turn[q].conv /\ turn'[q].spec = turn[q].spec
          /\ turn'[q].member = turn[q].member /\ turn'[q].at = turn[q].at
          /\ turn'[q].clean => turn[q].clean
      BY <1>1, <1>3, <1>11, <2>2 DEF FullInv, HomeInv
    <3>2. home'[turn[q].conv] # None => home'[turn[q].conv] = home[turn[q].conv]
      BY <1>6, <1>7, <1>8
    <3>. QED
      BY <1>1, <3>1, <3>2 DEF Stage, AtHome
  <2>. QED
    BY <2>1, <2>2
<1>. QED
  BY <1>5, <1>9, <1>10, <1>11 DEF HomeInv

\* A binding that is lost takes the conversation's home with it; a lost prefix
\* concerns no conversation's binding.
LEMMA ForgetHome ==
  ASSUME FullInv, NEW k \in Conv \cup Prefix, Forget(k)
  PROVE  HomeInv'
<1>1. /\ pc' = pc /\ \A c \in Conv : c # k => bind'[c] = bind[c] /\ home'[c] = home[c]
      /\ k \in Conv => home'[k] = None
  <2>1. bind \in [Conv \cup Prefix -> Member \cup {None}]
    BY DEF FullInv, TypeInv, TypeOK
  <2>. QED
    BY <2>1 DEF Forget
<1>2. \A q \in Request :
         /\ turn'[q].conv = turn[q].conv /\ turn'[q].spec = turn[q].spec
         /\ turn'[q].member = turn[q].member /\ turn'[q].at = turn[q].at
         /\ turn'[q].clean = (turn[q].clean /\ q \notin TurnsOf(k))
         /\ turn[q].conv \in Conv
  <2>1. turn \in [Request -> Turn] /\ \A q \in Request : turn[q].conv \in Conv
    BY DEF FullInv, TypeInv, TypeOK, Turn
  <2>. QED
    BY <2>1 DEF Forget, Disturb, Turn
<1>3. Alone'
  <2>. SUFFICES ASSUME NEW p \in Request, NEW q \in Request, pc'[p] # "idle", pc'[q] # "idle",
                       turn'[p].clean, turn'[q].conv = turn'[p].conv
                PROVE  q = p
    BY DEF Alone
  <2>1. turn[p].clean /\ turn[q].conv = turn[p].conv /\ pc[p] # "idle" /\ pc[q] # "idle"
    BY <1>1, <1>2
  <2>. QED
    BY <2>1 DEF FullInv, HomeInv, Alone
<1>4. Undisturbed'
  <2>. SUFFICES ASSUME NEW q \in Request, pc'[q] # "idle", home'[turn'[q].conv] # None
                PROVE  turn'[q].clean
    BY DEF Undisturbed
  <2>1. turn'[q].conv = turn[q].conv /\ turn[q].conv \in Conv /\ pc[q] # "idle"
    BY <1>1, <1>2
  <2>2. turn[q].conv # k /\ home[turn[q].conv] # None
    BY <1>1, <2>1
  <2>3. turn[q].clean /\ q \notin TurnsOf(k)
    BY <2>1, <2>2 DEF FullInv, HomeInv, Undisturbed, TurnsOf
  <2>. QED
    BY <1>2, <2>3
<1>5. BoundToHome'
  <2>. SUFFICES ASSUME NEW c \in Conv, home'[c] # None, TurnsOf(c)' = {}
                PROVE  bind'[c] = home'[c]
    BY DEF BoundToHome
  <2>1. c # k /\ bind'[c] = bind[c] /\ home'[c] = home[c]
    BY <1>1
  <2>2. TurnsOf(c) = {}
    BY <1>1, <1>2 DEF TurnsOf, Active
  <2>. QED
    BY <2>1, <2>2 DEF FullInv, HomeInv, BoundToHome
<1>6. ASSUME NEW q \in Request, pc'[q] # "idle" PROVE Stage(q)'
  <2>1. Stage(q) /\ pc'[q] = pc[q]
    BY <1>1, <1>6 DEF FullInv, HomeInv
  <2>2. CASE turn[q].conv = k
    <3>1. q \in TurnsOf(k)
      BY <1>1, <1>6, <2>2 DEF TurnsOf, Active
    <3>2. ~turn'[q].clean /\ home'[turn'[q].conv] = None
      BY <1>1, <1>2, <2>2, <3>1
    <3>. QED
      BY <1>2, <2>1, <3>2 DEF Stage
  <2>3. CASE turn[q].conv # k
    <3>1. /\ bind'[turn[q].conv] = bind[turn[q].conv]
          /\ home'[turn[q].conv] = home[turn[q].conv]
      BY <1>1, <1>2, <2>3
    <3>2. turn'[q].clean => turn[q].clean
      BY <1>2
    <3>3. /\ turn'[q].conv = turn[q].conv /\ turn'[q].spec = turn[q].spec
          /\ turn'[q].member = turn[q].member /\ turn'[q].at = turn[q].at
      BY <1>2
    <3>. QED
      BY <2>1, <3>1, <3>2, <3>3 DEF Stage, AtHome
  <2>. QED
    BY <2>2, <2>3
<1>. QED
  BY <1>3, <1>4, <1>5, <1>6 DEF HomeInv

-------------------------------------------------------------------------------
\* The invariant holds at the start, when no conversation has a home.
LEMMA HomeInit == Init => FullInv
<1>. SUFFICES ASSUME Init PROVE FullInv
  OBVIOUS
<1>1. (\A r \in Request : pc[r] = "idle") /\ \A c \in Conv : home[c] = None
  BY DEF Init
<1>. QED
  BY <1>1, TypeInit DEF FullInv, HomeInv, Alone, Undisturbed, BoundToHome

\* Every step keeps it.
LEMMA HomeStep == FullInv /\ [Next]_vars => FullInv'
<1>. SUFFICES ASSUME FullInv, [Next]_vars PROVE FullInv'
  OBVIOUS
<1>1. TypeInv'
  BY TypeStep DEF FullInv
<1>2. ASSUME NEW r \in Request, NEW c \in Conv, Arrive(r, c) PROVE HomeInv'
  BY <1>2, ArriveHome
<1>3. ASSUME NEW r \in Request, Route(r) PROVE HomeInv'
  BY <1>3, LookupHome, ReadingHome, PinHome, TryHome DEF Route
<1>4. ASSUME NEW r \in Request, Serve(r) PROVE HomeInv'
  BY <1>4, AnswerHome, RebindHome, TryHome, FinishHome DEF Serve
<1>5. ASSUME NEW k \in Conv \cup Prefix, Forget(k) PROVE HomeInv'
  BY <1>5, ForgetHome
<1>6. ASSUME Reconfigure \/ UNCHANGED vars PROVE HomeInv'
  <2>1. UNCHANGED <<bind, pc, turn, home>>
    BY <1>6 DEF Reconfigure, vars
  <2>2. ASSUME NEW r \in Request, pc'[r] # "idle" PROVE Stage(r)'
    <3>1. Stage(r)
      BY <2>1, <2>2 DEF FullInv, HomeInv
    <3>. QED
      BY <2>1, <3>1 DEF Stage, AtHome
  <2>3. Alone' /\ Undisturbed'
    BY <2>1 DEF FullInv, HomeInv, Alone, Undisturbed
  <2>4. BoundToHome'
    BY <2>1 DEF FullInv, HomeInv, BoundToHome, TurnsOf, Active
  <2>. QED
    BY <2>2, <2>3, <2>4 DEF HomeInv
<1>7. HomeInv'
  BY <1>2, <1>3, <1>4, <1>5, <1>6 DEF Next
<1>. QED
  BY <1>1, <1>7 DEF FullInv

\* It holds throughout.
LEMMA HomeAlways == Spec => []FullInv
<1>. QED
  BY HomeInit, HomeStep, PTL DEF Spec

\* poolaffinity.go:30: whatever the counters, the setting's order and the other
\* conversations do, a turn that no other turn of its conversation overlaps is
\* sent to the member that answered the last such turn.
THEOREM Returns == Spec => []ReturnsHome
<1>1. FullInv => ReturnsHome
  <2>. SUFFICES ASSUME FullInv, NEW r \in Request, pc[r] \in Chosen, turn[r].spec.affinity,
                       home[turn[r].conv] # None
                PROVE  turn[r].member = home[turn[r].conv]
    BY DEF ReturnsHome
  <2>1. Stage(r)
    BY DEF FullInv, HomeInv, Chosen
  <2>. QED
    BY <2>1 DEF Stage, AtHome
<1>. QED
  BY HomeAlways, <1>1, PTL

\* poolaffinity.go:197: between turns the binding of a conversation names the
\* member that answered it last, a sibling's answer included.
THEOREM BoundBetweenTurns == Spec => []BoundToHome
<1>1. FullInv => BoundToHome
  BY DEF FullInv, HomeInv
<1>. QED
  BY HomeAlways, <1>1, PTL
===============================================================================
