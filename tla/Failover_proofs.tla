---------------------------- MODULE Failover_proofs ----------------------------
(* What holds of the candidates of a request and of the walk along them, for  *)
(* any targets, chains, settings and answers.                                 *)
EXTENDS Failover, FiniteSetTheorems, SequenceTheorems, WellFoundedInduction, TLAPS

Cand == [target : Target, failover : BOOLEAN, vision : BOOLEAN, sibling : BOOLEAN]

\* No target is in the chain twice.
Distinct(cands) == \A i, j \in DOMAIN cands : cands[i].target = cands[j].target => i = j

\* What new adds to old is a failover hop of one kind to a target on offer.
Grown(old, new, vision, s) ==
    /\ new \in Seq(Cand) /\ Len(old) <= Len(new)
    /\ \A i \in 1..Len(old) : new[i] = old[i]
    /\ \A i \in (Len(old) + 1)..Len(new) :
          new[i].failover /\ new[i].vision = vision /\ new[i].target \in s.offered
    /\ Distinct(old) => Distinct(new)

\* Every set of numbers that holds one holds a least one.
LEMMA LeastNat ==
    ASSUME NEW S \in SUBSET Nat, S # {}
    PROVE  \E n \in S : \A m \in S : n <= m
  <1> DEFINE F == {1..n : n \in S}
             R == StrictSubsetOrdering(Nat)
  <1>1. F \subseteq FiniteSubsetsOf(Nat)  BY FS_Interval DEF FiniteSubsetsOf
  <1>2. F # {}  OBVIOUS
  <1>3. PICK x \in F : \A y \in F : ~ (<<y, x>> \in R)
    <2> HIDE DEF F
    <2> QED  BY <1>1, <1>2, WFMin, FS_StrictSubsetOrderingWellFounded
  <1>4. PICK n \in S : x = 1..n  OBVIOUS
  <1>5. ASSUME NEW m \in S, m < n PROVE FALSE
    <2>1. 1..m \in F /\ <<1..m, 1..n>> \in R  BY <1>5 DEF StrictSubsetOrdering
    <2> QED  BY <1>3, <1>4, <2>1
  <1> QED  BY <1>5

\* The three kinds of candidates.
LEMMA Kinds ==
    ASSUME NEW t \in Target
    PROVE  /\ Candidate(t) = [target |-> t, failover |-> FALSE, vision |-> FALSE, sibling |-> FALSE]
           /\ Sibling(t) = [target |-> t, failover |-> FALSE, vision |-> FALSE, sibling |-> TRUE]
           /\ Failover(t) = [target |-> t, failover |-> TRUE, vision |-> FALSE, sibling |-> FALSE]
           /\ \A vision : [Failover(t) EXCEPT !.vision = vision] =
                  [target |-> t, failover |-> TRUE, vision |-> vision, sibling |-> FALSE]
  <1> DEFINE no == FALSE
             yes == TRUE
  <1>1. Candidate(t) = [target |-> t, failover |-> no, vision |-> no, sibling |-> no]  BY DEF Candidate
  <1>2. Sibling(t) = [Candidate(t) EXCEPT !.sibling = yes]  BY DEF Sibling
  <1>3. Failover(t) = [Candidate(t) EXCEPT !.failover = yes]  BY DEF Failover
  <1> HIDE DEF no, yes
  <1>4. Sibling(t) = [target |-> t, failover |-> no, vision |-> no, sibling |-> yes]  BY <1>1, <1>2
  <1>5. Failover(t) = [target |-> t, failover |-> yes, vision |-> no, sibling |-> no]  BY <1>1, <1>3
  <1>6. \A vision : [Failover(t) EXCEPT !.vision = vision] =
            [target |-> t, failover |-> yes, vision |-> vision, sibling |-> no]
    BY <1>5
  <1> QED  BY <1>1, <1>4, <1>5, <1>6 DEF no, yes

\* All of them are candidates.
LEMMA KindsAreCands ==
    \A t \in Target : /\ Candidate(t) \in Cand /\ Sibling(t) \in Cand /\ Failover(t) \in Cand
                      /\ Candidate(t).target = t /\ Sibling(t).target = t /\ Failover(t).target = t
                      /\ ~Candidate(t).vision /\ ~Sibling(t).vision /\ ~Failover(t).vision
  <1> SUFFICES ASSUME NEW t \in Target
               PROVE  /\ Candidate(t) \in Cand /\ Sibling(t) \in Cand /\ Failover(t) \in Cand
                      /\ Candidate(t).target = t /\ Sibling(t).target = t /\ Failover(t).target = t
                      /\ ~Candidate(t).vision /\ ~Sibling(t).vision /\ ~Failover(t).vision
    OBVIOUS
  <1> DEFINE no == FALSE
             yes == TRUE
  <1>1. no \in BOOLEAN /\ yes \in BOOLEAN  OBVIOUS
  <1>2. /\ Candidate(t) = [target |-> t, failover |-> no, vision |-> no, sibling |-> no]
        /\ Sibling(t) = [target |-> t, failover |-> no, vision |-> no, sibling |-> yes]
        /\ Failover(t) = [target |-> t, failover |-> yes, vision |-> no, sibling |-> no]
    BY Kinds
  <1> HIDE DEF no, yes
  <1>3. Candidate(t) \in Cand /\ Sibling(t) \in Cand /\ Failover(t) \in Cand  BY <1>1, <1>2 DEF Cand
  <1>4. Candidate(t).vision = no /\ Sibling(t).vision = no /\ Failover(t).vision = no  BY <1>2
  <1>5. Candidate(t).target = t /\ Sibling(t).target = t /\ Failover(t).target = t  BY <1>2
  <1> QED  BY <1>3, <1>4, <1>5 DEF no

-------------------------------------------------------------------------------
(* The loop of appendVisionFallback and appendGlobalFallback.                *)

\* A turn of the loop adds one target that is on offer and new, or nothing.
LEMMA JoinedGrows ==
    ASSUME NEW old, NEW cands, NEW t \in Target, NEW room, NEW vision \in BOOLEAN, NEW s,
           old \in Seq(Cand), cands \in Seq(Cand), Grown(old, cands, vision, s)
    PROVE  Grown(old, Joined(cands, t, room, vision, s), vision, s)
  <1> DEFINE c0 == [target |-> t, failover |-> TRUE, vision |-> vision, sibling |-> FALSE]
             new == Joined(cands, t, room, vision, s)
  <1>1. CASE new = cands
    BY <1>1
  <1>2. CASE new # cands
    <2>1. new = Append(cands, c0) /\ Takes(t, cands, s)
      BY <1>2, Kinds DEF Joined
    <2>2. c0 \in Cand /\ c0.failover /\ c0.vision = vision /\ c0.target = t  BY DEF Cand
    <2>3. t \in s.offered /\ \A i \in DOMAIN cands : cands[i].target # t
      BY <2>1 DEF Takes, TargetsOf
    <2> HIDE DEF c0, new
    <2>4. /\ new \in Seq(Cand) /\ Len(new) = Len(cands) + 1 /\ new[Len(cands) + 1] = c0
          /\ \A i \in 1..Len(cands) : new[i] = cands[i]
          /\ DOMAIN new = 1..(Len(cands) + 1) /\ DOMAIN cands = 1..Len(cands) /\ Len(cands) \in Nat
          /\ Len(old) \in Nat /\ Len(old) <= Len(cands)
      BY <2>1, <2>2 DEF Grown
    <2>5. \A i \in 1..Len(old) : new[i] = old[i]  BY <2>4 DEF Grown
    <2>6. \A i \in (Len(old) + 1)..Len(new) :
             new[i].failover /\ new[i].vision = vision /\ new[i].target \in s.offered
      BY <2>2, <2>3, <2>4 DEF Grown
    <2>7. Distinct(cands) => Distinct(new)
      <3> SUFFICES ASSUME Distinct(cands), NEW i \in DOMAIN new, NEW j \in DOMAIN new,
                          new[i].target = new[j].target
                   PROVE  i = j
        BY DEF Distinct
      <3> QED  BY <2>2, <2>3, <2>4 DEF Distinct
    <2> QED  BY <2>4, <2>5, <2>6, <2>7 DEF Grown, new
  <1> QED  BY <1>1, <1>2

\* The turns of the loop up to the mth, as a function of their number.
Turns(f, m, cands, targets, room, vision, s) ==
    /\ DOMAIN f = 0..m /\ f[0] = cands
    /\ \A n \in 1..m : f[n] = Joined(f[n - 1], targets[n], room, vision, s)

\* There is such a function for every number of turns.
LEMMA TurnsExist ==
    ASSUME NEW cands, NEW targets, NEW room, NEW vision, NEW s, NEW last \in Nat
    PROVE  \E f : Turns(f, last, cands, targets, room, vision, s)
  <1> DEFINE Has(m) == \E f : Turns(f, m, cands, targets, room, vision, s)
             Lacks == {m \in Nat : ~Has(m)}
  <1> SUFFICES ASSUME ~Has(last) PROVE FALSE  OBVIOUS
  <1>1. PICK m \in Lacks : \A k \in Lacks : m <= k
    <2>1. Lacks \in SUBSET Nat /\ Lacks # {}  OBVIOUS
    <2> HIDE DEF Lacks
    <2> QED  BY <2>1, LeastNat
  <1>2. Has(0)
    <2>1. Turns([n \in 0..0 |-> cands], 0, cands, targets, room, vision, s)  BY DEF Turns
    <2> QED  BY <2>1
  <1>3. m \in Nat /\ ~Has(m) /\ m # 0 /\ m - 1 \in Nat /\ Has(m - 1)
    <2>1. m \in Nat /\ ~Has(m)  BY <1>1
    <2>2. m # 0  BY <1>2, <2>1
    <2>3. m - 1 \in Nat /\ ~(m <= m - 1)  BY <2>1, <2>2
    <2>4. m - 1 \notin Lacks  BY <1>1, <2>3
    <2> QED  BY <2>1, <2>2, <2>3, <2>4
  <1>4. PICK f : Turns(f, m - 1, cands, targets, room, vision, s)  BY <1>3
  <1> DEFINE g == [n \in 0..m |-> IF n = m THEN Joined(f[m - 1], targets[m], room, vision, s) ELSE f[n]]
  <1>5. Turns(g, m, cands, targets, room, vision, s)
    <2>1. DOMAIN g = 0..m /\ g[0] = cands  BY <1>3, <1>4 DEF Turns
    <2>2. ASSUME NEW n \in 1..m PROVE g[n] = Joined(g[n - 1], targets[n], room, vision, s)
      <3>1. n - 1 \in 0..m /\ n - 1 # m /\ n \in 0..m  BY <1>3
      <3>2. g[n - 1] = f[n - 1]  BY <3>1
      <3>3. CASE n = m  BY <3>1, <3>2, <3>3
      <3>4. CASE n # m
        <4>1. n \in 1..(m - 1) /\ g[n] = f[n]  BY <1>3, <3>1, <3>4
        <4> QED  BY <1>4, <3>2, <4>1 DEF Turns
      <3> QED  BY <3>3, <3>4
    <2> QED  BY <2>1, <2>2 DEF Turns
  <1> QED  BY <1>3, <1>5

\* A chain that is extended keeps what it has and gains hops of one kind.
LEMMA ExtendGrows ==
    ASSUME NEW cands \in Seq(Cand), NEW targets \in Seq(Target), NEW cap, NEW vision \in BOOLEAN, NEW s
    PROVE  Grown(cands, Extend(cands, targets, cap, vision, s), vision, s)
  <1> DEFINE last == Len(targets)
             room == Len(cands) + cap
             Next1(f, n) == IF n = 0 THEN cands ELSE Joined(f[n - 1], targets[n], room, vision, s)
             upto == CHOOSE f : f = [n \in 0..last |-> Next1(f, n)]
  <1>1. last \in Nat  OBVIOUS
  <1>2. \E f : f = [n \in 0..last |-> Next1(f, n)]
    <2>1. PICK f : Turns(f, last, cands, targets, room, vision, s)  BY <1>1, TurnsExist
    <2> DEFINE g == [n \in 0..last |-> f[n]]
    <2>2. g = [n \in 0..last |-> Next1(g, n)]
      <3>1. ASSUME NEW n \in 0..last PROVE g[n] = Next1(g, n)
        <4>1. CASE n = 0  BY <1>1, <2>1, <4>1 DEF Turns
        <4>2. CASE n # 0
          <5>1. n \in 1..last /\ n - 1 \in 0..last  BY <1>1, <4>2
          <5> QED  BY <2>1, <4>2, <5>1 DEF Turns
        <4> QED  BY <4>1, <4>2
      <3> QED  BY <3>1
    <2> QED  BY <2>2
  <1>3. upto = [n \in 0..last |-> Next1(upto, n)]  BY <1>2
  <1>4. Extend(cands, targets, cap, vision, s) = upto[last]  BY DEF Extend
  <1> HIDE DEF upto
  <1>5. upto[0] = cands  BY <1>1, <1>3
  <1>6. \A n \in 1..last : upto[n] = Joined(upto[n - 1], targets[n], room, vision, s)
    <2> SUFFICES ASSUME NEW n \in 1..last PROVE upto[n] = Joined(upto[n - 1], targets[n], room, vision, s)
      OBVIOUS
    <2>1. n \in 0..last /\ n # 0  BY <1>1
    <2> QED  BY <1>3, <2>1
  <1> DEFINE Bad1 == {n \in 0..last : ~Grown(cands, upto[n], vision, s)}
  <1>7. Grown(cands, cands, vision, s)  BY DEF Grown
  <1>8. Bad1 = {}
    <2> SUFFICES ASSUME Bad1 # {} PROVE FALSE  OBVIOUS
    <2>1. PICK n \in Bad1 : \A k \in Bad1 : n <= k
      <3>1. Bad1 \in SUBSET Nat  BY <1>1
      <3> HIDE DEF Bad1
      <3> QED  BY <3>1, LeastNat
    <2>2. n \in 0..last /\ ~Grown(cands, upto[n], vision, s)  BY <2>1
    <2>3. n # 0  BY <1>5, <1>7, <2>2
    <2>4. n \in 1..last /\ n - 1 \in 0..last /\ ~(n <= n - 1)  BY <1>1, <2>2, <2>3
    <2>5. n - 1 \notin Bad1  BY <2>1, <2>4
    <2>6. Grown(cands, upto[n - 1], vision, s)  BY <2>4, <2>5
    <2>7. upto[n - 1] \in Seq(Cand) /\ targets[n] \in Target  BY <2>4, <2>6 DEF Grown
    <2>8. Grown(cands, Joined(upto[n - 1], targets[n], room, vision, s), vision, s)
      BY <2>6, <2>7, JoinedGrows
    <2> QED  BY <1>6, <2>2, <2>4, <2>8
  <1>9. last \in 0..last  BY <1>1
  <1> QED  BY <1>4, <1>8, <1>9

-------------------------------------------------------------------------------
(* The chain of a request.                                                   *)

\* What a request and the settings are.
Set(s) ==
    /\ s.primary \in Target /\ s.rest \in Seq(Target) /\ s.noFallback \in BOOLEAN /\ s.image \in BOOLEAN
    /\ s.fallbackOf \in [Provider -> Target \cup {NoTarget}]
    /\ s.vision \in Seq(Target) /\ s.global \in Seq(Target)
    /\ \A i \in DOMAIN s.rest :
          /\ ProviderOf[s.rest[i]] = ProviderOf[s.primary] /\ s.rest[i] # s.primary
          /\ \A j \in 1..(i - 1) : s.rest[j] # s.rest[i]

\* Every request and its settings are such.
LEMMA SetupsAreSet == \A s \in Setups : Set(s)
  BY FailoverAssumption DEF Setup, Set

\* A walk along the providers' own fallbacks: each provider once.
Path(p, s) ==
    /\ p \in Seq(Target) /\ Len(p) >= 1 /\ p[1] = s.primary
    /\ \A i \in 2..Len(p) : p[i] \in {s.fallbackOf[q] : q \in Provider}
    /\ \A i, j \in 1..Len(p) : ProviderOf[p[i]] = ProviderOf[p[j]] => i = j

\* One more hop keeps it one.
LEMMA FollowKeeps ==
    ASSUME NEW s, Set(s), NEW p, Path(p, s)
    PROVE  Path(Follow(p, s), s)
  <1> DEFINE last == ProviderOf[Last(p)]
             hop == s.fallbackOf[last]
  <1>1. CASE Follow(p, s) = p  BY <1>1
  <1>2. CASE Follow(p, s) # p
    <2>1. /\ Follow(p, s) = Append(p, hop) /\ hop # NoTarget
          /\ \A i \in DOMAIN p : ProviderOf[p[i]] # ProviderOf[hop]
      BY <1>2 DEF Follow
    <2>2. Last(p) \in Target /\ last \in Provider
      <3>1. Last(p) = p[Len(p)]  BY DEF Last
      <3> QED  BY <3>1, ChainAssumption DEF Path
    <2>3. hop \in Target /\ hop \in {s.fallbackOf[q] : q \in Provider}
      BY <2>1, <2>2 DEF Set
    <2> HIDE DEF hop
    <2> DEFINE new == Append(p, hop)
    <2>4. /\ p \in Seq(Target) /\ DOMAIN p = 1..Len(p) /\ Len(p) \in Nat /\ Len(p) >= 1
          /\ new \in Seq(Target) /\ Len(new) = Len(p) + 1 /\ new[Len(p) + 1] = hop
          /\ \A i \in 1..Len(p) : new[i] = p[i]
      BY <2>3 DEF Path
    <2> HIDE DEF new
    <2>5. new[1] = s.primary /\ \A i \in 2..Len(new) : new[i] \in {s.fallbackOf[q] : q \in Provider}
      BY <2>3, <2>4 DEF Path
    <2>6. \A i, j \in 1..Len(new) : ProviderOf[new[i]] = ProviderOf[new[j]] => i = j
      BY <2>1, <2>4 DEF Path
    <2>7. Path(new, s)  BY <2>4, <2>5, <2>6 DEF Path
    <2> QED  BY <2>1, <2>7 DEF new
  <1> QED  BY <1>1, <1>2

\* The providers' own fallbacks lead to other providers, to each once.
LEMMA HopsLead ==
    ASSUME NEW s, Set(s)
    PROVE  /\ Hops(s) \in Seq(Target) /\ (s.noFallback => Hops(s) = <<>>)
           /\ \A i \in DOMAIN Hops(s) : /\ Hops(s)[i] \in {s.fallbackOf[q] : q \in Provider}
                                         /\ ProviderOf[Hops(s)[i]] # ProviderOf[s.primary]
           /\ \A i, j \in DOMAIN Hops(s) : Hops(s)[i] = Hops(s)[j] => i = j
  <1>1. CASE s.noFallback  BY <1>1 DEF Hops
  <1>2. CASE ~s.noFallback
    <2> DEFINE p == Follow(Follow(Follow(<<s.primary>>, s), s), s)
    <2>1. Path(<<s.primary>>, s)  BY DEF Path, Set
    <2>2. Path(p, s)  BY <2>1, FollowKeeps
    <2>3. Hops(s) = Tail(p)  BY <1>2 DEF Hops
    <2> HIDE DEF p
    <2>4. /\ p \in Seq(Target) /\ Len(p) \in Nat /\ Len(p) >= 1
          /\ Tail(p) \in Seq(Target) /\ DOMAIN Tail(p) = 1..(Len(p) - 1)
          /\ \A i \in 1..(Len(p) - 1) : Tail(p)[i] = p[i + 1]
      BY <2>2 DEF Path
    <2>5. \A i \in 1..(Len(p) - 1) : i + 1 \in 2..Len(p) /\ i + 1 \in 1..Len(p) /\ i + 1 # 1
      BY <2>4
    <2>6. \A i \in DOMAIN Tail(p) : /\ Tail(p)[i] \in {s.fallbackOf[q] : q \in Provider}
                                    /\ ProviderOf[Tail(p)[i]] # ProviderOf[s.primary]
      BY <2>2, <2>4, <2>5 DEF Path
    <2>7. \A i, j \in DOMAIN Tail(p) : Tail(p)[i] = Tail(p)[j] => i = j
      BY <2>2, <2>4, <2>5 DEF Path
    <2> QED  BY <1>2, <2>3, <2>4, <2>6, <2>7
  <1> QED  BY <1>1, <1>2 DEF Set

\* Where a request may be sent at all.
Granted(t, s) ==
    \/ ProviderOf[t] = ProviderOf[s.primary]
    \/ ~s.noFallback /\ t \in s.offered \cup {s.fallbackOf[q] : q \in Provider}

\* The candidates one by one: the model asked for, its siblings, the hops.
LEMMA OwnParts ==
    ASSUME NEW s, Set(s)
    PROVE  LET n == Len(s.rest)
               h == Hops(s)
           IN  /\ Own(s) \in Seq(Cand) /\ Len(Own(s)) = 1 + n + Len(h) /\ n \in Nat /\ Len(h) \in Nat
               /\ Own(s)[1] = Candidate(s.primary)
               /\ \A i \in 1..n : Own(s)[i + 1] = Sibling(s.rest[i])
               /\ \A i \in 1..Len(h) : Own(s)[i + 1 + n] = Failover(h[i])
  <1> DEFINE n == Len(s.rest)
             h == Hops(s)
             x == <<Candidate(s.primary)>>
             y == Each(Sibling, s.rest)
             z == Each(Failover, h)
  <1>1. s.rest \in Seq(Target) /\ h \in Seq(Target) /\ n \in Nat /\ Len(h) \in Nat
        /\ DOMAIN s.rest = 1..n /\ DOMAIN h = 1..Len(h)
    BY HopsLead DEF Set
  <1>2. \A t \in Target : Candidate(t) \in Cand /\ Sibling(t) \in Cand /\ Failover(t) \in Cand
    BY KindsAreCands
  <1>3. x \in Seq(Cand) /\ Len(x) = 1 /\ x[1] = Candidate(s.primary)  BY <1>2 DEF Set
  <1>4. y \in Seq(Cand) /\ Len(y) = n /\ \A i \in 1..n : y[i] = Sibling(s.rest[i])
    <2>1. y = [i \in 1..n |-> Sibling(s.rest[i])]  BY <1>1 DEF Each
    <2>2. \A i \in 1..n : Sibling(s.rest[i]) \in Cand  BY <1>1, <1>2
    <2> HIDE DEF y, n
    <2> QED  BY <1>1, <2>1, <2>2
  <1>5. z \in Seq(Cand) /\ Len(z) = Len(h) /\ \A i \in 1..Len(h) : z[i] = Failover(h[i])
    <2>1. z = [i \in 1..Len(h) |-> Failover(h[i])]  BY <1>1 DEF Each
    <2>2. \A i \in 1..Len(h) : Failover(h[i]) \in Cand  BY <1>1, <1>2
    <2> HIDE DEF z, h
    <2> QED  BY <1>1, <2>1, <2>2
  <1>6. Own(s) = x \o y \o z  BY DEF Own
  <1> HIDE DEF x, y, z, n, h
  <1>7. x \o y \in Seq(Cand) /\ Len(x \o y) = 1 + n /\ (x \o y)[1] = x[1]
        /\ \A i \in 1..n : (x \o y)[i + 1] = y[i]
    <2>1. /\ x \o y \in Seq(Cand) /\ Len(x \o y) = Len(x) + Len(y)
          /\ \A i \in 1..Len(x) : (x \o y)[i] = x[i]
          /\ \A i \in 1..Len(y) : (x \o y)[i + Len(x)] = y[i]
      <3>1. x \in Seq(Cand) /\ y \in Seq(Cand)  BY <1>3, <1>4
      <3> QED  BY <3>1
    <2>2. 1 \in 1..Len(x)  BY <1>3
    <2> QED  BY <1>1, <1>3, <1>4, <2>1, <2>2
  <1>8. /\ (x \o y) \o z \in Seq(Cand) /\ Len((x \o y) \o z) = 1 + n + Len(h)
        /\ \A i \in 1..(n + 1) : ((x \o y) \o z)[i] = (x \o y)[i]
        /\ \A i \in 1..Len(h) : ((x \o y) \o z)[i + 1 + n] = z[i]
    <2> DEFINE w == x \o y
    <2>1. w \in Seq(Cand) /\ Len(w) = n + 1 /\ n + 1 = 1 + n  BY <1>1, <1>7
    <2> HIDE DEF w
    <2>2. /\ w \o z \in Seq(Cand) /\ Len(w \o z) = (n + 1) + Len(h)
          /\ \A i \in 1..(n + 1) : (w \o z)[i] = w[i]
          /\ \A i \in 1..Len(h) : (w \o z)[i + (n + 1)] = z[i]
      <3>1. /\ w \o z \in Seq(Cand) /\ Len(w \o z) = Len(w) + Len(z)
            /\ \A i \in 1..Len(w) : (w \o z)[i] = w[i]
            /\ \A i \in 1..Len(z) : (w \o z)[i + Len(w)] = z[i]
        <4>1. w \in Seq(Cand) /\ z \in Seq(Cand)  BY <1>5, <2>1
        <4> QED  BY <4>1
      <3> QED  BY <1>5, <2>1, <3>1
    <2>3. /\ (n + 1) + Len(h) = 1 + n + Len(h)
          /\ \A i \in 1..Len(h) : i + (n + 1) = i + 1 + n
      BY <1>1
    <2>4. \A i \in 1..Len(h) : (w \o z)[i + 1 + n] = z[i]  BY <2>2, <2>3
    <2> QED  BY <2>2, <2>3, <2>4 DEF w
  <1>9. 1 \in 1..(n + 1) /\ \A i \in 1..n : i + 1 \in 1..(n + 1)  BY <1>1
  <1>10. Own(s)[1] = Candidate(s.primary) /\ \A i \in 1..n : Own(s)[i + 1] = Sibling(s.rest[i])
    BY <1>3, <1>4, <1>6, <1>7, <1>8, <1>9
  <1>11. \A i \in 1..Len(h) : Own(s)[i + 1 + n] = Failover(h[i])
    BY <1>5, <1>6, <1>8
  <1> QED  BY <1>1, <1>6, <1>8, <1>10, <1>11 DEF n, h

\* What the walk needs to know of its chain: no target twice, each one granted;
\* and for a text, the siblings in front of what leaves the provider.
Sound(cands, s) ==
    /\ cands \in Seq(Cand) /\ Distinct(cands)
    /\ \A i \in 1..Len(cands) : Granted(cands[i].target, s)
    /\ ~s.image =>
          /\ Len(cands) >= Len(s.rest) + 1
          /\ \A i \in 1..Len(s.rest) : cands[i + 1].target = s.rest[i]
          /\ \A i \in 1..(Len(s.rest) + 1) : ProviderOf[cands[i].target] = ProviderOf[s.primary]
          /\ \A i \in 1..Len(cands) : ~cands[i].vision

\* The candidates before the two chains are.
LEMMA OwnIsSound ==
    ASSUME NEW s, Set(s)
    PROVE  Sound(Own(s), s)
  <1> DEFINE n == Len(s.rest)
             h == Hops(s)
             own == Own(s)
  <1>1. /\ own \in Seq(Cand) /\ Len(own) = 1 + n + Len(h) /\ n \in Nat /\ Len(h) \in Nat
        /\ own[1] = Candidate(s.primary)
        /\ \A i \in 1..n : own[i + 1] = Sibling(s.rest[i])
        /\ \A i \in 1..Len(h) : own[i + 1 + n] = Failover(h[i])
    BY OwnParts
  <1>2. /\ s.rest \in Seq(Target) /\ DOMAIN s.rest = 1..n /\ s.primary \in Target
        /\ \A i \in 1..n : /\ s.rest[i] \in Target /\ s.rest[i] # s.primary
                           /\ ProviderOf[s.rest[i]] = ProviderOf[s.primary]
                           /\ \A j \in 1..(i - 1) : s.rest[j] # s.rest[i]
    BY DEF Set
  <1>3. \A i, j \in 1..n : s.rest[i] = s.rest[j] => i = j
    <2> SUFFICES ASSUME NEW i \in 1..n, NEW j \in 1..n, s.rest[i] = s.rest[j], i # j PROVE FALSE
      OBVIOUS
    <2>1. i \in Nat /\ j \in Nat  BY <1>1
    <2>2. i \in 1..(j - 1) \/ j \in 1..(i - 1)  BY <1>1, <2>1
    <2> QED  BY <1>2, <2>2
  <1>4. /\ DOMAIN h = 1..Len(h) /\ (s.noFallback => Len(h) = 0)
        /\ \A i \in 1..Len(h) : /\ h[i] \in Target /\ h[i] \in {s.fallbackOf[q] : q \in Provider}
                                /\ ProviderOf[h[i]] # ProviderOf[s.primary]
        /\ \A i, j \in 1..Len(h) : h[i] = h[j] => i = j
    BY HopsLead
  <1>5. /\ own[1].target = s.primary
        /\ \A i \in 1..n : own[i + 1].target = s.rest[i]
        /\ \A i \in 1..Len(h) : own[i + 1 + n].target = h[i]
    BY <1>1, <1>2, <1>4, KindsAreCands
  <1>6. ~own[1].vision /\ (\A i \in 1..n : ~own[i + 1].vision) /\ \A i \in 1..Len(h) : ~own[i + 1 + n].vision
    <2>1. ~own[1].vision
      <3>1. ~Candidate(s.primary).vision  BY <1>2, KindsAreCands
      <3> QED  BY <1>1, <3>1
    <2>2. ASSUME NEW i \in 1..n PROVE ~own[i + 1].vision
      <3>1. ~Sibling(s.rest[i]).vision  BY <1>2, KindsAreCands
      <3> QED  BY <1>1, <3>1
    <2>3. ASSUME NEW i \in 1..Len(h) PROVE ~own[i + 1 + n].vision
      <3>1. ~Failover(h[i]).vision  BY <1>4, KindsAreCands
      <3> QED  BY <1>1, <3>1
    <2> QED  BY <2>1, <2>2, <2>3
  <1> HIDE DEF own, n, h
  <1>7. ASSUME NEW i \in 1..Len(own)
        PROVE  \/ i = 1
               \/ \E k \in 1..n : i = k + 1
               \/ \E k \in 1..Len(h) : i = k + 1 + n
    <2>1. i \in Nat /\ 1 <= i /\ i <= 1 + n + Len(h)  BY <1>1
    <2>2. CASE i = 1  BY <2>2
    <2>3. CASE i # 1 /\ i <= n + 1
      <3>1. i - 1 \in 1..n /\ i = (i - 1) + 1  BY <1>1, <2>1, <2>3
      <3> QED  BY <3>1
    <2>4. CASE i > n + 1
      <3>1. i - 1 - n \in 1..Len(h) /\ i = (i - 1 - n) + 1 + n  BY <1>1, <2>1, <2>4
      <3> QED  BY <3>1
    <2> QED  BY <1>1, <2>1, <2>2, <2>3, <2>4
  <1>8. \A i \in 1..Len(own) : Granted(own[i].target, s) /\ ~own[i].vision
    <2> SUFFICES ASSUME NEW i \in 1..Len(own) PROVE Granted(own[i].target, s) /\ ~own[i].vision  OBVIOUS
    <2>1. CASE i = 1  BY <1>5, <1>6, <2>1 DEF Granted
    <2>2. ASSUME NEW k \in 1..n, i = k + 1 PROVE Granted(own[i].target, s) /\ ~own[i].vision
      BY <1>2, <1>5, <1>6, <2>2 DEF Granted
    <2>3. ASSUME NEW k \in 1..Len(h), i = k + 1 + n PROVE Granted(own[i].target, s) /\ ~own[i].vision
      <3>1. ~s.noFallback  BY <1>1, <1>4 DEF Set
      <3> QED  BY <1>4, <1>5, <1>6, <2>3, <3>1 DEF Granted
    <2> QED  BY <1>7, <2>1, <2>2, <2>3
  <1>9. Distinct(own)
    <2> SUFFICES ASSUME NEW i \in 1..Len(own), NEW j \in 1..Len(own), own[i].target = own[j].target
                 PROVE  i = j
      BY <1>1 DEF Distinct
    <2>1. CASE i = 1  BY <1>2, <1>4, <1>5, <1>7, <2>1
    <2>2. ASSUME NEW k \in 1..n, i = k + 1 PROVE i = j
      <3>1. CASE j = 1  BY <1>2, <1>5, <2>2, <3>1
      <3>2. ASSUME NEW m \in 1..n, j = m + 1 PROVE i = j
        <4>1. s.rest[k] = s.rest[m]  BY <1>5, <2>2, <3>2
        <4> QED  BY <1>3, <2>2, <3>2, <4>1
      <3>3. ASSUME NEW m \in 1..Len(h), j = m + 1 + n PROVE i = j
        <4>1. s.rest[k] = h[m]  BY <1>5, <2>2, <3>3
        <4> QED  BY <1>2, <1>4, <4>1
      <3> QED  BY <1>7, <3>1, <3>2, <3>3
    <2>3. ASSUME NEW k \in 1..Len(h), i = k + 1 + n PROVE i = j
      <3>1. CASE j = 1
        <4>1. h[k] = s.primary  BY <1>5, <2>3, <3>1
        <4> QED  BY <1>4, <4>1
      <3>2. ASSUME NEW m \in 1..n, j = m + 1 PROVE i = j
        <4>1. s.rest[m] = h[k]  BY <1>5, <2>3, <3>2
        <4> QED  BY <1>2, <1>4, <4>1
      <3>3. ASSUME NEW m \in 1..Len(h), j = m + 1 + n PROVE i = j
        <4>1. h[k] = h[m]  BY <1>5, <2>3, <3>3
        <4> QED  BY <1>4, <2>3, <3>3, <4>1
      <3> QED  BY <1>7, <3>1, <3>2, <3>3
    <2> QED  BY <1>7, <2>1, <2>2, <2>3
  <1>10. \A i \in 1..(n + 1) : ProviderOf[own[i].target] = ProviderOf[s.primary]
    <2> SUFFICES ASSUME NEW i \in 1..(n + 1) PROVE ProviderOf[own[i].target] = ProviderOf[s.primary]  OBVIOUS
    <2>1. CASE i = 1  BY <1>5, <2>1
    <2>2. CASE i # 1
      <3>1. i - 1 \in 1..n /\ (i - 1) + 1 = i  BY <1>1, <2>2
      <3> QED  BY <1>2, <1>5, <3>1
    <2> QED  BY <2>1, <2>2
  <1> QED  BY <1>1, <1>5, <1>8, <1>9, <1>10 DEF Sound, own, n

\* An extended chain stays sound: the vision chain's part only comes with a
\* picture, and none comes when the request is pinned.
LEMMA GrownIsSound ==
    ASSUME NEW s, Set(s), NEW old, NEW new, NEW vision, Sound(old, s), Grown(old, new, vision, s),
           ~s.noFallback, s.image \/ ~vision
    PROVE  Sound(new, s)
  <1>1. /\ Len(old) \in Nat /\ Len(new) \in Nat /\ Len(old) <= Len(new) /\ new \in Seq(Cand)
        /\ Len(s.rest) \in Nat /\ Distinct(new)
        /\ \A i \in 1..Len(old) : new[i] = old[i]
        /\ \A i \in (Len(old) + 1)..Len(new) : new[i].vision = vision /\ new[i].target \in s.offered
    BY DEF Grown, Sound, Set
  <1>2. \A i \in 1..Len(new) : i \in 1..Len(old) \/ i \in (Len(old) + 1)..Len(new)
    BY <1>1
  <1>3. \A i \in 1..Len(new) : Granted(new[i].target, s)
    BY <1>1, <1>2 DEF Sound, Granted
  <1>4. ASSUME ~s.image
        PROVE  /\ Len(new) >= Len(s.rest) + 1
               /\ \A i \in 1..Len(s.rest) : new[i + 1].target = s.rest[i]
               /\ \A i \in 1..(Len(s.rest) + 1) : ProviderOf[new[i].target] = ProviderOf[s.primary]
               /\ \A i \in 1..Len(new) : ~new[i].vision
    <2>1. Len(old) >= Len(s.rest) + 1  BY <1>4 DEF Sound
    <2>2. \A i \in 1..Len(s.rest) : i + 1 \in 1..Len(old)  BY <1>1, <2>1
    <2>3. \A i \in 1..(Len(s.rest) + 1) : i \in 1..Len(old)  BY <1>1, <2>1
    <2>4. \A i \in 1..Len(s.rest) : new[i + 1].target = s.rest[i]  BY <1>1, <1>4, <2>2 DEF Sound
    <2>5. \A i \in 1..(Len(s.rest) + 1) : ProviderOf[new[i].target] = ProviderOf[s.primary]
      BY <1>1, <1>4, <2>3 DEF Sound
    <2>6. \A i \in 1..Len(new) : ~new[i].vision  BY <1>1, <1>2, <1>4 DEF Sound
    <2> QED  BY <1>1, <2>1, <2>4, <2>5, <2>6
  <1> QED  BY <1>1, <1>3, <1>4 DEF Sound

\* A chain whose end comes first stays sound when there is a picture.
LEMMA TurnedIsSound ==
    ASSUME NEW s, NEW all, NEW k \in 0..Len(all), Sound(all, s), s.image
    PROVE  Sound(SubSeq(all, k + 1, Len(all)) \o SubSeq(all, 1, k), s)
  <1> DEFINE n == Len(all)
             x == SubSeq(all, k + 1, n)
             y == SubSeq(all, 1, k)
             new == x \o y
             At(i) == IF i <= n - k THEN i + k ELSE i - (n - k)
  <1>1. all \in Seq(Cand) /\ n \in Nat /\ k \in Nat /\ k <= n /\ DOMAIN all = 1..n  BY DEF Sound
  <1>2. x \in Seq(Cand) /\ Len(x) = n - k /\ \A i \in 1..(n - k) : x[i] = all[i + k]
    <2>1. \A i \in (k + 1)..n : all[i] \in Cand  BY <1>1
    <2>2. n \in Int /\ k + 1 \in Int  BY <1>1
    <2>3. /\ x \in Seq(Cand)
          /\ Len(x) = IF k + 1 <= n THEN n - (k + 1) + 1 ELSE 0
          /\ \A i \in 1..(n - (k + 1) + 1) : x[i] = all[(k + 1) + i - 1]
      <3> HIDE DEF n
      <3> QED  BY <2>1, <2>2, SubSeqProperties
    <2> HIDE DEF x, n
    <2>4. n - (k + 1) + 1 = n - k /\ \A i \in 1..(n - k) : (k + 1) + i - 1 = i + k  BY <1>1
    <2>5. Len(x) = n - k  BY <1>1, <2>3
    <2>6. \A i \in 1..(n - k) : x[i] = all[i + k]  BY <2>3, <2>4
    <2> QED  BY <2>3, <2>5, <2>6
  <1>3. y \in Seq(Cand) /\ Len(y) = k /\ \A i \in 1..k : y[i] = all[i]
    <2>1. \A i \in 1..k : all[i] \in Cand  BY <1>1
    <2> QED  BY <1>1, <2>1
  <1> HIDE DEF x, y, n
  <1>4. new \in Seq(Cand) /\ Len(new) = n
    <2>1. x \in Seq(Cand) /\ y \in Seq(Cand)  BY <1>2, <1>3
    <2>2. new \in Seq(Cand) /\ Len(new) = Len(x) + Len(y)  BY <2>1
    <2> QED  BY <1>1, <1>2, <1>3, <2>2
  <1>5. \A i \in 1..n : At(i) \in 1..n /\ new[i] = all[At(i)]
    <2> SUFFICES ASSUME NEW i \in 1..n PROVE At(i) \in 1..n /\ new[i] = all[At(i)]  OBVIOUS
    <2>1. x \in Seq(Cand) /\ y \in Seq(Cand)  BY <1>2, <1>3
    <2>2. CASE i <= n - k
      <3>1. i \in 1..Len(x) /\ i \in 1..(n - k)  BY <1>1, <1>2, <2>2
      <3>2. new[i] = x[i]  BY <2>1, <3>1
      <3> QED  BY <1>1, <1>2, <2>2, <3>1, <3>2
    <2>3. CASE ~(i <= n - k)
      <3>1. i - (n - k) \in 1..k /\ i - (n - k) \in 1..Len(y) /\ (i - (n - k)) + Len(x) = i
        BY <1>1, <1>2, <1>3, <2>3
      <3>2. \A j \in 1..Len(y) : new[j + Len(x)] = y[j]  BY <2>1
      <3>3. new[i] = y[i - (n - k)]  BY <3>1, <3>2
      <3> QED  BY <1>1, <1>3, <2>3, <3>1, <3>3
    <2> QED  BY <2>2, <2>3
  <1>6. \A i, j \in 1..n : At(i) = At(j) => i = j  BY <1>1
  <1>7. DOMAIN new = 1..n  BY <1>4
  <1> HIDE DEF new, At
  <1>8. Distinct(new)  BY <1>1, <1>5, <1>6, <1>7, SMTT(60) DEF Distinct, Sound
  <1>9. \A i \in 1..Len(new) : Granted(new[i].target, s)
    <2>1. \A i \in 1..n : Granted(all[i].target, s)  BY DEF Sound, n
    <2> QED  BY <1>4, <1>5, <2>1
  <1>10. Sound(new, s)  BY <1>4, <1>8, <1>9 DEF Sound
  <1> QED  BY <1>10 DEF new, x, y, n

\* The chain of every request is sound.
LEMMA ChainIsSound ==
    ASSUME NEW s, Set(s)
    PROVE  Sound(Chain(s), s)
  <1> DEFINE own == Own(s)
             all == WithVision(s)
  <1>1. Sound(own, s)  BY OwnIsSound
  <1>2. own \in Seq(Cand) /\ s.vision \in Seq(Target) /\ s.global \in Seq(Target)  BY <1>1 DEF Sound, Set
  <1>3. Sound(all, s) /\ Len(own) <= Len(all) /\ (all # own => s.image /\ ~s.noFallback)
    <2>1. CASE s.image /\ ~s.noFallback
      <3>1. all = Extend(own, s.vision, MaxVisionHops, TRUE, s)  BY <2>1 DEF WithVision
      <3>2. Grown(own, all, TRUE, s)  BY <1>2, <3>1, ExtendGrows
      <3>3. Sound(all, s)  BY <1>1, <2>1, <3>2, GrownIsSound
      <3> QED  BY <2>1, <3>2, <3>3 DEF Grown
    <2>2. CASE ~(s.image /\ ~s.noFallback)
      <3>1. all = own  BY <2>2 DEF WithVision
      <3> QED  BY <1>1, <1>2, <3>1
    <2> QED  BY <2>1, <2>2
  <1>4. Sound(Ordered(s), s)
    <2>1. CASE BlindPrimary(s)
      <3>1. Len(all) > Len(own)  BY <2>1 DEF BlindPrimary
      <3>2. Len(own) \in 0..Len(all) /\ s.image  BY <1>2, <1>3, <3>1 DEF Sound
      <3>3. Ordered(s) = SubSeq(all, Len(own) + 1, Len(all)) \o SubSeq(all, 1, Len(own))
        BY <2>1 DEF Ordered
      <3> QED  BY <1>3, <3>2, <3>3, TurnedIsSound
    <2>2. CASE ~BlindPrimary(s)
      <3>1. Ordered(s) = all  BY <2>2 DEF Ordered
      <3> QED  BY <1>3, <3>1
    <2> QED  BY <2>1, <2>2
  <1>5. CASE s.noFallback  BY <1>4, <1>5 DEF Chain
  <1>6. CASE ~s.noFallback
    <2>1. Chain(s) = Extend(Ordered(s), s.global, MaxGlobalHops, FALSE, s)  BY <1>6 DEF Chain
    <2>2. Grown(Ordered(s), Chain(s), FALSE, s)  BY <1>2, <1>4, <2>1, ExtendGrows DEF Sound
    <2> QED  BY <1>4, <1>6, <2>2, GrownIsSound
  <1> QED  BY <1>5, <1>6 DEF Set

-------------------------------------------------------------------------------
(* The walk.                                                                 *)

\* Where the walk is: at a candidate, or behind the last.
OnChain ==
    /\ setup \in Setups /\ chain = Chain(setup)
    /\ pc \in {"next", "attempt", "relay", "done"}
    /\ pos \in Nat /\ 1 <= pos /\ pos <= Len(chain) + 1
    /\ pc \in {"attempt", "relay"} => pos <= Len(chain)
    /\ pc \in {"next", "attempt"} => reply = "none"

Attempts == [n : Nat, max : Nat, dropped : BOOLEAN, rescued : BOOLEAN, passth : BOOLEAN]

\* What is sent is the client's own body, in its own dialect, or was built in
\* one; of a picture, in one that carries it.
Kept ==
    /\ attempt.passth => setup.client = DialectOf[c.target]
    /\ setup.image /\ c.failover => attempt.passth \/ DialectOf[c.target] \in Carrying

\* What was sent: what the walk has been at, last of all the candidate at hand;
\* of a text, all that it has passed.
Sent ==
    /\ tried \in Seq(Cand) /\ attempt \in Attempts
    /\ pc \in {"attempt", "relay"} =>
          /\ ~Unseen /\ Kept
          /\ Len(tried) >= 1 /\ tried[Len(tried)] = chain[pos]
    /\ \A k \in 1..Len(tried) : \E i \in 1..Len(chain) :
          /\ tried[k] = chain[i] /\ i <= pos
          /\ pc = "next" => i # pos
    /\ ~setup.image => \A i \in 1..Len(chain) : i < pos =>
          \E k \in 1..Len(tried) : tried[k] = chain[i]

Trace == [target : Target, stat : {"none", "error", "ok"}, note : BOOLEAN,
          err : {"none", "failed", "error", "aborted", "recovered", "pool_failover", "failover_from"}]

\* What was recorded: a failure of each candidate that was passed, and of the
\* request itself at the end.
Filed ==
    /\ rows \in Seq(Trace)
    /\ \A i \in 1..Len(chain) : i < pos => \E r \in 1..Len(rows) : rows[r].target = chain[i].target /\ rows[r].note
    /\ \A r \in 1..Len(rows) :
          \/ \E i \in 1..Len(chain) : i < pos /\ rows[r].target = chain[i].target
          \/ /\ pc = "done" /\ r = Len(rows)
             /\ \/ rows[r].target = setup.primary /\ reply # "200"
                \/ pos <= Len(chain) /\ rows[r].target = chain[pos].target
                   /\ (reply = "200" /\ chain[pos].failover =>
                          rows[r].stat = "ok" /\ rows[r].err = "failover_from" /\ ~rows[r].note)

\* Where a vision chain is in play, all that was sent went to models that see.
OnlySeeing ==
    \A k \in DOMAIN tried : VisionActive(chain) => tried[k].vision \/ tried[k].target \in setup.sees

WalkInv == OnChain /\ Sent /\ Filed /\ OnlySeeing /\ SiblingsFirst /\ NoSecondChance

\* What the chain is known for, wherever the walk is.
LEMMA Known ==
    ASSUME OnChain
    PROVE  /\ Set(setup) /\ Sound(chain, setup) /\ chain \in Seq(Cand) /\ Len(chain) \in Nat
           /\ DOMAIN chain = 1..Len(chain)
           /\ \A i \in 1..Len(chain) : chain[i] \in Cand /\ chain[i].target \in Target
           /\ \A i, j \in 1..Len(chain) : chain[i].target = chain[j].target => i = j
  <1>1. Set(setup) /\ Sound(chain, setup)  BY SetupsAreSet, ChainIsSound DEF OnChain
  <1>2. chain \in Seq(Cand) /\ Distinct(chain)  BY <1>1 DEF Sound
  <1>3. Len(chain) \in Nat /\ DOMAIN chain = 1..Len(chain) /\ \A i \in 1..Len(chain) : chain[i] \in Cand
    BY <1>2
  <1>4. \A i \in 1..Len(chain) : chain[i].target \in Target  BY <1>3 DEF Cand
  <1>5. \A i, j \in 1..Len(chain) : chain[i].target = chain[j].target => i = j  BY <1>2, <1>3 DEF Distinct
  <1> QED  BY <1>1, <1>2, <1>3, <1>4, <1>5

\* A sequence and one more.
LEMMA Appended ==
    ASSUME NEW S, NEW x \in Seq(S), NEW e \in S
    PROVE  /\ Append(x, e) \in Seq(S) /\ Len(Append(x, e)) = Len(x) + 1
           /\ Append(x, e)[Len(x) + 1] = e /\ Len(x) \in Nat
           /\ \A r \in 1..Len(x) : Append(x, e)[r] = x[r]
  OBVIOUS

\* The candidate at hand is sent the request, for the first time or again.
LEMMA SendKeeps ==
    ASSUME WalkInv, pc \in {"next", "attempt"}, pos <= Len(chain), ~Unseen, Sending,
           attempt' \in Attempts, Kept',
           setup' = setup, chain' = chain, pos' = pos, rows' = rows, reply' = reply
    PROVE  WalkInv'
  <1>1. OnChain /\ Sent /\ Filed  BY DEF WalkInv
  <1>2. /\ chain \in Seq(Cand) /\ Len(chain) \in Nat /\ pos \in 1..Len(chain) /\ chain[pos] \in Cand
        /\ tried \in Seq(Cand) /\ Len(tried) \in Nat
    BY <1>1, Known DEF OnChain, Sent
  <1> DEFINE n == Len(tried)
  <1>3. /\ pc' = "attempt" /\ tried' \in Seq(Cand) /\ Len(tried') = n + 1 /\ tried'[n + 1] = chain[pos]
        /\ \A k \in 1..n : tried'[k] = tried[k]
        /\ DOMAIN tried = 1..n /\ DOMAIN tried' = 1..(n + 1)
    BY <1>2 DEF Sending, c
  <1>4. n \in Nat /\ (\A k \in 1..(n + 1) : k \in 1..n \/ k = n + 1) /\ n + 1 \in 1..(n + 1)
        /\ \A k \in 1..n : k \in 1..(n + 1)
    BY <1>2
  <1> HIDE DEF n
  <1>5. OnChain'  BY <1>1, <1>2, <1>3 DEF OnChain
  <1>6. Sent'
    <2>1. \A k \in 1..(n + 1) : \E i \in 1..Len(chain) : tried'[k] = chain[i] /\ i <= pos
      <3> SUFFICES ASSUME NEW k \in 1..(n + 1)
                   PROVE  \E i \in 1..Len(chain) : tried'[k] = chain[i] /\ i <= pos
        OBVIOUS
      <3>1. CASE k \in 1..n  BY <1>1, <1>3, <3>1 DEF Sent, n
      <3>2. CASE k = n + 1  BY <1>2, <1>3, <3>2
      <3> QED  BY <1>4, <3>1, <3>2
    <2>2. ~setup.image => \A i \in 1..Len(chain) : i < pos => \E k \in 1..(n + 1) : tried'[k] = chain[i]
      <3> SUFFICES ASSUME ~setup.image, NEW i \in 1..Len(chain), i < pos
                   PROVE  \E k \in 1..(n + 1) : tried'[k] = chain[i]
        OBVIOUS
      <3>1. PICK k \in 1..n : tried[k] = chain[i]  BY <1>1 DEF Sent, n
      <3> QED  BY <1>3, <1>4, <3>1
    <2>3. ~Unseen' /\ Kept' /\ attempt' \in Attempts  BY DEF Unseen, c
    <2>4. Len(tried') >= 1 /\ tried'[Len(tried')] = chain[pos]  BY <1>3, <1>4
    <2> QED  BY <1>3, <2>1, <2>2, <2>3, <2>4 DEF Sent
  <1>7. Filed'  BY <1>1, <1>3 DEF Filed, OnChain
  <1>8. OnlySeeing'
    <2> SUFFICES ASSUME NEW k \in 1..(n + 1)
                 PROVE  VisionActive(chain) => tried'[k].vision \/ tried'[k].target \in setup.sees
      BY <1>3 DEF OnlySeeing
    <2>1. CASE k \in 1..n  BY <1>3, <2>1 DEF WalkInv, OnlySeeing
    <2>2. CASE k = n + 1  BY <1>3, <2>2 DEF Unseen, c
    <2> QED  BY <1>4, <2>1, <2>2
  <1>9. SiblingsFirst'
    <2> SUFFICES ASSUME NEW k \in 1..(n + 1), ~setup.image,
                        ProviderOf[tried'[k].target] # ProviderOf[setup.primary], NEW i \in DOMAIN setup.rest
                 PROVE  \E j \in 1..k : tried'[j].target = setup.rest[i]
      BY <1>3 DEF SiblingsFirst, Home
    <2>1. CASE k \in 1..n
      <3>1. \A j \in 1..k : j \in 1..n  BY <1>4, <2>1
      <3>2. \E j \in 1..k : tried[j].target = setup.rest[i]
        BY <1>3, <2>1 DEF WalkInv, SiblingsFirst, Home
      <3> QED  BY <1>3, <3>1, <3>2
    <2>2. CASE k = n + 1
      <3>1. ProviderOf[chain[pos].target] # ProviderOf[setup.primary]  BY <1>3, <2>2
      <3>2. /\ Len(setup.rest) \in Nat /\ i \in 1..Len(setup.rest) /\ i \in Nat
            /\ Len(chain) >= Len(setup.rest) + 1
            /\ chain[i + 1].target = setup.rest[i]
            /\ \A j \in 1..(Len(setup.rest) + 1) : ProviderOf[chain[j].target] = ProviderOf[setup.primary]
        BY <1>1, Known DEF Sound, Set
      <3>3. pos \notin 1..(Len(setup.rest) + 1)  BY <3>1, <3>2
      <3>4. i + 1 < pos /\ i + 1 \in 1..Len(chain)  BY <1>2, <3>2, <3>3
      <3>5. PICK j \in 1..n : tried[j] = chain[i + 1]  BY <1>1, <3>4 DEF Sent, n
      <3>6. j \in 1..k /\ tried'[j] = tried[j]  BY <1>3, <1>4, <2>2
      <3> QED  BY <3>2, <3>5, <3>6
    <2> QED  BY <1>4, <2>1, <2>2
  <1>10. NoSecondChance'
    <2>1. ASSUME NEW j \in 1..n, tried[j].target = chain[pos].target
          PROVE  \A i \in j..n : tried[i].target = chain[pos].target
      <3>1. PICK m \in 1..Len(chain) : tried[j] = chain[m] /\ (pc = "next" => m # pos)
        BY <1>1 DEF Sent, n
      <3>2. m = pos  BY <1>1, <1>2, <2>1, <3>1, Known
      <3>3. pc = "attempt" /\ tried[n] = chain[pos] /\ n \in 1..n
        BY <1>1, <1>4, <3>1, <3>2 DEF Sent, n
      <3>4. CASE j = n
        <4>1. \A i \in j..n : i = n  BY <1>4, <3>4
        <4> QED  BY <3>3, <4>1
      <3>5. CASE j < n
        BY <1>3, <2>1, <3>3, <3>5 DEF WalkInv, NoSecondChance
      <3> QED  BY <1>4, <3>4, <3>5
    <2> SUFFICES ASSUME NEW j \in 1..(n + 1), NEW k \in 1..(n + 1), j < k,
                        tried'[j].target = tried'[k].target, NEW i \in j..k
                 PROVE  tried'[i].target = tried'[k].target
      BY <1>3 DEF NoSecondChance
    <2>2. j \in 1..n /\ i \in 1..(n + 1) /\ (k \in 1..n => i \in 1..n)  BY <1>4
    <2>3. CASE k \in 1..n
      <3>1. tried[j].target = tried[k].target  BY <1>3, <2>2, <2>3
      <3>2. tried[i].target = tried[k].target
        BY <1>3, <2>2, <2>3, <3>1 DEF WalkInv, NoSecondChance
      <3> QED  BY <1>3, <2>2, <2>3, <3>2
    <2>4. CASE k = n + 1
      <3>1. tried[j].target = chain[pos].target  BY <1>3, <2>2, <2>4
      <3>2. CASE i = n + 1  BY <2>4, <3>2
      <3>3. CASE i \in 1..n
        <4>1. i \in j..n  BY <1>4, <3>3
        <4>2. tried[i].target = chain[pos].target  BY <2>1, <2>2, <3>1, <4>1
        <4> QED  BY <1>3, <2>4, <3>3, <4>2
      <3> QED  BY <1>4, <2>2, <3>2, <3>3
    <2> QED  BY <1>4, <2>3, <2>4
  <1> QED  BY <1>5, <1>6, <1>7, <1>8, <1>9, <1>10 DEF WalkInv

\* The history is what it was: what is said of it alone still holds.
LEMMA SameHistory ==
    ASSUME WalkInv, setup' = setup, chain' = chain, tried' = tried
    PROVE  OnlySeeing' /\ SiblingsFirst' /\ NoSecondChance'
  <1>1. OnlySeeing'  BY DEF WalkInv, OnlySeeing, VisionActive
  <1>2. SiblingsFirst'  BY DEF WalkInv, SiblingsFirst, Home
  <1>3. NoSecondChance'  BY DEF WalkInv, NoSecondChance
  <1> QED  BY <1>1, <1>2, <1>3

\* Every candidate begins with the same allowance.
LEMMA FreshIsOne == Fresh \in Attempts
  BY DEF Fresh, Attempts

\* One more attempt, taken and allowed.
LEMMA OneMore ==
    ASSUME NEW m \in Attempts
    PROVE  LET new == [m EXCEPT !.n = @ + 1, !.max = @ + 1]
           IN  /\ new \in Attempts /\ new.n = m.n + 1 /\ new.max = m.max + 1
               /\ new.dropped = m.dropped /\ new.rescued = m.rescued /\ new.passth = m.passth
  <1> DEFINE new == [m EXCEPT !.n = @ + 1, !.max = @ + 1]
             one == [m EXCEPT !.n = m.n + 1]
             d == m.dropped
             r == m.rescued
             p == m.passth
  <1>1. m.n \in Nat /\ m.max \in Nat /\ d \in BOOLEAN /\ r \in BOOLEAN /\ p \in BOOLEAN  BY DEF Attempts
  <1>2. m = [n |-> m.n, max |-> m.max, dropped |-> d, rescued |-> r, passth |-> p]  BY DEF Attempts
  <1> HIDE DEF d, r, p
  <1>3. new = [n |-> m.n + 1, max |-> m.max + 1, dropped |-> d, rescued |-> r, passth |-> p]
    <2>1. one = [n |-> m.n + 1, max |-> m.max, dropped |-> d, rescued |-> r, passth |-> p]
      BY <1>2
    <2>2. new = [one EXCEPT !.max = m.max + 1]  OBVIOUS
    <2> HIDE DEF one, new
    <2> QED  BY <2>1, <2>2
  <1> HIDE DEF new
  <1>4. new.n = m.n + 1 /\ new.max = m.max + 1 /\ new.dropped = d /\ new.rescued = r /\ new.passth = p
    BY <1>3
  <1>5. new \in Attempts  BY <1>1, <1>3 DEF Attempts
  <1> QED  BY <1>4, <1>5 DEF new, d, r, p

\* A candidate is passed: it was sent the request, or a picture stood against it.
LEMMA PassKeeps ==
    ASSUME WalkInv, pc \in {"next", "attempt"}, pos <= Len(chain), pc = "next" => setup.image,
           NEW stat, PassOver(stat), setup' = setup, chain' = chain, tried' = tried, reply' = reply
    PROVE  WalkInv'
  <1>1. OnChain /\ Sent /\ Filed  BY DEF WalkInv
  <1>2. /\ chain \in Seq(Cand) /\ Len(chain) \in Nat /\ pos \in 1..Len(chain) /\ pos \in Nat
        /\ chain[pos].target \in Target /\ pos' = pos + 1 /\ pc' = "next"
    BY <1>1, Known DEF OnChain, PassOver
  <1> DEFINE w == Len(rows)
             s0 == IF stat THEN "error" ELSE "none"
             row == [target |-> chain[pos].target, stat |-> s0, err |-> "failed", note |-> TRUE]
  <1>3. rows' = Append(rows, row)  BY DEF PassOver, Row, c
  <1>4. row \in Trace /\ row.target = chain[pos].target /\ row.note
    <2>1. s0 \in {"none", "error", "ok"}  OBVIOUS
    <2> HIDE DEF s0
    <2> QED  BY <1>2, <2>1 DEF Trace
  <1> HIDE DEF row
  <1>5. /\ rows' \in Seq(Trace) /\ Len(rows') = w + 1 /\ rows'[w + 1] = row /\ w \in Nat
        /\ \A r \in 1..w : rows'[r] = rows[r]
    <2>1. rows \in Seq(Trace)  BY <1>1 DEF Filed
    <2> QED  BY <1>3, <1>4, <2>1
  <1>6. (\A r \in 1..(w + 1) : r \in 1..w \/ r = w + 1) /\ w + 1 \in 1..(w + 1) /\ \A r \in 1..w : r \in 1..(w + 1)
    BY <1>5
  <1>7. \A i \in 1..Len(chain) : i < pos + 1 <=> i < pos \/ i = pos  BY <1>2
  <1> HIDE DEF w
  <1>8. OnChain'  BY <1>1, <1>2 DEF OnChain
  <1>9. Sent'
    <2>1. \A k \in 1..Len(tried) : \E i \in 1..Len(chain) : tried[k] = chain[i] /\ i <= pos + 1 /\ i # pos + 1
      <3> SUFFICES ASSUME NEW k \in 1..Len(tried)
                   PROVE  \E i \in 1..Len(chain) : tried[k] = chain[i] /\ i <= pos + 1 /\ i # pos + 1
        OBVIOUS
      <3>1. PICK i \in 1..Len(chain) : tried[k] = chain[i] /\ i <= pos  BY <1>1 DEF Sent
      <3>2. i <= pos + 1 /\ i # pos + 1  BY <1>2, <3>1
      <3> QED  BY <3>1, <3>2
    <2>2. ~setup.image => \A i \in 1..Len(chain) : i < pos + 1 =>
              \E k \in 1..Len(tried) : tried[k] = chain[i]
      <3> SUFFICES ASSUME ~setup.image, NEW i \in 1..Len(chain), i < pos + 1
                   PROVE  \E k \in 1..Len(tried) : tried[k] = chain[i]
        OBVIOUS
      <3>1. CASE i < pos  BY <1>1, <3>1 DEF Sent
      <3>2. CASE i = pos
        <4>1. Len(tried) >= 1 /\ tried[Len(tried)] = chain[pos] /\ tried \in Seq(Cand)  BY <1>1 DEF Sent
        <4>2. Len(tried) \in 1..Len(tried)  BY <4>1
        <4> QED  BY <3>2, <4>1, <4>2
      <3> QED  BY <1>7, <3>1, <3>2
    <2>3. attempt' \in Attempts  BY FreshIsOne DEF PassOver
    <2> QED  BY <1>1, <1>2, <2>1, <2>2, <2>3 DEF Sent
  <1>10. Filed'
    <2>1. \A i \in 1..Len(chain) : i < pos + 1 =>
              \E r \in 1..(w + 1) : rows'[r].target = chain[i].target /\ rows'[r].note
      <3> SUFFICES ASSUME NEW i \in 1..Len(chain), i < pos + 1
                   PROVE  \E r \in 1..(w + 1) : rows'[r].target = chain[i].target /\ rows'[r].note
        OBVIOUS
      <3>1. CASE i < pos
        <4>1. PICK r \in 1..w : rows[r].target = chain[i].target /\ rows[r].note
          BY <1>1, <3>1 DEF Filed, w
        <4> QED  BY <1>5, <1>6, <4>1
      <3>2. CASE i = pos  BY <1>4, <1>5, <1>6, <3>2
      <3> QED  BY <1>7, <3>1, <3>2
    <2>2. \A r \in 1..(w + 1) : \E i \in 1..Len(chain) : i < pos + 1 /\ rows'[r].target = chain[i].target
      <3> SUFFICES ASSUME NEW r \in 1..(w + 1)
                   PROVE  \E i \in 1..Len(chain) : i < pos + 1 /\ rows'[r].target = chain[i].target
        OBVIOUS
      <3>1. CASE r \in 1..w
        <4>1. PICK i \in 1..Len(chain) : i < pos /\ rows[r].target = chain[i].target
          BY <1>1, <3>1 DEF Filed, w
        <4> QED  BY <1>5, <1>7, <3>1, <4>1
      <3>2. CASE r = w + 1
        <4>1. pos < pos + 1  BY <1>2
        <4> QED  BY <1>2, <1>4, <1>5, <3>2, <4>1
      <3> QED  BY <1>6, <3>1, <3>2
    <2> QED  BY <1>2, <1>5, <2>1, <2>2 DEF Filed
  <1> QED  BY <1>8, <1>9, <1>10, SameHistory DEF WalkInv

\* What the trace of the request itself may say.
Closes(to, row) ==
    \/ row.target = setup.primary /\ to # "200"
    \/ pos <= Len(chain) /\ row.target = chain[pos].target
       /\ (to = "200" /\ chain[pos].failover =>
              row.stat = "ok" /\ row.err = "failover_from" /\ ~row.note)

\* The request ends: a trace of its own, under the target that served it or,
\* when none did, the one that was asked for.
LEMMA FinishKeeps ==
    ASSUME WalkInv, pc # "done", NEW to, NEW row \in Trace, Finish(to, row),
           Closes(to, row),
           setup' = setup, chain' = chain, tried' = tried, pos' = pos, attempt' = attempt
    PROVE  WalkInv'
  <1>1. OnChain /\ Sent /\ Filed  BY DEF WalkInv
  <1> DEFINE w == Len(rows)
  <1>2. rows' = Append(rows, row) /\ pc' = "done" /\ reply' = to  BY DEF Finish
  <1>3. /\ rows' \in Seq(Trace) /\ Len(rows') = w + 1 /\ rows'[w + 1] = row /\ w \in Nat
        /\ \A r \in 1..w : rows'[r] = rows[r]
    <2>1. rows \in Seq(Trace)  BY <1>1 DEF Filed
    <2>2. /\ Append(rows, row) \in Seq(Trace) /\ Len(Append(rows, row)) = Len(rows) + 1
          /\ Append(rows, row)[Len(rows) + 1] = row /\ Len(rows) \in Nat
          /\ \A r \in 1..Len(rows) : Append(rows, row)[r] = rows[r]
      BY <2>1, Appended
    <2> QED  BY <1>2, <2>2
  <1>4. (\A r \in 1..(w + 1) : r \in 1..w \/ r = w + 1) /\ \A r \in 1..w : r \in 1..(w + 1)
    <2>1. w \in Nat  BY <1>3
    <2> HIDE DEF w
    <2> QED  BY <2>1
  <1> HIDE DEF w
  <1>5. OnChain'  BY <1>1, <1>2 DEF OnChain
  <1>6. Sent'  BY <1>1, <1>2 DEF Sent
  <1>7. Filed'
    <2>1. \A i \in 1..Len(chain) : i < pos =>
              \E r \in 1..(w + 1) : rows'[r].target = chain[i].target /\ rows'[r].note
      <3> SUFFICES ASSUME NEW i \in 1..Len(chain), i < pos
                   PROVE  \E r \in 1..(w + 1) : rows'[r].target = chain[i].target /\ rows'[r].note
        OBVIOUS
      <3>1. PICK r \in 1..w : rows[r].target = chain[i].target /\ rows[r].note  BY <1>1 DEF Filed, w
      <3> QED  BY <1>3, <1>4, <3>1
    <2>2. \A r \in 1..w : \E i \in 1..Len(chain) : i < pos /\ rows'[r].target = chain[i].target
      <3> SUFFICES ASSUME NEW r \in 1..w
                   PROVE  \E i \in 1..Len(chain) : i < pos /\ rows'[r].target = chain[i].target
        OBVIOUS
      <3> QED  BY <1>1, <1>3 DEF Filed, w
    <2>3. Len(rows') = w + 1 /\ rows'[w + 1] = row  BY <1>3
    <2> QED  BY <1>2, <1>3, <1>4, <2>1, <2>2, <2>3, SMTT(60) DEF Filed, Closes
  <1> QED  BY <1>5, <1>6, <1>7, SameHistory DEF WalkInv

\* A text is never skipped: nothing in its chain is a hop for pictures.
LEMMA TextsAreSent ==
    ASSUME OnChain, ~setup.image, pos <= Len(chain), NEW squeezed \in BOOLEAN
    PROVE  ~Unseen /\ ~Flattens(squeezed)
  <1>1. Sound(chain, setup) /\ DOMAIN chain = 1..Len(chain)  BY Known
  <1>2. \A i \in DOMAIN chain : ~chain[i].vision  BY <1>1 DEF Sound
  <1>3. ~VisionActive(chain)  BY <1>2 DEF VisionActive
  <1> QED  BY <1>3 DEF Unseen, Flattens

\* The walk begins with nothing sent and nothing recorded.
LEMMA WalkBegins == Init => WalkInv
  <1> SUFFICES ASSUME Init  PROVE WalkInv
    OBVIOUS
  <1>1. setup \in Setups /\ chain = Chain(setup) /\ pc = "next" /\ pos = 1 /\ reply = "none"
        /\ tried = <<>> /\ rows = <<>>
    BY DEF Init
  <1>2. Len(chain) \in Nat
    <2>1. Sound(chain, setup)  BY <1>1, SetupsAreSet, ChainIsSound
    <2> QED  BY <2>1 DEF Sound
  <1>3. OnChain  BY <1>1, <1>2 DEF OnChain
  <1>4. \A i \in 1..Len(chain) : ~(i < pos)  BY <1>1, <1>2
  <1>5. tried \in Seq(Cand) /\ Len(tried) = 0 /\ 1..Len(tried) = {} /\ DOMAIN tried = {}  BY <1>1
  <1>6. rows \in Seq(Trace) /\ 1..Len(rows) = {}  BY <1>1
  <1>7. Sent
    <2>1. attempt \in Attempts  BY FreshIsOne DEF Init
    <2> QED  BY <1>1, <1>4, <1>5, <2>1 DEF Sent
  <1>8. Filed  BY <1>1, <1>4, <1>6 DEF Filed
  <1>9. OnlySeeing /\ SiblingsFirst /\ NoSecondChance
    BY <1>5 DEF OnlySeeing, SiblingsFirst, NoSecondChance
  <1> QED  BY <1>3, <1>7, <1>8, <1>9 DEF WalkInv

\* The trace of a request that was served says a failover served it, if one did.
LEMMA ServedCloses ==
    ASSUME OnChain, pos <= Len(chain), NEW to, NEW row, Finish(to, row),
           \/ to = "200" /\ row = Row(c.target, "ok", ServedErr, FALSE)
           \/ to # "200" /\ row = Row(c.target, "error", "error", FALSE)
           \/ to # "200" /\ row = Row(c.target, "ok", "aborted", FALSE)
    PROVE  row \in Trace /\ Closes(to, row)
  <1>1. chain[pos] \in Cand /\ chain[pos].target \in Target
    BY Known DEF OnChain
  <1>2. ServedErr \in {"none", "recovered", "pool_failover", "failover_from"}
        /\ (chain[pos].failover => ServedErr = "failover_from")
    BY DEF ServedErr, c
  <1> DEFINE err == ServedErr
             no == FALSE
  <1>3. no \in BOOLEAN /\ ~no  OBVIOUS
  <1> HIDE DEF err, no
  <1>4. CASE to = "200" /\ row = Row(c.target, "ok", ServedErr, FALSE)
    <2>1. row = [target |-> chain[pos].target, stat |-> "ok", err |-> err, note |-> no]
      BY <1>4 DEF Row, c, err, no
    <2>2. row \in Trace  BY <1>1, <1>2, <1>3, <2>1 DEF Trace, err
    <2>3. row.target = chain[pos].target /\ row.stat = "ok" /\ row.err = err /\ row.note = no  BY <2>1
    <2>4. ~row.note  BY <1>3, <2>3
    <2> QED  BY <1>2, <2>2, <2>3, <2>4 DEF Closes, err
  <1>5. CASE to # "200" /\ row = Row(c.target, "error", "error", FALSE)
    <2>1. row = [target |-> chain[pos].target, stat |-> "error", err |-> "error", note |-> no]
      BY <1>5 DEF Row, c, no
    <2>2. row \in Trace  BY <1>1, <1>3, <2>1 DEF Trace
    <2>3. row.target = chain[pos].target  BY <2>1
    <2> QED  BY <1>5, <2>2, <2>3 DEF Closes
  <1>6. CASE to # "200" /\ row = Row(c.target, "ok", "aborted", FALSE)
    <2>1. row = [target |-> chain[pos].target, stat |-> "ok", err |-> "aborted", note |-> no]
      BY <1>6 DEF Row, c, no
    <2>2. row \in Trace  BY <1>1, <1>3, <2>1 DEF Trace
    <2>3. row.target = chain[pos].target  BY <2>1
    <2> QED  BY <1>6, <2>2, <2>3 DEF Closes
  <1> QED  BY <1>4, <1>5, <1>6

\* the trace of a request that nothing served
Ended(word) == Row(setup.primary, word, word, FALSE)

\* It is filed under the target that was asked for.
LEMMA UnservedCloses ==
    ASSUME OnChain, NEW to, to # "200", NEW word \in {"none", "error"}
    PROVE  Ended(word) \in Trace /\ Closes(to, Ended(word))
  <1> DEFINE no == FALSE
             row == [target |-> setup.primary, stat |-> word, err |-> word, note |-> no]
  <1>1. setup.primary \in Target  BY Known DEF Set
  <1>2. no \in BOOLEAN  OBVIOUS
  <1>3. word \in {"none", "error", "ok"}
        /\ word \in {"none", "failed", "error", "aborted", "recovered", "pool_failover", "failover_from"}
    OBVIOUS
  <1>4. row = Ended(word)  BY DEF Row, Ended
  <1> HIDE DEF no
  <1>5. row \in Trace  BY <1>1, <1>2, <1>3 DEF Trace
  <1>6. row.target = setup.primary  OBVIOUS
  <1> HIDE DEF row
  <1>7. Closes(to, row)  BY <1>6 DEF Closes
  <1> QED  BY <1>4, <1>5, <1>7

\* The candidate of the moment is answered for: a relay, a 4xx, a failure.
LEMMA RespondKeeps ==
    ASSUME WalkInv, NEW answer, Respond(answer)
    PROVE  WalkInv'
  <1>1. OnChain /\ Sent /\ Filed  BY DEF WalkInv
  <1>2. /\ pc = "attempt" /\ pc' = "relay" /\ reply' = answer /\ setup' = setup /\ chain' = chain
        /\ pos' = pos /\ tried' = tried /\ rows' = rows /\ attempt' = attempt
    BY DEF Respond, request
  <1>3. OnChain'  BY <1>1, <1>2 DEF OnChain
  <1>4. ~Unseen' /\ Kept'
    <2>1. ~Unseen /\ Kept  BY <1>1, <1>2 DEF Sent
    <2> QED  BY <1>2, <2>1 DEF Unseen, Kept, c
  <1>5. Sent'
    <2>1. \A k \in 1..Len(tried) : \E i \in 1..Len(chain) : tried[k] = chain[i] /\ i <= pos
      BY <1>1 DEF Sent
    <2> QED  BY <1>1, <1>2, <1>4, <2>1 DEF Sent
  <1>6. Filed'
    <2>1. \A r \in 1..Len(rows) : \E i \in 1..Len(chain) : i < pos /\ rows[r].target = chain[i].target
      BY <1>1, <1>2 DEF Filed
    <2> QED  BY <1>1, <1>2, <2>1 DEF Filed
  <1> QED  BY <1>2, <1>3, <1>5, <1>6, SameHistory DEF WalkInv

\* No step of the walk disturbs it.
LEMMA WalkStep == WalkInv /\ [Next]_vars => WalkInv'
  <1> SUFFICES ASSUME WalkInv, [Next]_vars  PROVE WalkInv'
    OBVIOUS
  <1>1. OnChain /\ Sent /\ Filed  BY DEF WalkInv
  <1>2. pc = "attempt" => pos <= Len(chain) /\ ~Unseen /\ Kept  BY <1>1 DEF OnChain, Sent
  <1>3. CASE Skip
    <2>1. pc = "next" /\ pos <= Len(chain) /\ (Unseen \/ \E squeezed \in BOOLEAN : Flattens(squeezed))
      BY <1>3 DEF Skip
    <2>2. setup.image  BY <1>1, <2>1, TextsAreSent
    <2> QED  BY <1>3, <2>1, <2>2, PassKeeps DEF Skip, request
  <1>4. CASE Start
    <2>1. PICK squeezed \in BOOLEAN : ~Flattens(squeezed) /\ attempt' = [attempt EXCEPT !.passth = Passthrough(squeezed)]
      BY <1>4 DEF Start
    <2>2. /\ pc = "next" /\ pos <= Len(chain) /\ ~Unseen /\ Sending /\ setup' = setup /\ chain' = chain
          /\ pos' = pos /\ rows' = rows /\ reply' = reply
      BY <1>4 DEF Start, request
    <2> DEFINE own == Passthrough(squeezed)
    <2>3. own \in BOOLEAN  BY DEF Passthrough
    <2>4. /\ own => setup.client = DialectOf[c.target]
          /\ setup.image /\ c.failover => own \/ DialectOf[c.target] \in Carrying
      BY <2>1 DEF Passthrough, Flattens
    <2>5. attempt' = [attempt EXCEPT !.passth = own]  BY <2>1
    <2> HIDE DEF own
    <2>6. attempt' \in Attempts /\ attempt'.passth = own  BY <1>1, <2>3, <2>5 DEF Sent, Attempts
    <2>7. Kept'  BY <2>2, <2>4, <2>6 DEF Kept, c
    <2> QED  BY <2>2, <2>6, <2>7, SendKeeps
  <1>5. CASE Unbuildable
    <2>1. Finish("500", Ended("error")) /\ pc = "next"
          /\ setup' = setup /\ chain' = chain /\ tried' = tried /\ pos' = pos /\ attempt' = attempt
      BY <1>5 DEF Unbuildable, request, Ended
    <2> QED  BY <1>1, <2>1, UnservedCloses, FinishKeeps
  <1>6. CASE AllFailed
    <2>1. Finish("502", Ended("error")) /\ pc = "next"
          /\ setup' = setup /\ chain' = chain /\ tried' = tried /\ pos' = pos /\ attempt' = attempt
      BY <1>6 DEF AllFailed, request, Ended
    <2> QED  BY <1>1, <2>1, UnservedCloses, FinishKeeps
  <1>7. ASSUME NEW stat, pc = "attempt", Retry(stat), setup' = setup, chain' = chain, reply' = reply
        PROVE  WalkInv'
    <2>1. /\ attempt' = [attempt EXCEPT !.n = @ + 1] /\ Sending /\ pos' = pos /\ rows' = rows
      BY <1>7 DEF Retry
    <2>2. attempt' \in Attempts /\ attempt'.passth = attempt.passth  BY <1>1, <2>1 DEF Sent, Attempts
    <2>3. Kept'  BY <1>2, <1>7, <2>1, <2>2 DEF Kept, c
    <2> QED  BY <1>2, <1>7, <2>1, <2>2, <2>3, SendKeeps
  <1>8. CASE Transport
    <2>1. pc = "attempt" /\ setup' = setup /\ chain' = chain /\ reply' = reply
      BY <1>8 DEF Transport, request
    <2>2. CASE Retry(status)  BY <1>7, <2>1, <2>2
    <2>3. CASE PassOver(status) /\ tried' = tried  BY <1>2, <2>1, <2>3, PassKeeps
    <2> QED  BY <1>8, <2>2, <2>3 DEF Transport
  <1>9. CASE Abandon
    <2>1. Finish("none", Ended("none")) /\ pc = "attempt"
          /\ setup' = setup /\ chain' = chain /\ tried' = tried /\ pos' = pos /\ attempt' = attempt
      BY <1>9 DEF Abandon, request, Ended
    <2> QED  BY <1>1, <2>1, UnservedCloses, FinishKeeps
  <1>10. CASE Transient
    <2>1. pc = "attempt" /\ setup' = setup /\ chain' = chain /\ reply' = reply
      BY <1>10 DEF Transient, request
    <2>2. CASE Retry(TRUE)  BY <1>7, <2>1, <2>2
    <2>3. CASE PassOver(TRUE) /\ tried' = tried  BY <1>2, <2>1, <2>3, PassKeeps
    <2> QED  BY <1>10, <2>2, <2>3, Zenon DEF Transient
  <1>11. CASE Unserved  BY <1>2, <1>11, PassKeeps DEF Unserved, request
  <1>12. CASE ImageRejected  BY <1>2, <1>12, PassKeeps DEF ImageRejected, request
  <1>13. ASSUME NEW mark \in Attempts, pc = "attempt", Again(mark), mark.passth = attempt.passth
         PROVE  WalkInv'
    <2>1. /\ attempt' = [mark EXCEPT !.n = @ + 1, !.max = @ + 1] /\ Sending /\ setup' = setup /\ chain' = chain
          /\ pos' = pos /\ rows' = rows /\ reply' = reply
      BY <1>13 DEF Again, request
    <2>2. attempt' \in Attempts /\ attempt'.passth = mark.passth  BY <1>13, <2>1, OneMore
    <2>3. Kept'  BY <1>2, <1>13, <2>1, <2>2 DEF Kept, c
    <2> QED  BY <1>2, <1>13, <2>1, <2>2, <2>3, SendKeeps
  <1> DEFINE yes == TRUE
  <1>a. attempt \in Attempts /\ yes \in BOOLEAN  BY <1>1 DEF Sent
  <1>14. CASE Rescue
    <2> DEFINE mark == [attempt EXCEPT !.rescued = yes]
    <2>1. pc = "attempt" /\ Again(mark)  BY <1>14 DEF Rescue
    <2> HIDE DEF yes
    <2>2. mark \in Attempts /\ mark.passth = attempt.passth  BY <1>a DEF Attempts
    <2> HIDE DEF mark
    <2> QED  BY <1>13, <2>1, <2>2
  <1>15. CASE DropParam
    <2> DEFINE mark == [attempt EXCEPT !.dropped = yes]
    <2>1. pc = "attempt" /\ Again(mark)  BY <1>15 DEF DropParam
    <2> HIDE DEF yes
    <2>2. mark \in Attempts /\ mark.passth = attempt.passth  BY <1>a DEF Attempts
    <2> HIDE DEF mark
    <2> QED  BY <1>13, <2>1, <2>2
  <1>16. CASE \E answer \in {"200", "4xx"} : Respond(answer)  BY <1>16, RespondKeeps
  <1>17. CASE Relay
    <2>1. /\ pc = "relay" /\ pos <= Len(chain) /\ setup' = setup /\ chain' = chain /\ tried' = tried
          /\ pos' = pos /\ attempt' = attempt
      BY <1>1, <1>17 DEF Relay, request, OnChain
    <2>2. CASE Finish("200", Row(c.target, "ok", ServedErr, FALSE))
      BY <1>1, <2>1, <2>2, ServedCloses, FinishKeeps
    <2>3. CASE Finish("4xx", Row(c.target, "error", "error", FALSE))
      BY <1>1, <2>1, <2>3, ServedCloses, FinishKeeps
    <2>4. CASE Finish("502", Row(c.target, "error", "error", FALSE))
      BY <1>1, <2>1, <2>4, ServedCloses, FinishKeeps
    <2>5. CASE Finish("broken", Row(c.target, "ok", "aborted", FALSE))
      BY <1>1, <2>1, <2>5, ServedCloses, FinishKeeps
    <2> QED  BY <1>17, <2>2, <2>3, <2>4, <2>5 DEF Relay
  <1>18. CASE ClientLeaves \/ UNCHANGED vars
    <2>1. /\ setup' = setup /\ chain' = chain /\ pc' = pc /\ pos' = pos /\ reply' = reply
          /\ tried' = tried /\ rows' = rows /\ attempt' = attempt
      BY <1>18 DEF ClientLeaves, vars, request
    <2>2. OnChain'  BY <1>1, <2>1 DEF OnChain
    <2>3. Sent'  BY <1>1, <2>1 DEF Sent, Unseen, Kept, c
    <2>4. Filed'  BY <1>1, <2>1 DEF Filed
    <2> QED  BY <2>1, <2>2, <2>3, <2>4, SameHistory DEF WalkInv
  <1> QED
    BY <1>3, <1>4, <1>5, <1>6, <1>8, <1>9, <1>10, <1>11, <1>12, <1>14, <1>15, <1>16, <1>17, <1>18
    DEF Next, Local, Upstream

\* The walk's invariant holds of every state of every run.
LEMMA Walked == Spec => []WalkInv
  <1> QED  BY WalkBegins, WalkStep, PTL DEF Spec

\* visionfallback.go:174, proxy.go:641: whatever failed before, a picture goes
\* to no model that cannot see while a vision chain is in play; and to a failover
\* hop whole, unless the proxy does not read the pictures of this client and the
\* hop's dialect carries some or the body was built anew: whichever targets,
\* dialects, chains and answers there are.
THEOREM PicturesAreSafe == Spec => []PictureSafe
  <1>1. ASSUME WalkInv  PROVE PictureSafe
    <2>1. Sent /\ OnlySeeing  BY <1>1 DEF WalkInv
    <2>2. ASSUME pc = "attempt", setup.image, c.failover, ~Whole
          PROVE  setup.client \notin Reading /\ (attempt.rescued \/ DialectOf[c.target] \in Carrying)
      <3>1. /\ attempt.passth => setup.client = DialectOf[c.target]
            /\ attempt.passth \/ DialectOf[c.target] \in Carrying
        BY <2>1, <2>2 DEF Sent, Kept
      <3>2. attempt.passth => attempt.rescued  BY <2>2 DEF Whole
      <3>3. setup.client \notin Reading \/ DialectOf[c.target] \notin Carrying  BY <2>2 DEF Whole
      <3>4. setup.client \in Reading => setup.client \in Carrying  BY DEF Reading, Carrying
      <3> QED  BY <3>1, <3>2, <3>3, <3>4
    <2> QED  BY <2>1, <2>2, Zenon DEF PictureSafe, OnlySeeing
  <1> QED  BY <1>1, Walked, PTL

\* proxy.go:575: a text leaves its provider only after every sibling of the pool.
THEOREM SiblingsComeFirst == Spec => []SiblingsFirst
  <1>1. WalkInv => SiblingsFirst  BY DEF WalkInv
  <1> QED  BY <1>1, Walked, PTL

\* globalfallback.go:46: no target is gone back to, in whichever of the pool, the
\* providers' fallbacks and the two chains it is named.
THEOREM OneChance == Spec => []NoSecondChance
  <1>1. WalkInv => NoSecondChance  BY DEF WalkInv
  <1> QED  BY <1>1, Walked, PTL

\* proxy.go:584: every target a request was sent to is of the provider it asked
\* for, or is one the settings and the caller's key let it fall back to.
THEOREM StaysWhereGranted == Spec => []StaysGranted
  <1>1. WalkInv => StaysGranted
    <2> SUFFICES ASSUME WalkInv, NEW k \in DOMAIN tried
                 PROVE  Granted(tried[k].target, setup)
      BY DEF StaysGranted, Granted, Home
    <2>1. OnChain /\ Sent  BY DEF WalkInv
    <2>2. k \in 1..Len(tried)  BY <2>1 DEF Sent
    <2>3. PICK i \in 1..Len(chain) : tried[k] = chain[i]  BY <2>1, <2>2 DEF Sent
    <2>4. Sound(chain, setup)  BY <2>1, Known
    <2> QED  BY <2>3, <2>4 DEF Sound
  <1> QED  BY <1>1, Walked, PTL

-------------------------------------------------------------------------------
(* What the traces say of the targets.                                       *)

\* the traces that are held against a target
Charged(t) == {i \in DOMAIN rows : rows[i].target = t /\ Failed(rows[i])}
Passed(t) == {i \in DOMAIN rows : rows[i].target = t /\ Fellback(rows[i])}

\* There are as many as there are.
LEMMA Counted ==
    ASSUME Filed, NEW t
    PROVE  /\ Count(Failed, t) = Cardinality(Charged(t)) /\ Count(Fellback, t) = Cardinality(Passed(t))
           /\ IsFiniteSet(Charged(t)) /\ IsFiniteSet(Passed(t))
           /\ Count(Failed, t) \in Nat /\ Count(Fellback, t) \in Nat
  <1>1. Count(Failed, t) = Cardinality(Charged(t)) /\ Count(Fellback, t) = Cardinality(Passed(t))
    BY DEF Count, Charged, Passed
  <1>2. DOMAIN rows = 1..Len(rows) /\ Len(rows) \in Nat  BY DEF Filed
  <1>3. IsFiniteSet(DOMAIN rows)  BY <1>2, FS_Interval
  <1>4. Charged(t) \in SUBSET (DOMAIN rows) /\ Passed(t) \in SUBSET (DOMAIN rows)
    BY DEF Charged, Passed
  <1>5. IsFiniteSet(Charged(t)) /\ IsFiniteSet(Passed(t))  BY <1>3, <1>4, FS_Subset
  <1>6. Cardinality(Charged(t)) \in Nat /\ Cardinality(Passed(t)) \in Nat  BY <1>5, FS_CardinalityType
  <1> QED  BY <1>1, <1>5, <1>6

\* A target no trace speaks against is charged with nothing.
LEMMA Blameless ==
    ASSUME Filed, NEW t, \A r \in DOMAIN rows : rows[r].target = t => ~Failed(rows[r]) /\ ~Fellback(rows[r])
    PROVE  Bad(t) = 0
  <1>1. Charged(t) = {} /\ Passed(t) = {}  BY DEF Charged, Passed
  <1>2. Count(Failed, t) = 0 /\ Count(Fellback, t) = 0  BY <1>1, Counted, FS_EmptySet
  <1> QED  BY <1>2 DEF Bad

\* proxy.go:994, store.go:903: every candidate that was passed is charged with it,
\* none that was never reached is, and one that served as a failover hop is
\* charged with nothing, unless the reply broke off in its translation.
THEOREM HealthIsFair == Spec => []HealthFair
  <1>1. ASSUME WalkInv
        PROVE  HealthFair
    <2>1. OnChain /\ Filed  BY <1>1 DEF WalkInv
    <2>2. /\ DOMAIN chain = 1..Len(chain) /\ Len(chain) \in Nat /\ pos \in Nat
          /\ DOMAIN rows = 1..Len(rows)
          /\ \A i, j \in 1..Len(chain) : chain[i].target = chain[j].target => i = j
      BY <2>1, Known DEF OnChain, Filed
    <2>3. ASSUME NEW i \in 1..Len(chain), i < pos
          PROVE  Bad(chain[i].target) >= 1
      <3> DEFINE t == chain[i].target
      <3>1. PICK r \in 1..Len(rows) : rows[r].target = t /\ rows[r].note  BY <2>1, <2>3, Zenon DEF Filed
      <3>2. Passed(t) # {}  BY <2>2, <3>1, Zenon DEF Passed, Fellback
      <3> HIDE DEF t
      <3>3. Count(Fellback, t) # 0  BY <2>1, <3>2, Counted, FS_EmptySet
      <3>4. Count(Failed, t) \in Nat /\ Count(Fellback, t) \in Nat  BY <2>1, Counted
      <3>5. Bad(t) >= 1  BY <3>3, <3>4 DEF Bad
      <3> QED  BY <3>5 DEF t
    <2>4. ASSUME pc = "done", pos <= Len(chain), NEW i \in 1..Len(chain), i > pos,
                 chain[i].target # setup.primary
          PROVE  Bad(chain[i].target) = 0
      <3>1. \A r \in DOMAIN rows : rows[r].target # chain[i].target
        <4> SUFFICES ASSUME NEW r \in DOMAIN rows, rows[r].target = chain[i].target  PROVE FALSE
          OBVIOUS
        <4>1. /\ \A j \in 1..Len(chain) : j < pos => rows[r].target # chain[j].target
              /\ rows[r].target # chain[pos].target
          BY <2>1, <2>2, <2>4 DEF OnChain
        <4>2. r \in 1..Len(rows)  BY <2>2
        <4> QED  BY <2>1, <2>4, <4>1, <4>2, Zenon DEF Filed
      <3> QED  BY <2>1, <3>1, Blameless
    <2>5. ASSUME pc = "done", pos <= Len(chain), reply = "200", c.failover
          PROVE  Bad(c.target) = 0
      <3>1. pos \in 1..Len(chain)  BY <2>1, <2>2, <2>5 DEF OnChain
      <3>2. ASSUME NEW r \in DOMAIN rows, rows[r].target = chain[pos].target
            PROVE  ~Failed(rows[r]) /\ ~Fellback(rows[r])
        <4>1. \A j \in 1..Len(chain) : j < pos => rows[r].target # chain[j].target
          BY <2>2, <3>1, <3>2
        <4>2. rows[r].stat = "ok" /\ rows[r].err = "failover_from" /\ ~rows[r].note
          <5>1. r \in 1..Len(rows)  BY <2>2
          <5> QED  BY <2>1, <2>5, <3>2, <4>1, <5>1, Zenon DEF Filed, c
        <4> QED  BY <4>2 DEF Failed, Fellback
      <3> QED  BY <2>1, <3>2, Blameless DEF c
    <2> QED  BY <2>2, <2>3, <2>4, <2>5 DEF HealthFair
  <1> QED  BY <1>1, Walked, PTL

-------------------------------------------------------------------------------
(* How often a candidate is sent the request.                                *)

\* where a candidate is in a history
At(q, x) == {k \in DOMAIN q : q[k] = x}

\* the attempts allowed: two, and one more for each of the two mends that is spent
Allowed(a) == 2 + (IF a.dropped THEN 1 ELSE 0) + (IF a.rescued THEN 1 ELSE 0)

\* Each attempt is one that was allowed; the candidate at hand was sent the
\* request once for each, the others never more than four times.
Budget ==
    /\ attempt \in Attempts /\ attempt.max = Allowed(attempt) /\ attempt.n < attempt.max
    /\ pc = "next" => attempt.n = 0
    /\ pc \in {"attempt", "relay"} => Cardinality(At(tried, chain[pos])) = attempt.n + 1
    /\ \A i \in 1..Len(chain) : Cardinality(At(tried, chain[i])) <= 4

\* Two mends at the most.
LEMMA AtMostFour ==
    ASSUME NEW a
    PROVE  /\ Allowed(a) \in 2..4
           /\ ~a.dropped => Allowed(a) \in 2..3
           /\ ~a.rescued => Allowed(a) \in 2..3
  <1>1. CASE a.dropped /\ a.rescued
    <2>1. Allowed(a) = 2 + 1 + 1  BY <1>1, Zenon DEF Allowed
    <2> QED  BY <1>1, <2>1
  <1>2. CASE a.dropped /\ ~a.rescued
    <2>1. Allowed(a) = 2 + 1 + 0  BY <1>2, Zenon DEF Allowed
    <2> QED  BY <1>2, <2>1
  <1>3. CASE ~a.dropped /\ a.rescued
    <2>1. Allowed(a) = 2 + 0 + 1  BY <1>3, Zenon DEF Allowed
    <2> QED  BY <1>3, <2>1
  <1>4. CASE ~a.dropped /\ ~a.rescued
    <2>1. Allowed(a) = 2 + 0 + 0  BY <1>4, Zenon DEF Allowed
    <2> QED  BY <1>4, <2>1
  <1> QED  BY <1>1, <1>2, <1>3, <1>4

\* A history with one more candidate at its end has it once more, the rest as before.
LEMMA OnceMore ==
    ASSUME NEW q \in Seq(Cand), NEW e \in Cand
    PROVE  /\ \A x : IsFiniteSet(At(q, x)) /\ Cardinality(At(q, x)) \in Nat
           /\ Cardinality(At(Append(q, e), e)) = Cardinality(At(q, e)) + 1
           /\ \A x : x # e => At(Append(q, e), x) = At(q, x)
  <1> DEFINE n == Len(q)
             new == Append(q, e)
  <1>1. /\ n \in Nat /\ DOMAIN q = 1..n /\ DOMAIN new = 1..(n + 1) /\ new[n + 1] = e
        /\ \A k \in 1..n : new[k] = q[k]
    OBVIOUS
  <1> HIDE DEF n, new
  <1>2. 1..(n + 1) = 1..n \cup {n + 1} /\ n + 1 \notin 1..n  BY <1>1
  <1>3. IsFiniteSet(1..n)  BY <1>1, FS_Interval
  <1>4. \A x : IsFiniteSet(At(q, x))
    <2> SUFFICES ASSUME NEW x  PROVE IsFiniteSet(At(q, x))
      OBVIOUS
    <2>1. At(q, x) \in SUBSET (1..n)  BY <1>1 DEF At
    <2> QED  BY <1>3, <2>1, FS_Subset
  <1>5. \A x : Cardinality(At(q, x)) \in Nat  BY <1>4, FS_CardinalityType
  <1>6. At(new, e) = At(q, e) \cup {n + 1} /\ n + 1 \notin At(q, e)  BY <1>1, <1>2 DEF At
  <1>7. Cardinality(At(new, e)) = Cardinality(At(q, e)) + 1  BY <1>4, <1>6, FS_AddElement
  <1>8. \A x : x # e => At(new, x) = At(q, x)  BY <1>1, <1>2 DEF At
  <1> QED  BY <1>4, <1>5, <1>7, <1>8 DEF new

\* One more attempt on the candidate at hand, within what is allowed.
LEMMA SendCounts ==
    ASSUME WalkInv, Budget, pc \in {"next", "attempt"}, pos <= Len(chain), Sending,
           chain' = chain, pos' = pos,
           attempt' \in Attempts, attempt'.max = Allowed(attempt'), attempt'.n < attempt'.max,
           attempt'.n = (IF pc = "next" THEN 0 ELSE attempt.n + 1)
    PROVE  Budget'
  <1>1. OnChain /\ Sent  BY DEF WalkInv
  <1>2. /\ tried \in Seq(Cand) /\ pos \in 1..Len(chain) /\ chain[pos] \in Cand /\ pc' = "attempt"
        /\ tried' = Append(tried, chain[pos])
        /\ \A i \in 1..Len(chain) : i # pos => chain[i] # chain[pos]
    BY <1>1, Known DEF OnChain, Sent, Sending, c
  <1>3. Cardinality(At(tried, chain[pos])) = attempt'.n
    <2>1. CASE pc = "next"
      <3>1. \A k \in 1..Len(tried) : tried[k] # chain[pos]
        BY <1>1, <1>2, <2>1 DEF Sent
      <3>2. DOMAIN tried = 1..Len(tried)  BY <1>2
      <3>3. At(tried, chain[pos]) = {}  BY <3>1, <3>2 DEF At
      <3> QED  BY <2>1, <3>3, FS_EmptySet
    <2>2. CASE pc = "attempt"  BY <2>2 DEF Budget
    <2> QED  BY <2>1, <2>2
  <1>4. Cardinality(At(tried', chain[pos])) = attempt'.n + 1
        /\ \A i \in 1..Len(chain) : i # pos => At(tried', chain[i]) = At(tried, chain[i])
    BY <1>2, <1>3, OnceMore
  <1>5. attempt'.n + 1 <= 4
    <2>1. attempt'.n \in Nat /\ attempt'.max \in 2..4  BY AtMostFour DEF Attempts
    <2> QED  BY <2>1
  <1>6. \A i \in 1..Len(chain) : Cardinality(At(tried', chain[i])) <= 4
    <2> SUFFICES ASSUME NEW i \in 1..Len(chain)  PROVE Cardinality(At(tried', chain[i])) <= 4
      OBVIOUS
    <2>1. CASE i = pos  BY <1>4, <1>5, <2>1
    <2>2. CASE i # pos  BY <1>4, <2>2 DEF Budget
    <2> QED  BY <2>1, <2>2
  <1> QED  BY <1>2, <1>4, <1>6 DEF Budget

\* A candidate starts with no attempt spent and two allowed.
LEMMA FreshIs == Fresh \in Attempts /\ Fresh.n = 0 /\ Fresh.max = 2 /\ Allowed(Fresh) = 2
  <1> DEFINE no == FALSE
  <1>1. no \in BOOLEAN /\ ~no  OBVIOUS
  <1>2. Fresh = [n |-> 0, max |-> 2, dropped |-> no, rescued |-> no, passth |-> no]
    BY DEF Fresh
  <1> HIDE DEF no
  <1>3. Fresh \in Attempts  BY <1>1, <1>2 DEF Attempts
  <1>4. Fresh.n = 0 /\ Fresh.max = 2 /\ Fresh.dropped = no /\ Fresh.rescued = no  BY <1>2
  <1>5. ~Fresh.dropped /\ ~Fresh.rescued  BY <1>1, <1>4, Zenon
  <1>6. Allowed(Fresh) = 2 + 0 + 0  BY <1>5, Zenon DEF Allowed
  <1> QED  BY <1>3, <1>4, <1>6

\* The next candidate starts afresh.
LEMMA PassCounts ==
    ASSUME Budget, NEW stat, PassOver(stat), chain' = chain, tried' = tried
    PROVE  Budget'
  <1>1. attempt' = Fresh /\ pc' = "next"  BY DEF PassOver
  <1> QED  BY <1>1, FreshIs DEF Budget

\* Nothing is sent and the candidate stays.
LEMMA StayCounts ==
    ASSUME Budget, chain' = chain, tried' = tried, pos' = pos, attempt' = attempt,
           pc' = pc \/ pc' = "done" \/ (pc = "attempt" /\ pc' = "relay")
    PROVE  Budget'
  BY DEF Budget

\* One of the mends is used up, and one more attempt is allowed for it.
LEMMA AgainCounts ==
    ASSUME WalkInv, Budget, pc = "attempt", pos <= Len(chain), NEW mark, Again(mark),
           \/ ~attempt.rescued /\ mark = [attempt EXCEPT !.rescued = TRUE]
           \/ ~attempt.dropped /\ mark = [attempt EXCEPT !.dropped = TRUE]
    PROVE  Budget'
  <1> DEFINE yes == TRUE
             new == [mark EXCEPT !.n = @ + 1, !.max = @ + 1]
  <1>1. yes \in BOOLEAN /\ yes  OBVIOUS
  <1>2. attempt \in Attempts /\ attempt.n \in Nat /\ attempt.max \in Nat
        /\ attempt.dropped \in BOOLEAN /\ attempt.rescued \in BOOLEAN
    BY DEF Budget, Attempts
  <1>3. attempt' = new /\ chain' = chain /\ pos' = pos /\ Sending
    BY DEF Again, request
  <1> HIDE DEF yes
  <1>4. /\ new \in Attempts /\ new.n = attempt.n + 1 /\ new.max = attempt.max + 1
        /\ Allowed(new) = Allowed(attempt) + 1
    <2>1. CASE ~attempt.rescued /\ mark = [attempt EXCEPT !.rescued = TRUE]
      <3>1. mark = [attempt EXCEPT !.rescued = yes]  BY <2>1 DEF yes
      <3>2. mark \in Attempts /\ mark.n = attempt.n /\ mark.max = attempt.max
            /\ mark.dropped = attempt.dropped /\ mark.rescued = yes
        BY <1>1, <1>2, <3>1 DEF Attempts
      <3>3. new \in Attempts /\ new.n = mark.n + 1 /\ new.max = mark.max + 1
            /\ new.dropped = mark.dropped /\ new.rescued = mark.rescued
        <4>1. mark \in Attempts  BY <3>2
        <4> QED  BY <4>1, OneMore, Zenon
      <3> HIDE DEF new
      <3>4. Allowed(new) = Allowed(attempt) + 1
        <4>1. CASE attempt.dropped
          <5>1. new.dropped /\ new.rescued  BY <1>1, <3>2, <3>3, <4>1, Zenon
          <5>2. Allowed(new) = 2 + 1 + 1  BY <5>1, Zenon DEF Allowed
          <5>3. Allowed(attempt) = 2 + 1 + 0  BY <2>1, <4>1, Zenon DEF Allowed
          <5> QED  BY <5>2, <5>3
        <4>2. CASE ~attempt.dropped
          <5>1. ~new.dropped /\ new.rescued  BY <1>1, <3>2, <3>3, <4>2, Zenon
          <5>2. Allowed(new) = 2 + 0 + 1  BY <5>1, Zenon DEF Allowed
          <5>3. Allowed(attempt) = 2 + 0 + 0  BY <2>1, <4>2, Zenon DEF Allowed
          <5> QED  BY <5>2, <5>3
        <4> QED  BY <4>1, <4>2
      <3> QED  BY <3>2, <3>3, <3>4
    <2>2. CASE ~attempt.dropped /\ mark = [attempt EXCEPT !.dropped = TRUE]
      <3>1. mark = [attempt EXCEPT !.dropped = yes]  BY <2>2 DEF yes
      <3>2. mark \in Attempts /\ mark.n = attempt.n /\ mark.max = attempt.max
            /\ mark.dropped = yes /\ mark.rescued = attempt.rescued
        BY <1>1, <1>2, <3>1 DEF Attempts
      <3>3. new \in Attempts /\ new.n = mark.n + 1 /\ new.max = mark.max + 1
            /\ new.dropped = mark.dropped /\ new.rescued = mark.rescued
        <4>1. mark \in Attempts  BY <3>2
        <4> QED  BY <4>1, OneMore, Zenon
      <3> HIDE DEF new
      <3>4. Allowed(new) = Allowed(attempt) + 1
        <4>1. CASE attempt.rescued
          <5>1. new.dropped /\ new.rescued  BY <1>1, <3>2, <3>3, <4>1, Zenon
          <5>2. Allowed(new) = 2 + 1 + 1  BY <5>1, Zenon DEF Allowed
          <5>3. Allowed(attempt) = 2 + 0 + 1  BY <2>2, <4>1, Zenon DEF Allowed
          <5> QED  BY <5>2, <5>3
        <4>2. CASE ~attempt.rescued
          <5>1. new.dropped /\ ~new.rescued  BY <1>1, <3>2, <3>3, <4>2, Zenon
          <5>2. Allowed(new) = 2 + 1 + 0  BY <5>1, Zenon DEF Allowed
          <5>3. Allowed(attempt) = 2 + 0 + 0  BY <2>2, <4>2, Zenon DEF Allowed
          <5> QED  BY <5>2, <5>3
        <4> QED  BY <4>1, <4>2
      <3> QED  BY <3>2, <3>3, <3>4
    <2> QED  BY <2>1, <2>2
  <1> HIDE DEF new
  <1>5. attempt.max = Allowed(attempt) /\ attempt.n < attempt.max  BY DEF Budget
  <1>6. attempt'.max = Allowed(attempt') /\ attempt'.n < attempt'.max
    BY <1>2, <1>3, <1>4, <1>5, AtMostFour
  <1>7. attempt' \in Attempts /\ attempt'.n = attempt.n + 1  BY <1>3, <1>4
  <1> QED  BY <1>3, <1>6, <1>7, SendCounts

\* Nothing is sent at first.
LEMMA BudgetBegins == Init => Budget
  <1> SUFFICES ASSUME Init  PROVE Budget
    OBVIOUS
  <1>1. attempt = Fresh /\ pc = "next" /\ tried = <<>>  BY DEF Init
  <1>2. \A x : At(tried, x) = {}  BY <1>1 DEF At
  <1>3. \A i \in 1..Len(chain) : Cardinality(At(tried, chain[i])) <= 4  BY <1>2, FS_EmptySet
  <1> QED  BY <1>1, <1>3, FreshIs DEF Budget

\* No step sends more than it may.
LEMMA BudgetStep == WalkInv /\ Budget /\ [Next]_vars => Budget'
  <1> SUFFICES ASSUME WalkInv, Budget, [Next]_vars  PROVE Budget'
    OBVIOUS
  <1>1. pc = "attempt" => pos <= Len(chain)  BY DEF WalkInv, OnChain
  <1>2. attempt \in Attempts /\ attempt.n \in Nat /\ attempt.max \in Nat /\ attempt.n < attempt.max
        /\ (pc = "next" => attempt.n = 0) /\ attempt.max = Allowed(attempt)
    BY DEF Budget, Attempts
  <1>3. CASE Skip  BY <1>3, PassCounts DEF Skip, request
  <1>4. CASE Start
    <2>1. pc = "next" /\ pos <= Len(chain) /\ Sending /\ chain' = chain /\ pos' = pos
      BY <1>4 DEF Start, request
    <2>2. PICK squeezed \in BOOLEAN : attempt' = [attempt EXCEPT !.passth = Passthrough(squeezed)]
      BY <1>4 DEF Start
    <2> DEFINE own == Passthrough(squeezed)
    <2>3. own \in BOOLEAN /\ attempt' = [attempt EXCEPT !.passth = own]  BY <2>2 DEF Passthrough
    <2> HIDE DEF own
    <2>4. /\ attempt' \in Attempts /\ attempt'.n = attempt.n /\ attempt'.max = attempt.max
          /\ attempt'.dropped = attempt.dropped /\ attempt'.rescued = attempt.rescued
      BY <1>2, <2>3 DEF Attempts
    <2>5. Allowed(attempt') = Allowed(attempt)  BY <2>4, Zenon DEF Allowed
    <2>6. attempt'.max = Allowed(attempt') /\ attempt'.n < attempt'.max /\ attempt'.n = 0
      BY <1>2, <2>1, <2>4, <2>5
    <2> QED  BY <2>1, <2>4, <2>6, SendCounts
  <1>5. CASE Unbuildable \/ AllFailed \/ Abandon \/ Relay
    <2>1. chain' = chain /\ tried' = tried /\ pos' = pos /\ attempt' = attempt
      BY <1>5 DEF Unbuildable, AllFailed, Abandon, Relay, request
    <2>2. pc' = "done"  BY <1>5 DEF Unbuildable, AllFailed, Abandon, Relay, Finish
    <2> QED  BY <2>1, <2>2, StayCounts
  <1>6. ASSUME NEW stat, pc = "attempt", Retry(stat), chain' = chain
        PROVE  Budget'
    <2>1. /\ attempt.n + 1 < attempt.max /\ attempt' = [attempt EXCEPT !.n = @ + 1]
          /\ Sending /\ pos' = pos
      BY <1>6 DEF Retry, More
    <2>2. /\ attempt' \in Attempts /\ attempt'.n = attempt.n + 1 /\ attempt'.max = attempt.max
          /\ attempt'.dropped = attempt.dropped /\ attempt'.rescued = attempt.rescued
      BY <1>2, <2>1 DEF Attempts
    <2>3. Allowed(attempt') = Allowed(attempt)  BY <2>2, Zenon DEF Allowed
    <2>4. attempt'.n < attempt'.max  BY <1>2, <2>1, <2>2
    <2> QED  BY <1>1, <1>2, <1>6, <2>1, <2>2, <2>3, <2>4, SendCounts
  <1>7. CASE Transport
    <2>1. CASE Retry(status)  BY <1>6, <1>7, <2>1 DEF Transport, request
    <2>2. CASE PassOver(status) /\ tried' = tried  BY <1>7, <2>2, PassCounts DEF Transport, request
    <2> QED  BY <1>7, <2>1, <2>2, Zenon DEF Transport
  <1>8. CASE Transient
    <2> DEFINE yes == TRUE
    <2>1. chain' = chain /\ pc = "attempt"
          /\ (Retry(yes) \/ (PassOver(yes) /\ tried' = tried))
      BY <1>8, Zenon DEF Transient, request
    <2> HIDE DEF yes
    <2>2. CASE Retry(yes)  BY <1>6, <2>1, <2>2
    <2>3. CASE PassOver(yes) /\ tried' = tried  BY <2>1, <2>3, PassCounts
    <2> QED  BY <2>1, <2>2, <2>3
  <1>9. CASE Unserved
    <2>1. PassOver(TRUE) /\ chain' = chain /\ tried' = tried  BY <1>9 DEF Unserved, request
    <2> QED  BY <2>1, PassCounts
  <1>10. CASE ImageRejected  BY <1>10, PassCounts DEF ImageRejected, request
  <1>11. CASE Rescue  BY <1>1, <1>11, AgainCounts DEF Rescue
  <1>12. CASE DropParam  BY <1>1, <1>12, AgainCounts DEF DropParam
  <1>13. CASE \E answer \in {"200", "4xx"} : Respond(answer)
    <2>1. /\ pc = "attempt" /\ pc' = "relay" /\ chain' = chain /\ pos' = pos
          /\ tried' = tried /\ attempt' = attempt
      BY <1>13 DEF Respond, request
    <2> QED  BY <2>1, StayCounts
  <1>14. CASE ClientLeaves \/ UNCHANGED vars
    <2>1. pc' = pc /\ chain' = chain /\ pos' = pos /\ tried' = tried /\ attempt' = attempt
      BY <1>14 DEF ClientLeaves, vars, request
    <2> QED  BY <2>1, StayCounts
  <1> QED
    BY <1>3, <1>4, <1>5, <1>7, <1>8, <1>9, <1>10, <1>11, <1>12, <1>13, <1>14 DEF Next, Local,
       Upstream

\* What the walk notes for the reply and the banner.
Notes ==
    /\ status \in BOOLEAN /\ soft \in BOOLEAN /\ gone \in BOOLEAN
    /\ lastErr \in Errors /\ primaryErr \in Errors
    /\ reply \in {"none", "200", "4xx", "500", "502", "broken"}

\* It notes failures of targets, and sends the codes it has.
LEMMA NotesStep == OnChain /\ Notes /\ [Next]_vars => Notes'
  <1> SUFFICES ASSUME OnChain, Notes, [Next]_vars  PROVE Notes'
    OBVIOUS
  <1>1. pc \in {"attempt", "relay"} \/ pos <= Len(chain) => c.target \in Errors
    BY Known DEF OnChain, c, Errors
  <1>2. \A stat : PassOver(stat) => status' \in BOOLEAN  BY Zenon DEF PassOver
  <1>3. ASSUME pc = "attempt", Noted  PROVE lastErr' \in Errors /\ primaryErr' \in Errors
    BY <1>1, <1>3 DEF Noted, Notes
  <1>4. CASE Skip  BY <1>1, <1>2, <1>4 DEF Skip, Notes, request
  <1>5. CASE Start
    <2>1. soft' \in BOOLEAN  BY <1>5, Zenon DEF Start, Notes
    <2> QED  BY <1>5, <2>1 DEF Start, Notes
  <1>6. CASE Unbuildable \/ AllFailed \/ Relay
    BY <1>6 DEF Unbuildable, AllFailed, Relay, Finish, Notes
  <1>7. CASE Transport
    <2>1. status' \in BOOLEAN
      <3>1. CASE Retry(status)  BY <3>1, Zenon DEF Retry, Notes
      <3>2. CASE PassOver(status)  BY <1>2, <3>2
      <3> QED  BY <1>7, <3>1, <3>2, Zenon DEF Transport
    <2> QED  BY <1>3, <1>7, <2>1 DEF Transport, Notes
  <1>8. CASE Abandon  BY <1>3, <1>8 DEF Abandon, Finish, Notes
  <1>9. CASE Transient
    <2>1. status' \in BOOLEAN  BY <1>2, <1>9, Zenon DEF Transient, Retry
    <2> QED  BY <1>3, <1>9, <2>1 DEF Transient, Notes
  <1>10. CASE Unserved  BY <1>2, <1>3, <1>10 DEF Unserved, Notes
  <1>11. CASE ImageRejected  BY <1>1, <1>2, <1>11 DEF ImageRejected, Notes
  <1>12. CASE Rescue \/ DropParam  BY <1>12 DEF Rescue, DropParam, Again, Notes
  <1>13. CASE \E answer \in {"200", "4xx"} : Respond(answer)  BY <1>13 DEF Respond, Notes
  <1>14. CASE ClientLeaves \/ UNCHANGED vars  BY <1>14 DEF ClientLeaves, vars, Notes
  <1> QED
    BY <1>4, <1>5, <1>6, <1>7, <1>8, <1>9, <1>10, <1>11, <1>12, <1>13, <1>14 DEF Next, Local,
       Upstream

\* Every variable has its type; and however its upstreams answer, a request is
\* sent to one candidate four times at the most.
THEOREM TypeCorrect == Spec => []TypeOK
  <1>1. Init => Notes
    <2> SUFFICES ASSUME Init  PROVE Notes
      OBVIOUS
    <2>1. lastErr \in Errors /\ primaryErr \in Errors  BY DEF Init, Errors
    <2>2. status \in BOOLEAN /\ soft \in BOOLEAN /\ gone \in BOOLEAN  BY Zenon DEF Init
    <2>3. reply = "none"  BY DEF Init
    <2> QED  BY <2>1, <2>2, <2>3 DEF Notes
  <1>2. WalkInv /\ Budget /\ Notes => TypeOK
    <2> SUFFICES ASSUME WalkInv, Budget, Notes  PROVE TypeOK
      OBVIOUS
    <2>1. OnChain /\ Sent  BY DEF WalkInv
    <2>2. /\ setup \in Setups /\ pc \in {"next", "attempt", "relay", "done"}
          /\ pos \in 1..(Len(chain) + 1) /\ DOMAIN chain = 1..Len(chain) /\ DOMAIN tried = 1..Len(tried)
      BY <2>1, Known DEF OnChain, Sent
    <2>3. attempt.n \in 0..3 /\ attempt.max \in 2..4
      <3>1. attempt.n \in Nat /\ attempt.max = Allowed(attempt) /\ attempt.n < attempt.max
        BY DEF Budget, Attempts
      <3>2. attempt.max \in 2..4  BY <3>1, AtMostFour
      <3> QED  BY <3>1, <3>2
    <2>4. {attempt.dropped, attempt.rescued, attempt.passth, status, soft, gone} \subseteq BOOLEAN
      <3>1. attempt.dropped \in BOOLEAN /\ attempt.rescued \in BOOLEAN /\ attempt.passth \in BOOLEAN
        BY DEF Budget, Attempts
      <3> QED  BY <3>1, Zenon DEF Notes
    <2>5. {lastErr, primaryErr} \subseteq Errors /\ reply \in {"none", "200", "4xx", "500", "502", "broken"}
      BY Zenon DEF Notes
    <2>6. \A k \in DOMAIN tried : \E i \in DOMAIN chain : i <= pos /\ tried[k] = chain[i]
      BY <2>1, <2>2 DEF Sent
    <2>7. \A i \in DOMAIN chain : Cardinality({k \in DOMAIN tried : tried[k] = chain[i]}) <= 4
      BY <2>2 DEF Budget, At
    <2> QED  BY <2>2, <2>3, <2>4, <2>5, <2>6, <2>7, Zenon DEF TypeOK
  <1>3. WalkInv => OnChain  BY DEF WalkInv
  <1> QED  BY <1>1, <1>2, <1>3, Walked, BudgetBegins, BudgetStep, NotesStep, PTL DEF Spec
===============================================================================
