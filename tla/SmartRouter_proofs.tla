-------------------------- MODULE SmartRouter_proofs --------------------------
(***************************************************************************)
(* What holds of every placement of the smart router, for any tiers,       *)
(* models, windows, sizes, runtimes, overlaps of turns and lapses.         *)
(* Type correctness comes last.                                            *)
(***************************************************************************)
EXTENDS SmartRouter, FiniteSetTheorems, SequenceTheorems, WellFoundedInduction, TLAPS

-------------------------------------------------------------------------------
(* Lists of lists, laid end to end.                                        *)

\* Every set of numbers that holds one holds a least one.
LEMMA LeastNat ==
    ASSUME NEW S \in SUBSET Nat, S # {}
    PROVE  \E n \in S : \A m \in S : n <= m
  <1> DEFINE F == {1..n : n \in S}
             R == StrictSubsetOrdering(Nat)
  <1>1. F \subseteq FiniteSubsetsOf(Nat)  BY FS_Interval DEF FiniteSubsetsOf
  <1>2. F # {}  OBVIOUS
  <1>3. PICK x \in F : \A y \in F : ~ (<<y, x>> \in R)
    <2> HIDE DEF F
    <2> QED  BY <1>1, <1>2, WFMin, FS_StrictSubsetOrderingWellFounded
  <1>4. PICK n \in S : x = 1..n  OBVIOUS
  <1>5. ASSUME NEW m \in S, m < n PROVE FALSE
    <2>1. 1..m \in F /\ <<1..m, 1..n>> \in R  BY <1>5 DEF StrictSubsetOrdering
    <2> QED  BY <1>3, <1>4, <2>1
  <1> QED  BY <1>5

\* The first m of the lists, laid end to end one after the other.
Laid(f, m, seqs) ==
    /\ DOMAIN f = 1..m
    /\ \A i \in 1..m : f[i] = IF i = 1 THEN seqs[i] ELSE f[i - 1] \o seqs[i]

\* That can be done for any number of them.
LEMMA LaidExists ==
    ASSUME NEW seqs, NEW upto \in Nat
    PROVE  \E f : Laid(f, upto, seqs)
  <1> DEFINE Has(m) == \E f : Laid(f, m, seqs)
             Lacks == {m \in Nat : ~Has(m)}
  <1> SUFFICES ASSUME ~Has(upto) PROVE FALSE  OBVIOUS
  <1>1. PICK m \in Lacks : \A k \in Lacks : m <= k
    <2>1. Lacks \in SUBSET Nat /\ Lacks # {}  OBVIOUS
    <2> HIDE DEF Lacks
    <2> QED  BY <2>1, LeastNat
  <1>2. Has(0)
    <2>1. Laid([i \in 1..0 |-> seqs], 0, seqs)  BY DEF Laid
    <2> QED  BY <2>1
  <1>3. m \in Nat /\ ~Has(m) /\ m # 0 /\ m - 1 \in Nat /\ Has(m - 1)
    <2>1. m \in Nat /\ ~Has(m)  BY <1>1
    <2>2. m # 0  BY <1>2, <2>1
    <2>3. m - 1 \in Nat /\ ~(m <= m - 1)  BY <2>1, <2>2
    <2>4. m - 1 \notin Lacks  BY <1>1, <2>3
    <2> QED  BY <2>1, <2>2, <2>3, <2>4
  <1>4. PICK f : Laid(f, m - 1, seqs)  BY <1>3
  <1> DEFINE g == [i \in 1..m |-> IF i # m THEN f[i] ELSE IF i = 1 THEN seqs[i] ELSE f[m - 1] \o seqs[m]]
  <1>5. Laid(g, m, seqs)
    <2>1. ASSUME NEW i \in 1..m PROVE g[i] = IF i = 1 THEN seqs[i] ELSE g[i - 1] \o seqs[i]
      <3>1. CASE i = 1 /\ i = m  BY <3>1
      <3>2. CASE i = 1 /\ i # m
        <4>1. i \in 1..(m - 1)  BY <1>3, <3>2
        <4>2. f[i] = seqs[i]  BY <1>4, <3>2, <4>1 DEF Laid
        <4> QED  BY <3>2, <4>2
      <3>3. CASE i # 1 /\ i = m
        <4>1. i - 1 \in 1..m /\ i - 1 # m  BY <1>3, <3>3
        <4>2. g[i - 1] = f[m - 1]  BY <3>3, <4>1
        <4> QED  BY <3>3, <4>2
      <3>4. CASE i # 1 /\ i # m
        <4>1. i \in 1..(m - 1) /\ i - 1 \in 1..m /\ i - 1 # m  BY <1>3, <3>4
        <4>2. f[i] = f[i - 1] \o seqs[i]  BY <1>4, <3>4, <4>1 DEF Laid
        <4> QED  BY <3>4, <4>1, <4>2
      <3> QED  BY <3>1, <3>2, <3>3, <3>4
    <2> HIDE DEF g
    <2>2. DOMAIN g = 1..m  BY DEF g
    <2> QED  BY <2>1, <2>2 DEF Laid
  <1> QED  BY <1>3, <1>5

\* Lists of models laid end to end are a list of models.
LEMMA FlatIsSeq ==
    ASSUME NEW S, NEW seqs \in Seq(Seq(S))
    PROVE  FlattenSeq(seqs) \in Seq(S)
  <1> DEFINE upto == Len(seqs)
             Next1(f, i) == IF i = 1 THEN seqs[i] ELSE f[i - 1] \o seqs[i]
             flatten == CHOOSE f : f = [i \in 1..upto |-> Next1(f, i)]
  <1>1. upto \in Nat /\ \A i \in 1..upto : seqs[i] \in Seq(S)  OBVIOUS
  <1>2. CASE upto = 0
    <2>1. FlattenSeq(seqs) = seqs /\ seqs = <<>>  BY <1>2 DEF FlattenSeq
    <2> QED  BY <2>1
  <1>3. CASE upto # 0
    <2>1. \E f : f = [i \in 1..upto |-> Next1(f, i)]
      <3>1. PICK f : Laid(f, upto, seqs)  BY <1>1, LaidExists
      <3> DEFINE g == [i \in 1..upto |-> f[i]]
      <3>2. ASSUME NEW i \in 1..upto PROVE g[i] = Next1(g, i)
        <4>1. CASE i = 1  BY <3>1, <4>1 DEF Laid
        <4>2. CASE i # 1
          <5>1. i - 1 \in 1..upto  BY <1>1, <4>2
          <5> QED  BY <3>1, <4>2, <5>1 DEF Laid
        <4> QED  BY <4>1, <4>2
      <3>3. g = [i \in 1..upto |-> Next1(g, i)]  BY <3>2, SMTT(60)
      <3> QED  BY <3>3
    <2>2. flatten = [i \in 1..upto |-> Next1(flatten, i)]  BY <2>1
    <2>3. FlattenSeq(seqs) = flatten[upto]  BY <1>3 DEF FlattenSeq
    <2> HIDE DEF flatten
    <2> DEFINE Bad == {i \in 1..upto : flatten[i] \notin Seq(S)}
    <2>4. Bad = {}
      <3> SUFFICES ASSUME Bad # {} PROVE FALSE  OBVIOUS
      <3>1. PICK n \in Bad : \A k \in Bad : n <= k
        <4>1. Bad \in SUBSET Nat  BY <1>1
        <4> HIDE DEF Bad
        <4> QED  BY <4>1, LeastNat
      <3>2. n \in 1..upto /\ flatten[n] \notin Seq(S) /\ seqs[n] \in Seq(S)  BY <1>1, <3>1
      <3>3. flatten[n] = Next1(flatten, n)  BY <2>2, <3>2
      <3>4. n # 1  BY <3>2, <3>3
      <3>5. n - 1 \in 1..upto /\ ~(n <= n - 1)  BY <1>1, <3>2, <3>4
      <3>6. n - 1 \notin Bad  BY <3>1, <3>5
      <3>7. flatten[n - 1] \in Seq(S)  BY <3>5, <3>6
      <3>8. flatten[n - 1] \o seqs[n] \in Seq(S)  BY <3>2, <3>7
      <3> QED  BY <3>2, <3>3, <3>4, <3>8
    <2>5. upto \in 1..upto  BY <1>1, <1>3
    <2> QED  BY <2>3, <2>4, <2>5
  <1> QED  BY <1>2, <1>3

-------------------------------------------------------------------------------
(* The choice.                                                             *)

\* judge has six verdicts, and rules out what is not fit.
LEMMA Verdicts ==
    ASSUME NEW q, NEW v, NEW sick, NEW m
    PROVE  Soft(q, v, sick, m) \in {0, 1, 2, 3, 4, 9} /\ (Unfit(q, v, m) => Soft(q, v, sick, m) = 9)
  BY DEF Soft

\* A model that is able to take the turn.
Able(q, m) == (q.image => m \in Sighted) /\ Fits(q.size, m)

\* What is not ruled out is able to.
LEMMA NotRuledOut ==
    ASSUME NEW q, NEW v, NEW sick, NEW m, Soft(q, v, sick, m) # 9
    PROVE  Able(q, m)
  <1>1. ~Unfit(q, v, m)  BY Verdicts
  <1> QED  BY <1>1, Zenon DEF Unfit, Able

\* The walk ends at a candidate of the list that is not ruled out, if at any.
LEMMA BestIsFit ==
    ASSUME NEW cands \in Seq(Model), NEW soft, \A i \in DOMAIN cands : soft[cands[i]] \in Nat,
           Best(cands, soft) # None
    PROVE  \E i \in DOMAIN cands : Best(cands, soft) = cands[i] /\ soft[cands[i]] # 9
  <1> DEFINE fit == {i \in DOMAIN cands : soft[cands[i]] # 9}
             worst == {soft[cands[i]] : i \in fit}
             least == {i \in fit : \A j \in fit : soft[cands[i]] <= soft[cands[j]]}
  <1>1. DOMAIN cands \subseteq Nat /\ \A i \in DOMAIN cands : cands[i] \in Model  OBVIOUS
  <1>2. fit # {} /\ Best(cands, soft) = cands[Min(least)]
    <2>1. Best(cands, soft) = IF fit = {} THEN None ELSE cands[Min(least)]  BY DEF Best
    <2> HIDE DEF fit, least
    <2> QED  BY <2>1
  <1>3. worst \in SUBSET Nat /\ worst # {}  BY <1>2
  <1>4. PICK w \in worst : \A x \in worst : w <= x
    <2> HIDE DEF worst
    <2> QED  BY <1>3, LeastNat
  <1>5. PICK i \in fit : w = soft[cands[i]]  BY <1>4
  <1>6. i \in least  BY <1>4, <1>5
  <1>7. least \in SUBSET Nat /\ least # {} /\ \A k \in least : k \in fit  BY <1>1, <1>6
  <1>8. Min(least) \in least
    <2> HIDE DEF least
    <2>1. \E x \in least : \A y \in least : x =< y  BY <1>7, LeastNat
    <2> QED  BY <2>1 DEF Min
  <1>9. Min(least) \in fit
    <2> HIDE DEF least
    <2> QED  BY <1>7, <1>8
  <1>10. Min(least) \in DOMAIN cands /\ soft[cands[Min(least)]] # 9
    <2> HIDE DEF least
    <2> QED  BY <1>9
  <1> QED  BY <1>2, <1>10, Zenon

\* What a turn finds sick, and whether it stays where it is pinned.
SickNow == IF health = None THEN world.sick ELSE health
Stays(q) == PinKept(q, View({q.pinned} \cap Model), SickNow)

\* What handleCore makes of the choice: the turn is sent to the winner and the
\* conversation pinned to it.
Chosen(r, winner) ==
    /\ req' = [req EXCEPT ![r] = req'[r]]
    /\ req'[r].at = "sent" /\ req'[r].real = req[r].real /\ req'[r].billed = req[r].billed
    /\ req'[r].image = req[r].image
    /\ req'[r].chosen = IF winner = None THEN Default ELSE winner
    /\ pin' = IF Puts(req[r], winner)
              THEN [pin EXCEPT ![req[r].conv] = [model |-> winner, tier |-> ListFor(req[r])]] ELSE pin
    /\ last' = [last EXCEPT ![req[r].conv] = IF req[r].alone THEN winner ELSE None]

\* A decision comes down to a winner: the pinned model where it is kept, else a
\* model able to take the turn, or none.
LEMMA DecideDoes ==
    ASSUME NEW r \in Req, Decide(r), DOMAIN req = Req
    PROVE  \E winner :
              /\ Stays(req[r]) => winner = req[r].pinned
              /\ winner # None => Able(req[r], winner) /\ (~Stays(req[r]) => winner \in Model)
              /\ Chosen(r, winner)
  <1> DEFINE q == req[r]
             list == ListFor(q)
             cands == FlattenSeq(Entries(list))
             v == View(({q.pinned} \cap Model) \cup IF Stays(q) THEN {} ELSE ToSet(cands))
             soft == [m \in ToSet(cands) |-> Soft(q, v, SickNow, m)]
             winner == IF Stays(q) THEN q.pinned ELSE Best(cands, soft)
             put == [model |-> winner, tier |-> list]
             was == IF q.alone THEN winner ELSE None
  <1>1. PICK i, sent :
          /\ pin' = IF Puts(q, winner) THEN [pin EXCEPT ![q.conv] = put] ELSE pin
          /\ req' = [req EXCEPT ![r] = sent]
          /\ sent = [at |-> "sent", conv |-> q.conv, real |-> q.real, billed |-> q.billed,
                     image |-> q.image, chosen |-> IF winner = None THEN Default ELSE winner,
                     miss |-> sent.miss, yielded |-> sent.yielded]
          /\ last' = [last EXCEPT ![q.conv] = was]
    BY DEF Decide, Stays, SickNow
  <1>2. Stays(q) => winner = q.pinned  OBVIOUS
  <1>3. winner # None => Able(q, winner) /\ (~Stays(q) => winner \in Model)
    <2>1. CASE Stays(q)
      <3>1. Soft(q, View({q.pinned} \cap Model), SickNow, q.pinned) <= 2  BY <2>1 DEF Stays, PinKept
      <3>2. Soft(q, View({q.pinned} \cap Model), SickNow, q.pinned) # 9  BY <3>1
      <3>3. Able(q, q.pinned)  BY <3>2, NotRuledOut
      <3> QED  BY <2>1, <3>3
    <2>2. CASE ~Stays(q)
      <3> SUFFICES ASSUME winner # None  PROVE Able(q, winner) /\ winner \in Model
        OBVIOUS
      <3>1. winner = Best(cands, soft)  BY <2>2
      <3>2. cands \in Seq(Model)
        <4>1. Entries(list) \in Seq(Seq(Model))  BY RouterAssumption DEF Entries
        <4> QED  BY <4>1, FlatIsSeq
      <3> HIDE DEF cands, v, list, q, winner
      <3>3. \A k \in DOMAIN cands : cands[k] \in ToSet(cands)  BY DEF ToSet
      <3>4. \A m \in ToSet(cands) : soft[m] = Soft(q, v, SickNow, m) /\ soft[m] \in Nat
        BY Verdicts
      <3>5. PICK k \in DOMAIN cands : winner = cands[k] /\ soft[cands[k]] # 9
        <4> HIDE DEF soft
        <4> QED  BY <3>1, <3>2, <3>3, <3>4, BestIsFit
      <3>6. winner \in ToSet(cands) /\ winner \in Model  BY <3>2, <3>3, <3>5
      <3>7. Soft(q, v, SickNow, winner) # 9  BY <3>4, <3>5, <3>6
      <3> QED  BY <3>6, <3>7, NotRuledOut
    <2> QED  BY <2>1, <2>2
  <1> HIDE DEF winner
  <1>4. req' = [req EXCEPT ![r] = sent] /\ req'[r] = sent
    BY <1>1
  <1>5. /\ sent.at = "sent" /\ sent.real = q.real /\ sent.billed = q.billed /\ sent.image = q.image
        /\ sent.chosen = IF winner = None THEN Default ELSE winner
    <2> DEFINE picture == q.image
               to == IF winner = None THEN Default ELSE winner
    <2>1. sent = [at |-> "sent", conv |-> q.conv, real |-> q.real, billed |-> q.billed,
                  image |-> picture, chosen |-> to, miss |-> sent.miss, yielded |-> sent.yielded]
      BY <1>1, Zenon
    <2> HIDE DEF picture, to, q
    <2>2. /\ sent.at = "sent" /\ sent.real = q.real /\ sent.billed = q.billed /\ sent.image = picture
          /\ sent.chosen = to
      BY <2>1
    <2> QED  BY <2>2 DEF picture, to
  <1>6. Chosen(r, winner)  BY <1>1, <1>4, <1>5, Zenon DEF Chosen
  <1> QED  BY <1>2, <1>3, <1>6

-------------------------------------------------------------------------------
(* The turns and the pins.                                                 *)

\* A turn between its profile and its choice.
Placing(q) ==
    /\ q = [at |-> "routed", conv |-> q.conv, size |-> q.size, real |-> q.real,
            billed |-> q.billed, image |-> q.image, tier |-> q.tier, pinned |-> q.pinned,
            alone |-> q.alone]
    /\ q.conv \in Conv /\ q.pinned \in Model \cup {None}
    /\ q.size = Max({Est[q.real], q.billed})

\* One that no other turn of its conversation has overlapped.
Lone(q) == q.at = "routed" /\ q.alone

\* The turns, the pins and the history are of the kinds they are.
Base ==
    /\ DOMAIN req = Req /\ DOMAIN pin = Conv /\ DOMAIN last = Conv
    /\ \A r \in Req : req[r].at = "routed" => Placing(req[r])
    /\ \A c \in Conv : pin[c] = None \/ pin[c].model \in Model
    /\ \A c \in Conv : last[c] \in Model \cup {None}

\* A turn that is alone is the only one of its conversation.
Alone == \A r, o \in Req :
    r # o /\ Lone(req[r]) /\ req[o].at = "routed" => req[o].conv # req[r].conv

\* A pin is of the model that took the last turn.
PinsLast == \A c \in Conv :
    Role[c] = None => pin[c] = None \/ last[c] = None \/ pin[c].model = last[c]

\* And so is what a turn that is alone has read of it.
TurnPins == \A r \in Req :
    Lone(req[r]) /\ Role[req[r].conv] = None /\ req[r].pinned # None
        => /\ pin[req[r].conv] = None \/ pin[req[r].conv].model = req[r].pinned
           /\ last[req[r].conv] \in {None, req[r].pinned}

RouteInv == Base /\ Capable /\ Alone /\ PinsLast /\ TurnPins

\* Another turn of the conversation began: nothing else about this one changes.
LEMMA NotAlone ==
    ASSUME NEW q, Placing(q)
    PROVE  LET p == [q EXCEPT !.alone = FALSE]
           IN  Placing(p) /\ ~Lone(p) /\ p.at = "routed" /\ p.conv = q.conv
  <1> DEFINE no == FALSE
             p == [q EXCEPT !.alone = FALSE]
             picture == q.image
             was == q.alone
  <1>1. ~no  OBVIOUS
  <1>2. q = [at |-> "routed", conv |-> q.conv, size |-> q.size, real |-> q.real,
             billed |-> q.billed, image |-> picture, tier |-> q.tier, pinned |-> q.pinned,
             alone |-> was]
        /\ q.conv \in Conv /\ q.pinned \in Model \cup {None}
        /\ q.size = Max({Est[q.real], q.billed})
    BY Zenon DEF Placing
  <1>3. p = [q EXCEPT !.alone = no]  OBVIOUS
  <1> HIDE DEF no, p, picture, was
  <1>4. p = [at |-> "routed", conv |-> q.conv, size |-> q.size, real |-> q.real,
             billed |-> q.billed, image |-> picture, tier |-> q.tier, pinned |-> q.pinned,
             alone |-> no]
    BY <1>2, <1>3
  <1>5. /\ p.at = "routed" /\ p.conv = q.conv /\ p.size = q.size /\ p.real = q.real
        /\ p.billed = q.billed /\ p.image = picture /\ p.tier = q.tier /\ p.pinned = q.pinned
        /\ p.alone = no
    BY <1>4
  <1>6. Placing(p)  BY <1>2, <1>4, <1>5, Zenon DEF Placing
  <1>7. ~Lone(p)  BY <1>1, <1>5, Zenon DEF Lone
  <1> QED  BY <1>5, <1>6, <1>7 DEF p

\* A turn begins: it has read its pin, and is alone if no other turn of its
\* conversation is on its way, none of which is alone any longer.
LEMMA BeginDoes ==
    ASSUME NEW r \in Req, NEW c \in Conv, NEW size, NEW image \in BOOLEAN, NEW grade,
           Base, Begin(r, c, size, image, grade)
    PROVE  /\ pin' = pin /\ last' = last /\ DOMAIN req' = Req /\ req[r].at = "free"
           /\ Placing(req'[r]) /\ req'[r].at = "routed" /\ req'[r].conv = c
           /\ req'[r].pinned = PinOf(c)
           /\ Lone(req'[r]) => \A o \in Req : ~(req[o].at = "routed" /\ req[o].conv = c)
           /\ \A o \in Req : o # r =>
                 IF req[o].at = "routed" /\ req[o].conv = c
                 THEN Placing(req'[o]) /\ ~Lone(req'[o]) /\ req'[o].at = "routed" /\ req'[o].conv = c
                 ELSE req'[o] = req[o]
  <1> DEFINE others == {o \in Req : req[o].at = "routed" /\ req[o].conv = c}
             none == others = {}
             tier == IF Role[c] # None THEN Role[c]
                     ELSE IF pin[c] # None THEN pin[c].tier ELSE grade
             turn == [at |-> "routed", conv |-> c, size |-> SizeOf(c, size), real |-> size,
                      billed |-> tokens[c], image |-> image, tier |-> tier,
                      pinned |-> PinOf(c), alone |-> none]
  <1>1. /\ pin' = pin /\ last' = last /\ req[r].at = "free"
        /\ req' = [o \in Req |-> IF o = r THEN turn
                                 ELSE IF o \in others THEN [req[o] EXCEPT !.alone = FALSE]
                                 ELSE req[o]]
    BY DEF Begin
  <1>2. PinOf(c) \in Model \cup {None}  BY DEF PinOf, Base
  <1> HIDE DEF tier, none
  <1>3. /\ turn.at = "routed" /\ turn.conv = c /\ turn.size = SizeOf(c, size) /\ turn.real = size
        /\ turn.billed = tokens[c] /\ turn.image = image /\ turn.tier = tier
        /\ turn.pinned = PinOf(c) /\ turn.alone = none
    OBVIOUS
  <1>4. turn.size = Max({Est[turn.real], turn.billed})  BY <1>3 DEF SizeOf
  <1>5. turn = [at |-> "routed", conv |-> turn.conv, size |-> turn.size, real |-> turn.real,
                billed |-> turn.billed, image |-> turn.image, tier |-> turn.tier,
                pinned |-> turn.pinned, alone |-> turn.alone]
    OBVIOUS
  <1> HIDE DEF turn
  <1>6. req'[r] = turn /\ DOMAIN req' = Req  BY <1>1
  <1>7. Placing(turn)
    <2>1. turn.conv \in Conv /\ turn.pinned \in Model \cup {None}  BY <1>2, <1>3
    <2> QED  BY <1>4, <1>5, <2>1, Zenon DEF Placing
  <1>8. Lone(turn) => others = {}  BY <1>3, Zenon DEF Lone, none
  <1>9. ASSUME NEW o \in Req, o # r
        PROVE  IF req[o].at = "routed" /\ req[o].conv = c
               THEN Placing(req'[o]) /\ ~Lone(req'[o]) /\ req'[o].at = "routed" /\ req'[o].conv = c
               ELSE req'[o] = req[o]
    <2>1. CASE req[o].at = "routed" /\ req[o].conv = c
      <3>1. o \in others  BY <1>9, <2>1
      <3>2. req'[o] = [req[o] EXCEPT !.alone = FALSE]  BY <1>1, <1>9, <3>1, Zenon
      <3>3. Placing(req[o])  BY <2>1 DEF Base
      <3> QED  BY <2>1, <3>2, <3>3, NotAlone
    <2>2. CASE ~(req[o].at = "routed" /\ req[o].conv = c)
      <3>1. o \notin others  BY <2>2
      <3>2. req'[o] = req[o]  BY <1>1, <1>9, <3>1, Zenon
      <3> QED  BY <2>2, <3>2
    <2> QED  BY <2>1, <2>2
  <1>10. Lone(turn) => \A o \in Req : ~(req[o].at = "routed" /\ req[o].conv = c)  BY <1>8
  <1> HIDE DEF others
  <1> QED  BY <1>1, <1>3, <1>6, <1>7, <1>9, <1>10

\* A beginning turn finds the pin of the model that took the last one.
LEMMA BeginKeeps ==
    ASSUME NEW r \in Req, NEW c \in Conv, NEW size, NEW image \in BOOLEAN, NEW grade,
           RouteInv, Begin(r, c, size, image, grade)
    PROVE  RouteInv'
  <1>1. Base /\ Capable /\ Alone /\ PinsLast /\ TurnPins  BY DEF RouteInv
  <1>2. /\ pin' = pin /\ last' = last /\ DOMAIN req' = Req /\ req[r].at = "free"
        /\ Placing(req'[r]) /\ req'[r].at = "routed" /\ req'[r].conv = c
        /\ req'[r].pinned = PinOf(c)
        /\ Lone(req'[r]) => \A o \in Req : ~(req[o].at = "routed" /\ req[o].conv = c)
    BY <1>1, BeginDoes
  <1>3. \A o \in Req : o # r =>
           IF req[o].at = "routed" /\ req[o].conv = c
           THEN Placing(req'[o]) /\ ~Lone(req'[o]) /\ req'[o].at = "routed" /\ req'[o].conv = c
           ELSE req'[o] = req[o]
    BY <1>1, BeginDoes
  <1>4. Base'
    <2>1. \A o \in Req : req'[o].at = "routed" => Placing(req'[o])
      BY <1>1, <1>2, <1>3, Zenon DEF Base
    <2> QED  BY <1>1, <1>2, <2>1 DEF Base
  <1>5. Capable'
    <2> SUFFICES ASSUME NEW o \in Req, req'[o].at = "sent"
                 PROVE  req'[o] = req[o]
      BY <1>1 DEF Capable
    <2>1. o # r /\ ~(req'[o].at = "routed")  BY <1>2
    <2> QED  BY <1>3, <2>1, Zenon
  <1>6. \A o \in Req : Lone(req'[o]) /\ o # r =>
           /\ req'[o] = req[o] /\ ~(req[o].at = "routed" /\ req[o].conv = c)
    BY <1>3, Zenon
  <1>7. \A o \in Req : Lone(req'[o]) => req'[o].at = "routed"  BY Zenon DEF Lone
  <1>8. \A o \in Req : req'[o].at = "routed" /\ o # r => req[o].at = "routed" /\ req'[o].conv = req[o].conv
    BY <1>3, Zenon
  <1>9. Alone'
    <2> SUFFICES ASSUME NEW a \in Req, NEW o \in Req, a # o, Lone(req'[a]), req'[o].at = "routed"
                 PROVE  req'[o].conv # req'[a].conv
      BY DEF Alone
    <2>1. CASE a = r
      <3>1. req[o].at = "routed" /\ req'[o].conv = req[o].conv  BY <1>8, <2>1
      <3> QED  BY <1>2, <2>1, <3>1
    <2>2. CASE a # r /\ o = r
      <3>1. req'[a] = req[a] /\ ~(req[a].at = "routed" /\ req[a].conv = c)  BY <1>6, <2>2
      <3>2. req'[a].at = "routed"  BY <1>7
      <3> QED  BY <1>2, <2>2, <3>1, <3>2
    <2>3. CASE a # r /\ o # r
      <3>1. Lone(req[a]) /\ req'[a] = req[a]  BY <1>6, <2>3
      <3>2. req[o].at = "routed" /\ req'[o].conv = req[o].conv  BY <1>8, <2>3
      <3> QED  BY <1>1, <3>1, <3>2 DEF Alone
    <2> QED  BY <2>1, <2>2, <2>3
  <1>10. PinsLast'  BY <1>1, <1>2 DEF PinsLast
  <1>11. TurnPins'
    <2> SUFFICES ASSUME NEW o \in Req, Lone(req'[o]), Role[req'[o].conv] = None,
                        req'[o].pinned # None
                 PROVE  /\ pin[req'[o].conv] = None \/ pin[req'[o].conv].model = req'[o].pinned
                        /\ last[req'[o].conv] \in {None, req'[o].pinned}
      BY <1>2 DEF TurnPins
    <2>1. CASE o = r
      <3>1. pin[c] # None /\ pin[c].model = req'[o].pinned /\ req'[o].conv = c
        BY <1>2, <2>1 DEF PinOf
      <3>2. Role[c] = None  BY <1>2, <2>1
      <3>3. last[c] = None \/ last[c] = pin[c].model  BY <1>1, <3>1, <3>2 DEF PinsLast
      <3> QED  BY <3>1, <3>3
    <2>2. CASE o # r
      <3>1. Lone(req[o]) /\ req'[o] = req[o]  BY <1>6, <2>2
      <3> QED  BY <1>1, <3>1 DEF TurnPins
    <2> QED  BY <2>1, <2>2
  <1> QED  BY <1>4, <1>5, <1>9, <1>10, <1>11 DEF RouteInv

\* A decision sends the turn to a model able to take it, and the pin follows.
LEMMA DecideKeeps ==
    ASSUME NEW r \in Req, RouteInv, Decide(r)
    PROVE  RouteInv'
  <1>1. Base /\ Capable /\ Alone /\ PinsLast /\ TurnPins  BY DEF RouteInv
  <1>2. DOMAIN req = Req /\ DOMAIN pin = Conv /\ DOMAIN last = Conv  BY <1>1 DEF Base
  <1> DEFINE q == req[r]
             c == q.conv
  <1>3. q.at = "routed"  BY DEF Decide
  <1>4. Placing(q)  BY <1>1, <1>3 DEF Base
  <1>5. c \in Conv /\ q.pinned \in Model \cup {None} /\ q.size = Max({Est[q.real], q.billed})
    BY <1>4, Zenon DEF Placing
  <1>6. PICK winner :
          /\ Stays(q) => winner = q.pinned
          /\ winner # None => Able(q, winner) /\ (~Stays(q) => winner \in Model)
          /\ Chosen(r, winner)
    BY <1>2, DecideDoes
  <1>7. winner \in Model \cup {None}  BY <1>5, <1>6
  <1>8. /\ req'[r].at = "sent" /\ DOMAIN req' = Req
        /\ \A o \in Req : o # r => req'[o] = req[o]
    <2>1. req' = [req EXCEPT ![r] = req'[r]] /\ req'[r].at = "sent"  BY <1>6 DEF Chosen
    <2>2. \A o \in Req : o # r => [req EXCEPT ![r] = req'[r]][o] = req[o]  BY <1>2
    <2>3. DOMAIN [req EXCEPT ![r] = req'[r]] = Req  BY <1>2
    <2> QED  BY <2>1, <2>2, <2>3
  <1>9. DOMAIN pin' = Conv /\ \A k \in Conv : k # c => pin'[k] = pin[k]
    BY <1>2, <1>6 DEF Chosen
  <1>10. DOMAIN last' = Conv /\ \A k \in Conv : k # c => last'[k] = last[k]
    BY <1>2, <1>6 DEF Chosen
  <1>11. pin'[c] = pin[c] \/ (pin'[c].model = winner /\ winner # None)
    <2>1. CASE Puts(q, winner)
      <3>1. pin'[c] = [model |-> winner, tier |-> ListFor(q)]  BY <1>2, <1>5, <1>6, <2>1 DEF Chosen
      <3>2. winner # None  BY <2>1 DEF Puts
      <3> QED  BY <3>1, <3>2
    <2>2. CASE ~Puts(q, winner)
      <3>1. pin' = pin  BY <1>6, <2>2 DEF Chosen
      <3> QED  BY <3>1
    <2> QED  BY <2>1, <2>2
  <1>12. (Lone(q) /\ last'[c] = winner) \/ (~Lone(q) /\ last'[c] = None)
    <2>1. last'[c] = IF q.alone THEN winner ELSE None
      <3> DEFINE was == IF q.alone THEN winner ELSE None
      <3>1. last' = [last EXCEPT ![c] = was]  BY <1>6, Zenon DEF Chosen
      <3> HIDE DEF was
      <3>2. last'[c] = was  BY <1>2, <1>5, <3>1
      <3> QED  BY <3>2 DEF was
    <2> QED  BY <1>3, <2>1, Zenon DEF Lone
  <1>13. \A o \in Req : req'[o].at = "routed" => o # r /\ req'[o] = req[o]  BY <1>8
  <1>14. \A o \in Req : Lone(req'[o]) => o # r /\ req'[o] = req[o] /\ Lone(req[o])
    <2>1. \A o \in Req : Lone(req'[o]) => req'[o].at = "routed"  BY Zenon DEF Lone
    <2> QED  BY <1>13, <2>1
  <1>15. \A o \in Req : Lone(req[o]) /\ o # r => req[o].conv # c
    BY <1>1, <1>3, Zenon DEF Alone
  <1>16. Base'
    <2>1. \A o \in Req : req'[o].at = "routed" => Placing(req'[o])  BY <1>1, <1>13 DEF Base
    <2>2. \A k \in Conv : pin'[k] = None \/ pin'[k].model \in Model
      BY <1>1, <1>7, <1>9, <1>11 DEF Base
    <2>3. \A k \in Conv : last'[k] \in Model \cup {None}
      BY <1>1, <1>7, <1>10, <1>12 DEF Base
    <2> QED  BY <1>8, <1>9, <1>10, <2>1, <2>2, <2>3 DEF Base
  <1>17. Capable'
    <2> SUFFICES ASSUME NEW o \in Req, req'[o].at = "sent", req'[o].chosen # Default
                 PROVE  /\ req'[o].image => req'[o].chosen \in Sighted
                        /\ Fits(Max({Est[req'[o].real], req'[o].billed}), req'[o].chosen)
      BY DEF Capable
    <2>1. CASE o # r  BY <1>1, <1>8, <2>1 DEF Capable
    <2>2. CASE o = r
      <3>1. /\ req'[o].real = q.real /\ req'[o].billed = q.billed /\ req'[o].image = q.image
            /\ req'[o].chosen = IF winner = None THEN Default ELSE winner
        BY <1>6, <2>2, Zenon DEF Chosen
      <3>2. winner # None /\ req'[o].chosen = winner  BY <3>1
      <3>3. Able(q, winner)  BY <1>6, <3>2
      <3>4. (q.image => winner \in Sighted) /\ Fits(Max({Est[q.real], q.billed}), winner)
        BY <1>5, <3>3, Zenon DEF Able
      <3> QED  BY <3>1, <3>2, <3>4, Zenon
    <2> QED  BY <2>1, <2>2
  <1>18. Alone'
    <2> SUFFICES ASSUME NEW a \in Req, NEW o \in Req, a # o, Lone(req'[a]), req'[o].at = "routed"
                 PROVE  req'[o].conv # req'[a].conv
      BY DEF Alone
    <2> QED  BY <1>1, <1>13, <1>14 DEF Alone
  <1>19. PinsLast'
    <2> SUFFICES ASSUME NEW k \in Conv, Role[k] = None
                 PROVE  pin'[k] = None \/ last'[k] = None \/ pin'[k].model = last'[k]
      BY DEF PinsLast
    <2>1. CASE k # c  BY <1>1, <1>9, <1>10, <2>1 DEF PinsLast
    <2>2. CASE k = c
      <3>1. CASE ~Lone(q)  BY <1>12, <2>2, <3>1
      <3>2. CASE winner = None  BY <1>12, <2>2, <3>2
      <3>3. CASE Lone(q) /\ winner # None /\ pin'[c].model = winner  BY <1>12, <2>2, <3>3
      <3>4. CASE Lone(q) /\ winner # None /\ ~Puts(q, winner)
        <4>1. winner = q.pinned /\ pin' = pin  BY <1>6, <3>4 DEF Chosen, Puts
        <4>2. pin[c] = None \/ pin[c].model = winner  BY <1>1, <2>2, <3>4, <4>1 DEF TurnPins
        <4> QED  BY <1>12, <2>2, <3>4, <4>1, <4>2
      <3>5. Puts(q, winner) => pin'[c].model = winner
        <4> SUFFICES ASSUME Puts(q, winner)  PROVE pin'[c].model = winner
          OBVIOUS
        <4>1. pin'[c] = [model |-> winner, tier |-> ListFor(q)]  BY <1>2, <1>5, <1>6 DEF Chosen
        <4> QED  BY <4>1
      <3> QED  BY <3>1, <3>2, <3>3, <3>4, <3>5
    <2> QED  BY <2>1, <2>2
  <1>20. TurnPins'
    <2> SUFFICES ASSUME NEW o \in Req, Lone(req'[o]), Role[req'[o].conv] = None,
                        req'[o].pinned # None
                 PROVE  /\ pin'[req'[o].conv] = None \/ pin'[req'[o].conv].model = req'[o].pinned
                        /\ last'[req'[o].conv] \in {None, req'[o].pinned}
      BY DEF TurnPins
    <2>1. o # r /\ req'[o] = req[o] /\ Lone(req[o])  BY <1>14
    <2>2. req[o].conv # c  BY <1>15, <2>1
    <2>3. req[o].conv \in Conv
      <3>1. req[o].at = "routed"  BY <2>1, Zenon DEF Lone
      <3> QED  BY <1>1, <3>1, Zenon DEF Base, Placing
    <2>4. pin'[req[o].conv] = pin[req[o].conv] /\ last'[req[o].conv] = last[req[o].conv]
      BY <1>9, <1>10, <2>2, <2>3
    <2> QED  BY <1>1, <2>1, <2>4 DEF TurnPins
  <1> QED  BY <1>16, <1>17, <1>18, <1>19, <1>20 DEF RouteInv

\* Turns end and pins expire: less is claimed than before.
LEMMA LessKeeps ==
    ASSUME RouteInv, last' = last, DOMAIN req' = Req, DOMAIN pin' = Conv,
           \A o \in Req : req'[o] = req[o] \/ req'[o].at = "free",
           \A k \in Conv : pin'[k] = pin[k] \/ pin'[k] = None
    PROVE  RouteInv'
  <1>1. Base /\ Capable /\ Alone /\ PinsLast /\ TurnPins  BY DEF RouteInv
  <1>2. \A o \in Req : req'[o].at \in {"routed", "sent"} => req'[o] = req[o]  OBVIOUS
  <1>3. \A o \in Req : Lone(req'[o]) => req'[o] = req[o] /\ Lone(req[o]) /\ req[o].at = "routed"
    <2>1. \A o \in Req : Lone(req'[o]) => req'[o].at = "routed"  BY Zenon DEF Lone
    <2> QED  BY <1>2, <2>1
  <1>4. Base'  BY <1>1, <1>2 DEF Base
  <1>5. Capable'
    <2> SUFFICES ASSUME NEW o \in Req, req'[o].at = "sent"
                 PROVE  req'[o] = req[o]
      BY <1>1 DEF Capable
    <2> QED  BY <1>2
  <1>6. Alone'
    <2> SUFFICES ASSUME NEW a \in Req, NEW o \in Req, a # o, Lone(req'[a]), req'[o].at = "routed"
                 PROVE  req'[o].conv # req'[a].conv
      BY DEF Alone
    <2> QED  BY <1>1, <1>2, <1>3 DEF Alone
  <1>7. PinsLast'  BY <1>1 DEF PinsLast
  <1>8. TurnPins'
    <2> SUFFICES ASSUME NEW o \in Req, Lone(req'[o]), Role[req'[o].conv] = None,
                        req'[o].pinned # None
                 PROVE  /\ pin'[req'[o].conv] = None \/ pin'[req'[o].conv].model = req'[o].pinned
                        /\ last[req'[o].conv] \in {None, req'[o].pinned}
      BY DEF TurnPins
    <2>1. req'[o] = req[o] /\ Lone(req[o]) /\ req[o].at = "routed"  BY <1>3
    <2>2. req[o].conv \in Conv  BY <1>1, <2>1, Zenon DEF Base, Placing
    <2> QED  BY <1>1, <2>1, <2>2 DEF TurnPins
  <1> QED  BY <1>4, <1>5, <1>6, <1>7, <1>8 DEF RouteInv

\* Nothing is routed or pinned at first.
LEMMA RouteBegins == Init => RouteInv
  <1> SUFFICES ASSUME Init  PROVE RouteInv
    OBVIOUS
  <1>1. /\ req = [r \in Req |-> Free] /\ pin = [c \in Conv |-> None]
        /\ last = [c \in Conv |-> None]
    BY DEF Init
  <1>2. \A r \in Req : req[r].at = "free"  BY <1>1 DEF Free
  <1>3. \A r \in Req : ~Lone(req[r])
    <2>1. \A r \in Req : req[r].at # "routed"  BY <1>2
    <2> QED  BY <2>1, Zenon DEF Lone
  <1>4. Base  BY <1>1, <1>2 DEF Base
  <1>5. Capable  BY <1>2 DEF Capable
  <1>6. Alone /\ TurnPins  BY <1>3, Zenon DEF Alone, TurnPins
  <1>7. PinsLast  BY <1>1 DEF PinsLast
  <1> QED  BY <1>4, <1>5, <1>6, <1>7 DEF RouteInv

\* No step of the router or of the world around it disturbs it.
LEMMA RouteStep == RouteInv /\ [Next]_vars => RouteInv'
  <1> SUFFICES ASSUME RouteInv, [Next]_vars  PROVE RouteInv'
    OBVIOUS
  <1>1. DOMAIN req = Req /\ DOMAIN pin = Conv  BY DEF RouteInv, Base
  <1>2. CASE \E r \in Req, c \in Conv, size \in Size, image \in BOOLEAN, grade \in Grades :
               Begin(r, c, size, image, grade)
    BY <1>2, BeginKeeps
  <1>3. CASE \E r \in Req : Decide(r)  BY <1>3, DecideKeeps
  <1>4. CASE \E r \in Req, answered \in BOOLEAN : Finish(r, answered)
    <2>1. PICK r \in Req : req' = [req EXCEPT ![r] = Free] /\ pin' = pin /\ last' = last
      BY <1>4 DEF Finish
    <2>2. \A o \in Req : req'[o] = req[o] \/ req'[o].at = "free"  BY <1>1, <2>1 DEF Free
    <2> QED  BY <1>1, <2>1, <2>2, LessKeeps
  <1>5. CASE \E c \in Conv : PinExpires(c)
    <2>1. PICK c \in Conv : pin' = [pin EXCEPT ![c] = None] /\ req' = req /\ last' = last
      BY <1>5 DEF PinExpires
    <2>2. \A k \in Conv : pin'[k] = pin[k] \/ pin'[k] = None  BY <1>1, <2>1
    <2> QED  BY <1>1, <2>1, <2>2, LessKeeps
  <1>6. ASSUME req' = req, pin' = pin, last' = last
        PROVE  RouteInv'
    BY <1>1, <1>6, LessKeeps
  <1>7. CASE Shift \/ HealthLapses  BY <1>6, <1>7 DEF Shift, HealthLapses
  <1>8. CASE \E p \in LlamaSwap : ViewLapses(p) \/ SlotsLapse(p)
    BY <1>6, <1>8 DEF ViewLapses, SlotsLapse
  <1>9. CASE \E k \in Conv \cup Prefix : BindingExpires(k)  BY <1>6, <1>9 DEF BindingExpires
  <1>10. CASE UNCHANGED routerVars  BY <1>6, <1>10 DEF routerVars
  <1>11. CASE UNCHANGED vars  BY <1>6, <1>11 DEF vars, routerVars
  <1> QED
    BY <1>2, <1>3, <1>4, <1>5, <1>7, <1>8, <1>9, <1>10, <1>11 DEF Next

\* It holds of every state of every run.
LEMMA RouteAlways == Spec => []RouteInv
  <1> QED  BY RouteBegins, RouteStep, PTL DEF Spec

\* smartroute.go, judge and the fast path of a pin: a turn the router places goes
\* to a model that sees its picture and whose window its known size fits, with
\* the headroom, whatever the lists, the caches and the pins say.
THEOREM PlacesCapable == Spec => []Capable
  <1>1. RouteInv => Capable  BY DEF RouteInv
  <1> QED  BY <1>1, RouteAlways, PTL

\* smartroute.go, the pin: a conversation whose turns do not overlap leaves the
\* model of its last turn only when that one would not be kept.
THEOREM StaysWithItsModel == Spec => StaysPut
  <1>1. RouteInv /\ [Next]_vars =>
          [\A r \in Req, c \in Conv : Moved(r, c) /\ Role[c] = None /\ req[r].pinned # None
                                        => ~Usable(req[r], last[c])]_vars
    <2> SUFFICES ASSUME RouteInv, Next, NEW r \in Req, NEW c \in Conv,
                        Moved(r, c), Role[c] = None, req[r].pinned # None
                 PROVE  ~Usable(req[r], last[c])
      OBVIOUS
    <2> DEFINE q == req[r]
    <2>1. Base /\ TurnPins /\ DOMAIN req = Req /\ DOMAIN last = Conv  BY DEF RouteInv, Base
    <2>2. /\ q.at = "routed" /\ req'[r].at = "sent" /\ q.conv = c /\ last[c] # None
          /\ last'[c] # last[c]
      BY DEF Moved
    <2>3. Lone(q)  BY Zenon DEF Moved, Lone
    <2>4. last[c] = q.pinned  BY <2>1, <2>2, <2>3 DEF TurnPins
    <2>5. Placing(q)  BY <2>1, <2>2 DEF Base
    <2>6. q.pinned \in Model  BY <2>5, Zenon DEF Placing
    <2>7. Decide(r)
      <3>1. CASE \E o \in Req, k \in Conv, size \in Size, image \in BOOLEAN, grade \in Grades :
                   Begin(o, k, size, image, grade)
        <4>1. PICK o \in Req, k \in Conv, size \in Size, image \in BOOLEAN, grade \in Grades :
                Begin(o, k, size, image, grade)
          BY <3>1
        <4>2. req'[o].at = "routed"
              /\ (o # r => IF req[r].at = "routed" /\ req[r].conv = k
                           THEN req'[r].at = "routed" ELSE req'[r] = req[r])
          BY <2>1, <4>1, BeginDoes
        <4> QED  BY <2>2, <4>2
      <3>2. CASE \E o \in Req : Decide(o)
        <4>1. PICK o \in Req : Decide(o)  BY <3>2
        <4>2. PICK winner : Chosen(o, winner)  BY <2>1, <4>1, DecideDoes
        <4>3. o # r => req'[r] = req[r]  BY <2>1, <4>2 DEF Chosen
        <4> QED  BY <2>2, <4>1, <4>3
      <3>3. CASE \E o \in Req, answered \in BOOLEAN : Finish(o, answered)
        <4>1. PICK o \in Req : req' = [req EXCEPT ![o] = Free]  BY <3>3 DEF Finish
        <4>2. req'[r] = req[r] \/ req'[r].at = "free"  BY <2>1, <4>1 DEF Free
        <4> QED  BY <2>2, <4>2
      <3>4. CASE UNCHANGED req  BY <2>2, <3>4
      <3>5. CASE Shift \/ HealthLapses  BY <3>4, <3>5 DEF Shift, HealthLapses
      <3>6. CASE \E p \in LlamaSwap : ViewLapses(p) \/ SlotsLapse(p)
        BY <3>4, <3>6 DEF ViewLapses, SlotsLapse
      <3>7. CASE \E k \in Conv : PinExpires(k)  BY <3>4, <3>7 DEF PinExpires
      <3>8. CASE \E k \in Conv \cup Prefix : BindingExpires(k)  BY <3>4, <3>8 DEF BindingExpires
      <3>9. CASE UNCHANGED routerVars  BY <3>4, <3>9 DEF routerVars
      <3> QED  BY <3>1, <3>2, <3>3, <3>5, <3>6, <3>7, <3>8, <3>9 DEF Next
    <2>8. PICK winner : (Stays(q) => winner = q.pinned) /\ Chosen(r, winner)
      BY <2>1, <2>7, DecideDoes
    <2>9. last'[c] = winner
      <3> DEFINE was == IF q.alone THEN winner ELSE None
      <3>1. last' = [last EXCEPT ![c] = was]  BY <2>2, <2>8, Zenon DEF Chosen
      <3>2. was = winner  BY <2>3, Zenon DEF Lone
      <3> HIDE DEF was
      <3> QED  BY <2>1, <3>1, <3>2
    <2>10. ~Stays(q)  BY <2>2, <2>4, <2>8, <2>9
    <2>11. {q.pinned} \cap Model = {last[c]}  BY <2>4, <2>6
    <2>12. ~(Soft(q, View({last[c]}), SickNow, last[c]) <= 2)
      BY <2>4, <2>10, <2>11 DEF Stays, PinKept
    <2> QED  BY <2>12 DEF Usable, SickNow
  <1> QED  BY <1>1, RouteAlways, PTL DEF Spec, StaysPut

-------------------------------------------------------------------------------
(* The types.                                                              *)

\* The seeds.
LEMMA AutoSeedTyped ==
    ASSUME SeedTypeOK, NEW k \in SeedKey, AutoSeed(k)
    PROVE  SeedTypeOK'
  <1>1. MaxWaiting \in Nat  BY SeedAssumption
  <1>2. CASE UNCHANGED seedVars  BY <1>2 DEF SeedTypeOK, seedVars
  <1>3. CASE /\ waiting[k] < MaxWaiting
             /\ asked' = asked \cup {k}
             /\ waiting' = [waiting EXCEPT ![k] = @ + 1]
             /\ UNCHANGED <<seeding, held>>
    <2>1. waiting[k] + 1 \in 0..MaxWaiting  BY <1>1, <1>3 DEF SeedTypeOK
    <2>2. waiting' \in [SeedKey -> 0..MaxWaiting]  BY <1>3, <2>1 DEF SeedTypeOK
    <2> QED  BY <1>3, <2>2 DEF SeedTypeOK
  <1> QED  BY <1>2, <1>3 DEF AutoSeed

\* Their own steps.
LEMMA SeedStepTyped ==
    ASSUME SeedTypeOK, NEW resident, SeedNext(resident)
    PROVE  SeedTypeOK'
  <1>1. CASE \E k \in SeedKey : TakeSlot(k)
    <2>1. PICK k \in SeedKey : TakeSlot(k)  BY <1>1
    <2>2. waiting[k] - 1 \in 0..MaxWaiting  BY <2>1, SeedAssumption DEF TakeSlot, SeedTypeOK
    <2>3. waiting' \in [SeedKey -> 0..MaxWaiting]  BY <2>1, <2>2 DEF TakeSlot, SeedTypeOK
    <2> QED  BY <2>1, <2>3 DEF TakeSlot, SeedTypeOK
  <1>2. CASE \E k \in SeedKey : Lapse(k)  BY <1>2 DEF Lapse, SeedTypeOK
  <1>3. CASE Seeded(resident) \/ Declined \/ SeedFails
    BY <1>3 DEF Seeded, Declined, SeedFails, SeedTypeOK
  <1> QED  BY <1>1, <1>2, <1>3 DEF SeedNext

\* A seed is asked for or not.
SeedMay == UNCHANGED seedVars \/ \E k \in SeedKey : AutoSeed(k)

\* What may happen to the seeds beside a turn keeps their types.
LEMMA SeedMayTyped == SeedTypeOK /\ SeedMay => SeedTypeOK'
  <1>1. CASE UNCHANGED seedVars  BY <1>1 DEF SeedTypeOK, seedVars
  <1> QED  BY <1>1, AutoSeedTyped DEF SeedMay

\* A local model has a runtime, its first one is what it is named by.
LEMMA HasRuntime ==
    ASSUME NEW m \in Model, Members[m] # <<>> \/ MembersOf(m) # {}
    PROVE  Members[m][1] \in Instance
  <1>1. Members[m] \in Seq(Instance)  BY RangesAssumption
  <1>2. Members[m] # <<>>  BY <1>1 DEF MembersOf, ToSet
  <1> QED  BY <1>1, <1>2

\* A model's members are runtimes.
LEMMA MembersAre == \A m \in Model : MembersOf(m) \subseteq Instance
  <1> SUFFICES ASSUME NEW m \in Model PROVE MembersOf(m) \subseteq Instance  OBVIOUS
  <1>1. Members[m] \in Seq(Instance)  BY RangesAssumption
  <1> QED  BY <1>1 DEF MembersOf, ToSet

\* Where a turn can be bound.
LEMMA SeatsAre ==
    ASSUME NEW c, NEW m \in Model
    PROVE  Seats(c, m) \subseteq Instance \cup {None}
  BY MembersAre DEF Seats

\* The lists are of tiers.
LEMMA ListIsTier ==
    ASSUME NEW q, q.tier \in Tier
    PROVE  ListFor(q) \in Tier
  <1>1. Tier = {"routine", "careful", "hard", "vision"}
    <2>1. ToSet(Tiers) = {"routine", "careful", "hard"}
      <3>1. DOMAIN Tiers = {1, 2, 3}  BY DEF Tiers
      <3>2. Tiers[1] = "routine" /\ Tiers[2] = "careful" /\ Tiers[3] = "hard"  BY DEF Tiers
      <3> HIDE DEF Tiers
      <3> QED  BY <3>1, <3>2 DEF ToSet
    <2> QED  BY <2>1 DEF Tier
  <1>2. \A i \in 1..3 : Tiers[i] \in Tier  BY <1>1 DEF Tiers
  <1>3. ListedTier(q.tier) \in Tier
    <2> DEFINE full == {i \in 1..3 : Lists[Tiers[i]] # <<>>}
               harder == {i \in full : i >= Level(q.tier)}
    <2>1. harder # {} => Min(harder) \in 1..3
      <3> SUFFICES ASSUME harder # {} PROVE Min(harder) \in 1..3  OBVIOUS
      <3>1. harder \in SUBSET Nat /\ harder \subseteq 1..3  OBVIOUS
      <3> HIDE DEF harder
      <3>2. \E i \in harder : \A j \in harder : i <= j  BY <3>1, LeastNat
      <3> QED  BY <3>1, <3>2 DEF Min
    <2>2. full # {} => Max(full) \in 1..3
      <3> SUFFICES ASSUME full # {} PROVE Max(full) \in 1..3  OBVIOUS
      <3>1. full \subseteq 1..3  OBVIOUS
      <3> HIDE DEF full
      <3>2. \E i \in full : \A j \in full : j <= i
        <4>1. CASE 3 \in full  BY <3>1, <4>1
        <4>2. CASE 3 \notin full /\ 2 \in full  BY <3>1, <4>2
        <4>3. CASE 3 \notin full /\ 2 \notin full
          <5>1. PICK i : i \in full  OBVIOUS
          <5>2. i \in 1..3 /\ i # 3 /\ i # 2  BY <3>1, <4>3, <5>1
          <5>3. \A j \in full : j \in 1..3 /\ j # 3 /\ j # 2  BY <3>1, <4>3
          <5>4. i = 1 /\ \A j \in full : j = 1  BY <5>2, <5>3
          <5> QED  BY <5>1, <5>4
        <4> QED  BY <4>1, <4>2, <4>3
      <3> QED  BY <3>1, <3>2 DEF Max
    <2>3. ListedTier(q.tier) = IF harder # {} THEN Tiers[Min(harder)]
                               ELSE IF full # {} THEN Tiers[Max(full)] ELSE q.tier
      BY DEF ListedTier
    <2> HIDE DEF full, harder
    <2> QED  BY <1>2, <2>1, <2>2, <2>3
  <1>4. "vision" \in Tier  BY <1>1
  <1> QED  BY <1>3, <1>4 DEF ListFor

\* A turn is at the place it says it is at.
LEMMA TurnIs ==
    ASSUME NEW q \in Routed \cup Sent \cup {Free}
    PROVE  /\ q.at = "routed" => q \in Routed
           /\ q.at = "sent" => q \in Sent
  <1>1. Free.at = "free"  BY DEF Free
  <1>2. \A p \in Routed : p.at = "routed"  BY DEF Routed
  <1>3. \A p \in Sent : p.at = "sent"  BY DEF Sent
  <1> HIDE DEF Free
  <1> QED  BY <1>1, <1>2, <1>3

\* Another turn began beside it.
LEMMA NotAloneTyped ==
    ASSUME NEW q \in Routed
    PROVE  [q EXCEPT !.alone = FALSE] \in Routed
  BY DEF Routed

\* The size a turn is placed by.
LEMMA SizeTyped ==
    ASSUME NEW size \in Size, NEW c, tokens[c] \in Size \cup {0}
    PROVE  SizeOf(c, size) \in Size \cup Range(Est)
  <1> DEFINE e == Est[size]
             t == tokens[c]
  <1>1. e \in Nat /\ e \in Range(Est) /\ t \in Nat /\ (t = 0 \/ t \in Size)
    <2>1. Est \in [Size -> Nat] /\ Size \subseteq Nat  BY RangesAssumption
    <2>2. e \in Nat  BY <2>1
    <2>3. e \in Range(Est)  BY <2>1 DEF Range
    <2>0. Size \subseteq Nat  BY <2>1
    <2> HIDE DEF e, t
    <2>4. t \in Size \cup {0}  BY DEF t
    <2>5. t \in Nat /\ (t = 0 \/ t \in Size)  BY <2>0, <2>4
    <2> QED  BY <2>2, <2>3, <2>5
  <1>2. SizeOf(c, size) = Max({e, t})  BY DEF SizeOf
  <1> HIDE DEF e, t
  <1>3. \E x \in {e, t} : \A y \in {e, t} : y <= x
    <2>1. CASE e <= t  BY <1>1, <2>1
    <2>2. CASE ~(e <= t)  BY <1>1, <2>2
    <2> QED  BY <2>1, <2>2
  <1>4. Max({e, t}) \in {e, t} /\ e <= Max({e, t})  BY <1>3 DEF Max
  <1>5. CASE t = 0
    <2>1. Max({e, t}) = e  BY <1>1, <1>4, <1>5
    <2> QED  BY <1>1, <1>2, <2>1
  <1> QED  BY <1>1, <1>2, <1>4, <1>5

\* A turn begins.
LEMMA BeginTyped ==
    ASSUME TypeOK, NEW r \in Req, NEW c \in Conv, NEW size \in Size, NEW image \in BOOLEAN,
           NEW grade \in Grades, Begin(r, c, size, image, grade)
    PROVE  TypeOK'
  <1> DEFINE others == {o \in Req : req[o].at = "routed" /\ req[o].conv = c}
             none == others = {}
             tier == IF Role[c] # None THEN Role[c]
                     ELSE IF pin[c] # None THEN pin[c].tier ELSE grade
             n == SizeOf(c, size)
             turn == [at |-> "routed", conv |-> c, size |-> n, real |-> size,
                      billed |-> tokens[c], image |-> image, tier |-> tier,
                      pinned |-> PinOf(c), alone |-> none]
  <1>1. /\ req' = [o \in Req |-> IF o = r THEN turn
                                 ELSE IF o \in others THEN [req[o] EXCEPT !.alone = FALSE]
                                 ELSE req[o]]
        /\ UNCHANGED <<pin, bound, tokens, world, view, health, last, seedVars>>
    BY DEF Begin
  <1>2. /\ SeedTypeOK /\ req \in [Req -> Routed \cup Sent \cup {Free}]
        /\ pin[c] \in Pin \cup {None} /\ tokens[c] \in Size \cup {0}
    BY DEF TypeOK
  <1>3. tier \in Tier
    <2>1. Role[c] \in Tier \cup {None} /\ grade \in Tier  BY RangesAssumption
    <2>2. pin[c] # None => pin[c].tier \in Tier  BY <1>2 DEF Pin
    <2> QED  BY <2>1, <2>2
  <1>4. PinOf(c) \in Model \cup {None}  BY <1>2 DEF PinOf, Pin
  <1>5. n \in Size \cup Range(Est)  BY <1>2, SizeTyped
  <1>6. none \in BOOLEAN  OBVIOUS
  <1> HIDE DEF none, tier, n
  <1>7. turn \in Routed  BY <1>2, <1>3, <1>4, <1>5, <1>6 DEF Routed
  <1> HIDE DEF turn
  <1>8. ASSUME NEW o \in others PROVE [req[o] EXCEPT !.alone = FALSE] \in Routed
    <2>1. req[o] \in Routed  BY <1>2, TurnIs
    <2> QED  BY <2>1, NotAloneTyped
  <1>9. req' \in [Req -> Routed \cup Sent \cup {Free}]
    <2> HIDE DEF others
    <2> DEFINE then(o) == IF o = r THEN turn
                          ELSE IF o \in others THEN [req[o] EXCEPT !.alone = FALSE] ELSE req[o]
    <2>1. ASSUME NEW o \in Req PROVE then(o) \in Routed \cup Sent \cup {Free}
      BY <1>2, <1>7, <1>8
    <2>2. req' = [o \in Req |-> then(o)]  BY <1>1, Zenon
    <2> HIDE DEF then
    <2> QED  BY <2>1, <2>2
  <1> QED  BY <1>1, <1>9 DEF TypeOK, SeedTypeOK, seedVars

\* A list's best is on it.
LEMMA BestTyped ==
    ASSUME NEW q, NEW v, NEW sick, NEW list
    PROVE  LET cands == FlattenSeq(Entries(list))
           IN  /\ cands \in Seq(Model)
               /\ Best(cands, [m \in ToSet(cands) |-> Soft(q, v, sick, m)]) \in Model \cup {None}
  <1> DEFINE cands == FlattenSeq(Entries(list))
             soft == [m \in ToSet(cands) |-> Soft(q, v, sick, m)]
  <1>1. cands \in Seq(Model)
    <2>1. Entries(list) \in Seq(Seq(Model))  BY RouterAssumption DEF Entries
    <2> QED  BY <2>1, FlatIsSeq
  <1> HIDE DEF cands
  <1>2. \A k \in DOMAIN cands : cands[k] \in ToSet(cands)  BY DEF ToSet
  <1>3. \A m \in ToSet(cands) : soft[m] \in Nat  BY Verdicts
  <1> HIDE DEF soft
  <1>4. ASSUME Best(cands, soft) # None PROVE Best(cands, soft) \in Model
    <2>1. PICK k \in DOMAIN cands : Best(cands, soft) = cands[k]
      BY <1>1, <1>2, <1>3, <1>4, BestIsFit
    <2>2. cands[k] \in Model  BY <1>1
    <2> QED  BY <2>1, <2>2
  <1>5. Best(cands, soft) \in Model \cup {None}  BY <1>4
  <1> QED  BY <1>1, <1>5 DEF cands, soft

\* Whoever lost on a cold prefill has a runtime.
LEMMA LosersTyped ==
    ASSUME NEW q, NEW v, NEW sick, NEW cands \in Seq(Model), NEW winner
    PROVE  Losers(q, v, sick, cands, winner) \subseteq Instance
  <1> DEFINE lost == {i \in DOMAIN cands : Yields(q, v, sick, cands[i], winner)}
  <1>1. lost \in SUBSET Nat /\ \A i \in lost : cands[i] \in Model /\ Warm(v, cands[i])
    BY DEF Yields
  <1>2. Losers(q, v, sick, cands, winner) \subseteq IF lost = {} THEN {} ELSE {Members[cands[Min(lost)]][1]}
    BY DEF Losers
  <1> HIDE DEF lost
  <1>3. CASE lost # {}
    <2>1. \E i \in lost : \A j \in lost : i <= j  BY <1>1, <1>3, LeastNat
    <2>2. Min(lost) \in lost  BY <2>1 DEF Min
    <2> DEFINE m == cands[Min(lost)]
    <2>3. m \in Model /\ Warm(v, m)  BY <1>1, <2>2
    <2>4. Members[m][1] \in Instance  BY <2>3, HasRuntime DEF Warm
    <2> QED  BY <1>2, <2>4
  <1> QED  BY <1>2, <1>3

\* What poolAffinity may hold.
Bound == [Conv \cup Prefix -> Instance \cup Model \cup {None}]

\* The runtime that is bound, and the name that is remembered.
LEMMA BindingsTyped ==
    ASSUME NEW known \in Bound, NEW c \in Conv, NEW m, NEW i \in Instance
    PROVE  Bindings(c, m, i, known) \in Bound
  <1>1. HeadOf[c] \in Prefix  BY RouterAssumption
  <1>2. [known EXCEPT ![c] = i] \in Bound  BY DEF Bound
  <1>3. \A f \in Bound : [f EXCEPT ![HeadOf[c]] = IF m \in Pools /\ @ \notin MembersOf(m) THEN i ELSE @] \in Bound
    BY <1>1 DEF Bound
  <1> QED  BY <1>2, <1>3 DEF Bindings

\* rememberPrefix binds a head to a runtime or to the name of a pool.
LEMMA RememberTyped ==
    ASSUME bound \in Bound, NEW q, q.conv \in Conv, NEW v, NEW winner \in Model \cup {None}, NEW kept,
           NEW list, Remembers(q, v, winner, kept, list)
    PROVE  [bound EXCEPT ![HeadOf[q.conv]] = NameOf(winner)] \in Bound
  <1>1. HeadOf[q.conv] \in Prefix  BY RouterAssumption
  <1>2. winner \in Model /\ ProviderOf[winner] \in LlamaSwap  BY DEF Remembers, Local
  <1>3. Members[winner][1] \in Instance
    <2>1. Members[winner] # <<>>  BY <1>2, RouterAssumption
    <2> QED  BY <1>2, <2>1, HasRuntime
  <1>4. NameOf(winner) \in Instance \cup Model  BY <1>2, <1>3 DEF NameOf
  <1> QED  BY <1>1, <1>4 DEF Bound

\* The choice is made.
LEMMA DecideTyped ==
    ASSUME TypeOK, NEW r \in Req, Decide(r)
    PROVE  TypeOK'
  <1> DEFINE q == req[r]
             c == q.conv
             list == ListFor(q)
             cands == FlattenSeq(Entries(list))
             kept == Stays(q)
             v == View(({q.pinned} \cap Model) \cup IF kept THEN {} ELSE ToSet(cands))
             soft == [m \in ToSet(cands) |-> Soft(q, v, SickNow, m)]
             winner == IF kept THEN q.pinned ELSE Best(cands, soft)
             seed == IF kept THEN {} ELSE Losers(q, v, SickNow, cands, winner)
             known == IF Remembers(q, v, winner, kept, list)
                      THEN [bound EXCEPT ![HeadOf[c]] = NameOf(winner)] ELSE bound
             put == [model |-> winner, tier |-> list]
             was == IF q.alone THEN winner ELSE None
             gone == /\ ~kept /\ winner # None /\ ~Local(v, winner)
                     /\ \E m \in ToSet(cands) : Yields(q, v, SickNow, m, winner)
             to == IF winner = None THEN Default ELSE winner
  <1>1. /\ q.at = "routed"
        /\ health' = SickNow
        /\ pin' = IF Puts(q, winner) THEN [pin EXCEPT ![c] = put] ELSE pin
        /\ last' = [last EXCEPT ![c] = was]
        /\ UNCHANGED <<tokens, world>>
    BY DEF Decide, Stays, SickNow
  <1>2. IF seed = {} THEN UNCHANGED seedVars ELSE \E i \in seed : AutoSeed(<<HeadOf[c], i>>)
    BY DEF Decide, Stays, SickNow
  <1>3. PICK i \in IF winner = None THEN {None} ELSE Seats(c, winner) :
          /\ bound' = IF i = None THEN known ELSE Bindings(c, winner, i, known)
          /\ req' = [req EXCEPT ![r] =
               [at |-> "sent", conv |-> c, real |-> q.real, billed |-> q.billed,
                image |-> q.image, chosen |-> to,
                miss |-> IF bound[c] = i \/ <<HeadOf[c], i>> \in held THEN None ELSE i,
                yielded |-> gone]]
    BY DEF Decide, Stays, SickNow
  <1>4. /\ SeedTypeOK /\ req \in [Req -> Routed \cup Sent \cup {Free}]
        /\ pin \in [Conv -> Pin \cup {None}] /\ bound \in Bound
        /\ tokens \in [Conv -> Size \cup {0}] /\ world \in World
        /\ health \in (SUBSET Model) \cup {None} /\ last \in [Conv -> Model \cup {None}]
    BY DEF TypeOK, Bound
  <1>5. q \in Routed  BY <1>1, <1>4, TurnIs
  <1>6. /\ c \in Conv /\ q.real \in Size /\ q.billed \in Size \cup {0} /\ q.image \in BOOLEAN
        /\ q.tier \in Tier /\ q.pinned \in Model \cup {None}
    BY <1>5 DEF Routed
  <1>7. HeadOf[c] \in Prefix  BY <1>6, RouterAssumption
  <1>8. cands \in Seq(Model) /\ Best(cands, soft) \in Model \cup {None}  BY BestTyped
  <1>9. winner \in Model \cup {None}
    <2> HIDE DEF cands, soft, kept
    <2> QED  BY <1>6, <1>8
  <1>10. list \in Tier  BY <1>6, ListIsTier
  <1>11. seed \subseteq Instance
    <2> HIDE DEF cands, v, winner
    <2> QED  BY <1>8, LosersTyped
  <1>12. SeedTypeOK'
    <2> HIDE DEF seed, q
    <2>1. \A k \in seed : <<HeadOf[c], k>> \in SeedKey  BY <1>7, <1>11 DEF SeedKey
    <2>2. SeedMay  BY <1>2, <2>1 DEF SeedMay
    <2> QED  BY <1>4, <2>2, SeedMayTyped
  <1>13. known \in Bound
    <2> HIDE DEF winner, v, kept, list
    <2> QED  BY <1>4, <1>6, <1>9, RememberTyped
  <1>14. i \in Instance \cup {None}
    <2> HIDE DEF winner
    <2> QED  BY <1>3, <1>9, SeatsAre
  <1>15. bound' \in Bound
    <2> HIDE DEF winner, known, q
    <2>1. CASE i = None  BY <1>3, <1>13, <2>1
    <2>2. CASE i # None
      <3>1. i \in Instance  BY <1>14, <2>2
      <3>2. Bindings(c, winner, i, known) \in Bound  BY <1>6, <1>13, <3>1, BindingsTyped
      <3> QED  BY <1>3, <2>2, <3>2
    <2> QED  BY <2>1, <2>2
  <1>16. req' \in [Req -> Routed \cup Sent \cup {Free}]
    <2> DEFINE miss == IF bound[c] = i \/ <<HeadOf[c], i>> \in held THEN None ELSE i
               picture == q.image
               real == q.real
               billed == q.billed
               sent == [at |-> "sent", conv |-> c, real |-> real, billed |-> billed,
                        image |-> picture, chosen |-> to, miss |-> miss, yielded |-> gone]
    <2>1. req' = [req EXCEPT ![r] = sent]  BY <1>3
    <2>2. miss \in Instance \cup {None}  BY <1>14
    <2>3. gone \in BOOLEAN  OBVIOUS
    <2>4. to \in Model \cup {Default}
      <3> HIDE DEF winner
      <3> QED  BY <1>9
    <2>5. c \in Conv /\ real \in Size /\ billed \in Size \cup {0} /\ picture \in BOOLEAN  BY <1>6
    <2> HIDE DEF miss, picture, real, billed, to, gone, c
    <2>6. sent \in Sent  BY <2>2, <2>3, <2>4, <2>5 DEF Sent
    <2> HIDE DEF sent
    <2> QED  BY <1>4, <2>1, <2>6
  <1>17. pin' \in [Conv -> Pin \cup {None}]
    <2> HIDE DEF winner, list, q
    <2>1. Puts(q, winner) => put \in Pin  BY <1>9, <1>10 DEF Puts, Pin
    <2> HIDE DEF put
    <2> QED  BY <1>1, <1>4, <1>6, <2>1
  <1>18. last' \in [Conv -> Model \cup {None}]
    <2> HIDE DEF winner, q
    <2>1. was \in Model \cup {None}  BY <1>9
    <2> HIDE DEF was
    <2> QED  BY <1>1, <1>4, <1>6, <2>1
  <1>19. health' \in (SUBSET Model) \cup {None}  BY <1>1, <1>4 DEF SickNow, World
  <1>20. tokens' \in [Conv -> Size \cup {0}] /\ world' \in World  BY <1>1, <1>4
  <1> QED  BY <1>12, <1>15, <1>16, <1>17, <1>18, <1>19, <1>20 DEF TypeOK, Bound

\* A turn ends.
LEMMA FinishTyped ==
    ASSUME TypeOK, NEW r \in Req, NEW answered \in BOOLEAN, Finish(r, answered)
    PROVE  TypeOK'
  <1> DEFINE q == req[r]
  <1>1. /\ q.at = "sent" /\ req' = [req EXCEPT ![r] = Free]
        /\ tokens' = IF answered /\ q.chosen # Default THEN [tokens EXCEPT ![q.conv] = q.real] ELSE tokens
        /\ IF answered /\ q.miss # None THEN AutoSeed(<<HeadOf[q.conv], q.miss>>) ELSE UNCHANGED seedVars
        /\ UNCHANGED <<pin, bound, world, view, health, last>>
    BY DEF Finish
  <1>2. /\ SeedTypeOK /\ req \in [Req -> Routed \cup Sent \cup {Free}]
        /\ tokens \in [Conv -> Size \cup {0}]
    BY DEF TypeOK
  <1>3. q \in Sent  BY <1>1, <1>2, TurnIs
  <1>4. q.conv \in Conv /\ q.real \in Size /\ q.miss \in Instance \cup {None}  BY <1>3 DEF Sent
  <1> HIDE DEF q
  <1>5. HeadOf[q.conv] \in Prefix  BY <1>4, RouterAssumption
  <1>6. SeedTypeOK'
    <2>1. q.miss # None => <<HeadOf[q.conv], q.miss>> \in SeedKey  BY <1>4, <1>5 DEF SeedKey
    <2>2. SeedMay  BY <1>1, <2>1 DEF SeedMay
    <2> QED  BY <1>2, <2>2, SeedMayTyped
  <1>7. tokens' \in [Conv -> Size \cup {0}]  BY <1>1, <1>2, <1>4
  <1>8. req' \in [Req -> Routed \cup Sent \cup {Free}]  BY <1>1, <1>2
  <1> QED  BY <1>1, <1>6, <1>7, <1>8 DEF TypeOK

\* The world changes within its kinds.
LEMMA ShiftTyped == ASSUME TypeOK, Shift PROVE TypeOK'
  <1>1. world \in World /\ Shaky \in World  BY RangesAssumption DEF TypeOK
  <1>2. ASSUME NEW S, NEW T \in SUBSET S, NEW e \in S PROVE Flip(T, e) \in SUBSET S  BY DEF Flip
  <1>3. world' \in World
    <2>1. CASE \E i \in Shaky.ready : world' = [world EXCEPT !.ready = Flip(@, i)]
      <3>1. PICK i \in Shaky.ready : world' = [world EXCEPT !.ready = Flip(@, i)]  BY <2>1
      <3>2. Flip(world.ready, i) \in SUBSET Instance  BY <1>1, <1>2 DEF World
      <3> QED  BY <1>1, <3>1, <3>2 DEF World
    <2>2. CASE \E i \in Shaky.full : world' = [world EXCEPT !.full = Flip(@, i)]
      <3>1. PICK i \in Shaky.full : world' = [world EXCEPT !.full = Flip(@, i)]  BY <2>2
      <3>2. Flip(world.full, i) \in SUBSET Instance  BY <1>1, <1>2 DEF World
      <3> QED  BY <1>1, <3>1, <3>2 DEF World
    <2>3. CASE \E p \in Shaky.mute : world' = [world EXCEPT !.mute = Flip(@, p)]
      <3>1. PICK p \in Shaky.mute : world' = [world EXCEPT !.mute = Flip(@, p)]  BY <2>3
      <3>2. Flip(world.mute, p) \in SUBSET LlamaSwap  BY <1>1, <1>2 DEF World
      <3> QED  BY <1>1, <3>1, <3>2 DEF World
    <2>4. CASE \E m \in Shaky.sick : world' = [world EXCEPT !.sick = Flip(@, m)]
      <3>1. PICK m \in Shaky.sick : world' = [world EXCEPT !.sick = Flip(@, m)]  BY <2>4
      <3>2. Flip(world.sick, m) \in SUBSET Model  BY <1>1, <1>2 DEF World
      <3> QED  BY <1>1, <3>1, <3>2 DEF World
    <2>5. CASE \E m \in Shaky.served : world' = [world EXCEPT !.served = Flip(@, m)]
      <3>1. PICK m \in Shaky.served : world' = [world EXCEPT !.served = Flip(@, m)]  BY <2>5
      <3>2. Flip(world.served, m) \in SUBSET Model  BY <1>1, <1>2 DEF World
      <3> QED  BY <1>1, <3>1, <3>2 DEF World
    <2> QED  BY <2>1, <2>2, <2>3, <2>4, <2>5 DEF Shift
  <1>4. UNCHANGED <<req, pin, bound, tokens, view, health, last, seedVars>>  BY DEF Shift
  <1> QED  BY <1>3, <1>4 DEF TypeOK, SeedTypeOK, seedVars

\* smartroute.go, handleCore, kvxseed.go: turns, pins, bindings, counts and caches have
\* their types in every state, for any lists of models and any runtimes; the goroutines
\* that wait with one key are not more than are let in, and only keys of a head and a
\* runtime are ever asked for.
THEOREM TypeCorrect == Spec => []TypeOK
  <1>1. Init => TypeOK
    <2> SUFFICES ASSUME Init PROVE TypeOK  OBVIOUS
    <2>1. SeedTypeOK  BY SeedAssumption DEF Init, SeedInit, SeedTypeOK
    <2>2. world \in World
      <3> DEFINE w == [ready |-> Instance, full |-> {}, mute |-> {}, sick |-> {}, served |-> Model]
      <3>1. w \in World  BY DEF World
      <3>2. world = w  BY DEF Init
      <3> QED  BY <3>1, <3>2
    <2>3. /\ req \in [Req -> Routed \cup Sent \cup {Free}] /\ pin \in [Conv -> Pin \cup {None}]
          /\ bound \in [Conv \cup Prefix -> Instance \cup Model \cup {None}]
          /\ tokens \in [Conv -> Size \cup {0}] /\ last \in [Conv -> Model \cup {None}]
          /\ health \in (SUBSET Model) \cup {None}
      BY DEF Init
    <2> QED  BY <2>1, <2>2, <2>3 DEF TypeOK
  <1>2. TypeOK /\ [Next]_vars => TypeOK'
    <2> SUFFICES ASSUME TypeOK, [Next]_vars PROVE TypeOK'  OBVIOUS
    <2>1. CASE \E r \in Req, c \in Conv, size \in Size, image \in BOOLEAN, grade \in Grades :
                 Begin(r, c, size, image, grade)
      BY <2>1, BeginTyped
    <2>2. CASE \E r \in Req : Decide(r)  BY <2>2, DecideTyped
    <2>3. CASE \E r \in Req : \E answered \in BOOLEAN : Finish(r, answered)  BY <2>3, FinishTyped
    <2>4. CASE Shift  BY <2>4, ShiftTyped
    <2>5. CASE HealthLapses  BY <2>5 DEF HealthLapses, TypeOK, SeedTypeOK, seedVars
    <2>6. CASE \E p \in LlamaSwap : ViewLapses(p) \/ SlotsLapse(p)
      BY <2>6 DEF ViewLapses, SlotsLapse, TypeOK, SeedTypeOK, seedVars
    <2>7. CASE \E c \in Conv : PinExpires(c)
      <3>1. PICK c \in Conv : PinExpires(c)  BY <2>7
      <3>2. pin' \in [Conv -> Pin \cup {None}]  BY <3>1 DEF PinExpires, TypeOK
      <3> QED  BY <3>1, <3>2 DEF PinExpires, TypeOK, SeedTypeOK, seedVars
    <2>8. CASE \E k \in Conv \cup Prefix : BindingExpires(k)
      <3>1. PICK k \in Conv \cup Prefix : BindingExpires(k)  BY <2>8
      <3>2. bound' \in [Conv \cup Prefix -> Instance \cup Model \cup {None}]
        BY <3>1 DEF BindingExpires, TypeOK
      <3> QED  BY <3>1, <3>2 DEF BindingExpires, TypeOK, SeedTypeOK, seedVars
    <2>9. CASE SeedNext(world.ready) /\ UNCHANGED routerVars
      <3>1. SeedTypeOK'  BY <2>9, SeedStepTyped DEF TypeOK
      <3> QED  BY <2>9, <3>1 DEF TypeOK, routerVars
    <2>10. CASE UNCHANGED vars  BY <2>10 DEF vars, routerVars, seedVars, TypeOK, SeedTypeOK
    <2> QED  BY <2>1, <2>2, <2>3, <2>4, <2>5, <2>6, <2>7, <2>8, <2>9, <2>10 DEF Next
  <1> QED  BY <1>1, <1>2, PTL DEF Spec
===============================================================================
