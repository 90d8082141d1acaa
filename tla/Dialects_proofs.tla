---------------------------- MODULE Dialects_proofs ----------------------------
(***************************************************************************)
(* Theorems about the two directions of internal/wire.  A reply: how it    *)
(* ends for its client, what the trace has of it, the blocks of an         *)
(* Anthropic stream, and that the client has what was said.  A request:    *)
(* its room for thinking, the results that follow their calls, the         *)
(* beginning it shares with the one before it, and that nothing said in it *)
(* is lost.                                                                *)
(***************************************************************************)
EXTENDS StreamDialects, RequestDialects, FiniteSetTheorems, WellFoundedInduction, TLAPS

-------------------------------------------------------------------------------
(* How a reply ends: its reason and its token counts.                        *)

\* What was said and what the reader keeps are records that keep their fields.
Shaped ==
    /\ DOMAIN said = {"text", "thought", "args", "started", "open", "hurt", "mixed", "why", "failed"}
    /\ DOMAIN rd = {"copy", "seen", "over", "finish", "usage"}
    /\ said.started \in Nat /\ said.why \in Reasons \union {"none"} /\ rd.finish \in Reasons \union {"none"}
    /\ mode \in {"stream", "whole", "raw"}

\* The reader has both counts once it has the reason, and of a reply that was cut
\* it has the word, unless its calls hide it.
ReasonHeard ==
    /\ said.why = "none" /\ rd.finish = "tool_calls" => said.started > 0
    /\ said.why # "none" => rd.usage = {"input", "output"}
    /\ said.why = "none" => rd.usage = NewReader(from).usage
    /\ said.why = "length" =>
          \/ rd.finish = "length"
          \/ said.started > 0 /\ (from = "responses" \/ (from = "ollama" /\ mode = "whole"))

EndInv == Shaped /\ ReasonHeard /\ CutShown /\ UsageNoted

\* A reply that goes on has not ended for the client.
LEMMA GoesOn == told = "none" => CutShown /\ UsageNoted
  BY DEF CutShown, UsageNoted, Success, Reasons

\* Whatever the upstream says more, but for its reason.
LEMMA SaysMore ==
    ASSUME EndInv, Saying, UNCHANGED <<from, to, mode, told>>,
           DOMAIN said' = DOMAIN said, DOMAIN rd' = DOMAIN rd,
           said'.why = said.why, said'.started \in Nat, said'.started >= said.started,
           rd'.usage = rd.usage,
           rd'.finish = rd.finish \/ (rd'.finish = "tool_calls" /\ said'.started > 0)
    PROVE  EndInv'
  <1>1. told = "none" /\ said.why = "none" BY DEF Saying
  <1>2. Shaped' BY DEF EndInv, Shaped, Reasons
  <1>3. said.started \in Nat BY DEF EndInv, Shaped
  <1>4. ReasonHeard' BY <1>1, <1>3 DEF EndInv, ReasonHeard, NewReader
  <1>5. CutShown' /\ UsageNoted'
    BY <1>1 DEF CutShown, UsageNoted, Success, Reasons
  <1> QED BY <1>2, <1>4, <1>5 DEF EndInv

\* Once the body has ended nothing is said.
LEMMA EndsAsHeard ==
    ASSUME EndInv, UNCHANGED <<from, to, mode, said, rd>>,
           \/ told' = Tell(EndReason) /\ noted' = Counts /\ mode # "raw"
           \/ told' = "verbatim" /\ noted' = Scanned
           \/ told' \in {"error", "nothing"}
    PROVE  EndInv'
  <1>1. Shaped' /\ ReasonHeard' BY DEF EndInv, Shaped, ReasonHeard, NewReader
  <1>2. CutShown'
    BY DEF EndInv, ReasonHeard, CutShown, Success, Reasons, Tell, EndReason
  <1>3. UsageNoted'
    <2>1. CASE told' = Tell(EndReason) /\ noted' = Counts
      <3>1. told' # "verbatim"
        BY <2>1 DEF EndInv, Shaped, Tell, EndReason, Reasons
      <3> QED BY <2>1, <3>1 DEF EndInv, ReasonHeard, UsageNoted, Success, Counts
    <2>2. CASE told' = "verbatim" /\ noted' = Scanned
      BY <2>2 DEF EndInv, ReasonHeard, UsageNoted, Success, Reasons, Scanned
    <2>3. CASE told' \in {"error", "nothing"}
      BY <2>3 DEF UsageNoted, Success, Reasons
    <2> QED BY <2>1, <2>2, <2>3
  <1> QED BY <1>1, <1>2, <1>3 DEF EndInv

\* Every step keeps the end in view.
LEMMA EndStep == EndInv /\ [Next]_vars => EndInv'
  <1> SUFFICES ASSUME EndInv, [Next]_vars PROVE EndInv' OBVIOUS
  <1>0. DOMAIN said = {"text", "thought", "args", "started", "open", "hurt", "mixed", "why", "failed"}
        /\ DOMAIN rd = {"copy", "seen", "over", "finish", "usage"} /\ said.started \in Nat
        /\ mode \in {"stream", "whole", "raw"}
    BY DEF EndInv, Shaped
  <1>1. CASE UNCHANGED vars
    BY <1>1 DEF vars, EndInv, Shaped, ReasonHeard, NewReader, CutShown, UsageNoted, Success
  <1>2. CASE SayText \/ SayThought
    <2>1. Saying /\ UNCHANGED <<from, to, mode, told, rd>>
          /\ DOMAIN said' = DOMAIN said /\ said'.started = said.started /\ said'.why = said.why
      BY <1>0, <1>2 DEF SayText, SayThought
    <2> QED BY <1>0, <2>1, SaysMore
  <1>3. CASE StartCall
    <2>1. Saying /\ UNCHANGED <<from, to, mode, told>> /\ said' = [said EXCEPT !.started = @ + 1, !.open = said.started + 1]
          /\ rd' = IF from = "responses" THEN [rd EXCEPT !.finish = "tool_calls"] ELSE rd
      BY <1>3 DEF StartCall
    <2>2. said'.started = said.started + 1 /\ said'.why = said.why /\ DOMAIN said' = DOMAIN said
      BY <1>0, <2>1
    <2>3. DOMAIN rd' = DOMAIN rd /\ rd'.usage = rd.usage /\ rd'.finish \in {rd.finish, "tool_calls"}
      BY <1>0, <2>1
    <2>4. said'.started \in Nat /\ said'.started >= said.started /\ said'.started > 0 BY <1>0, <2>2
    <2> QED BY <2>1, <2>2, <2>3, <2>4, SaysMore
  <1>4. CASE SayCall
    <2>1. Saying /\ UNCHANGED <<from, to, mode, told>>
          /\ DOMAIN said' = DOMAIN said /\ said'.started = said.started + 1 /\ said'.why = said.why
          /\ DOMAIN rd' = DOMAIN rd /\ rd'.usage = rd.usage
      BY <1>0, <1>4 DEF SayCall
    <2>2. said'.started \in Nat /\ said'.started >= said.started /\ said'.started > 0 BY <1>0, <2>1
    <2>3. rd'.finish = "tool_calls" BY <1>0, <1>4 DEF SayCall
    <2> QED BY <2>1, <2>2, <2>3, SaysMore
  <1>5. ASSUME NEW c \in CallId, SayArgs(c) PROVE EndInv'
    <2>1. Saying /\ UNCHANGED <<from, to, mode, told>>
          /\ DOMAIN said' = DOMAIN said /\ said'.started = said.started /\ said'.why = said.why
          /\ DOMAIN rd' = DOMAIN rd /\ rd'.usage = rd.usage /\ rd'.finish = rd.finish
      BY <1>0, <1>5 DEF SayArgs
    <2> QED BY <1>0, <2>1, SaysMore
  <1>6. ASSUME NEW c \in CallId, EndCall(c) PROVE EndInv'
    <2>1. Saying /\ UNCHANGED <<from, to, mode, told>>
          /\ DOMAIN said' = DOMAIN said /\ said'.started = said.started /\ said'.why = said.why
          /\ DOMAIN rd' = DOMAIN rd /\ rd'.usage = rd.usage /\ rd'.finish = rd.finish
      BY <1>0, <1>6 DEF EndCall
    <2> QED BY <1>0, <2>1, SaysMore
  <1>7. ASSUME NEW why \in Reasons, SayWhy(why) PROVE EndInv'
    <2>1. /\ told = "none" /\ said.why = "none" /\ UNCHANGED <<from, to, mode, told>>
          /\ DOMAIN said' = DOMAIN said /\ said'.why = why /\ said'.started = said.started
          /\ DOMAIN rd' = DOMAIN rd /\ rd'.finish = FinishOf(why)
          /\ rd'.usage = rd.usage \union (IF from = "anthropic" THEN {"output"} ELSE {"input", "output"})
      BY <1>0, <1>7 DEF SayWhy, Saying
    <2>2. Shaped'
      <3>1. FinishOf(why) \in {why, rd.finish, "length"} BY DEF FinishOf
      <3> QED BY <1>0, <2>1, <3>1 DEF Shaped, EndInv, Reasons
    <2>3. rd'.usage = {"input", "output"}
      BY <2>1 DEF EndInv, ReasonHeard, NewReader
    <2>4. why = "length" =>
            \/ rd'.finish = "length"
            \/ said'.started > 0 /\ (from = "responses" \/ (from = "ollama" /\ mode = "whole"))
      BY <2>1 DEF FinishOf, EndInv, ReasonHeard
    <2>5. ReasonHeard' BY <2>1, <2>3, <2>4 DEF ReasonHeard, Reasons
    <2>6. CutShown' /\ UsageNoted' BY <2>1 DEF CutShown, UsageNoted, Success, Reasons
    <2> QED BY <2>2, <2>5, <2>6 DEF EndInv
  <1>8. CASE SayError
    BY <1>0, <1>8, SaysMore DEF SayError
  <1>9. CASE Close \/ Cut
    <2>1. UNCHANGED <<from, to, mode, said, rd>> BY <1>9 DEF Close, Cut
    <2>2. TellError \in {"error", "nothing"} BY DEF TellError
    <2>3. CASE Cut BY <2>1, <2>2, <2>3, EndsAsHeard DEF Cut, Broken
    <2>4. CASE Close
      <3>1. \/ told' = Tell(EndReason) /\ noted' = Counts /\ mode # "raw"
            \/ told' = "verbatim" /\ noted' = Scanned
            \/ told' = TellError
        BY <1>0, <2>4 DEF Close, Broken, ErrorHeard
      <3> QED BY <2>1, <2>2, <3>1, EndsAsHeard
    <2> QED BY <1>9, <2>3, <2>4
  <1> QED BY <1>1, <1>2, <1>3, <1>4, <1>5, <1>6, <1>7, <1>8, <1>9 DEF Next

\* It is in view at the beginning.
LEMMA EndBegins == Init => EndInv
  <1> SUFFICES ASSUME Init PROVE EndInv OBVIOUS
  <1>1. Shaped BY DialectsAssumption DEF Init, Shaped, NewReader, Reasons
  <1>2. ReasonHeard BY DEF Init, ReasonHeard, NewReader
  <1>3. told = "none" BY DEF Init
  <1> QED BY <1>1, <1>2, <1>3, GoesOn DEF EndInv

\* A reply cut at its length is told as one, whatever the two dialects, but
\* where the dialect has no word for it or its calls hide it: the readers'
\* finish, the writers' stop reasons.
THEOREM CutIsShown == Spec => []CutShown
  <1>1. EndInv => CutShown BY DEF EndInv
  <1> QED BY <1>1, EndBegins, EndStep, PTL DEF Spec

\* The trace of a reply that got through has both of its token counts, but of
\* an Anthropic stream passed on raw: usageFromStreamLine and the readers.
THEOREM UsageIsNoted == Spec => []UsageNoted
  <1>1. EndInv => UsageNoted BY DEF EndInv
  <1> QED BY <1>1, EndBegins, EndStep, PTL DEF Spec

-------------------------------------------------------------------------------
(* Thinking.                                                                 *)

\* What a client can ask for, and that the request is made from it.
Asked == /\ ask.effort \in {"none", "low", "medium", "high", "xhigh"}
         /\ ask.budget \in Nat /\ ask.max \in Nat
         /\ ask.effort # "none" => ask.budget = 0
         /\ client # "anthropic" => ask.budget = 0
ThinkInv == Asked /\ (Sent => req.think = Think)

\* A request made from an effort, any there is, has room for an answer beside its
\* thinking, and the tier made from a budget, however large, holds it or is the highest:
\* BuildAnthropicRequest, BuildOpenAIRequest, BuildResponsesRequest.
THEOREM ThoughtHasRoom == RequestSpec => []ThinkingFits
  <1>1. RequestInit => ThinkInv
    <2> SUFFICES ASSUME RequestInit PROVE ThinkInv OBVIOUS
    <2>1. Asked
      <3> DEFINE E == IF client = "anthropic" THEN {"none"} ELSE AskedEfforts
                 B == IF client = "anthropic" THEN AskedBudgets ELSE {0}
      <3>1. ask \in [effort : E, budget : B, max : AskedMax] BY DEF RequestInit
      <3>2. ask.effort \in E /\ ask.budget \in B /\ ask.max \in AskedMax
        <4> HIDE DEF E, B
        <4> QED BY <3>1
      <3>3. CASE client = "anthropic"
        <4>1. ask.effort = "none" /\ ask.budget \in AskedBudgets BY <3>2, <3>3
        <4> QED BY <3>2, <3>3, <4>1, RequestAssumption DEF Asked
      <3>4. CASE client # "anthropic"
        <4>1. ask.effort \in AskedEfforts /\ ask.budget = 0 BY <3>2, <3>4
        <4>2. ask.effort \in {"none", "low", "medium", "high", "xhigh"}
          BY <4>1, RequestAssumption, Zenon
        <4>3. ask.max \in Nat BY <3>2, RequestAssumption, Zenon
        <4> QED BY <3>4, <4>1, <4>2, <4>3 DEF Asked
      <3> QED BY <3>3, <3>4
    <2>2. ~Sent BY DEF RequestInit, Sent, Unsent
    <2> QED BY <2>1, <2>2 DEF ThinkInv
  <1>2. ThinkInv /\ [RequestNext]_requestVars => ThinkInv'
    <2> SUFFICES ASSUME ThinkInv, [RequestNext]_requestVars PROVE ThinkInv' OBVIOUS
    <2>1. ASSUME UNCHANGED <<client, upstream, ask, req>> PROVE ThinkInv'
      <3>1. Think' = Think BY <2>1 DEF Think
      <3> QED BY <2>1, <3>1 DEF ThinkInv, Asked, Sent
    <2>2. CASE Send
      <3>1. UNCHANGED <<client, upstream, ask>> /\ req' = Request(hist) BY <2>2 DEF Send
      <3>2. Sent' => req'.think = Think BY <3>1 DEF Request, Refused, Sent
      <3>3. Think' = Think BY <3>1 DEF Think
      <3> QED BY <3>1, <3>2, <3>3 DEF ThinkInv, Asked
    <2> QED BY <2>1, <2>2 DEF RequestNext, requestVars, UserSays, AssistantSays, ToolAnswers, SystemSays, Grow
  <1>3. ThinkInv => ThinkingFits
    <2> SUFFICES ASSUME ThinkInv, Sent PROVE ThinkingFits BY DEF ThinkingFits
    <2>1. req.think = Think /\ Asked BY DEF ThinkInv
    <2>2. Budget.low = 2048 /\ Budget.medium = 8192 /\ Budget.high = 16384 /\ Budget.xhigh = 24576
          /\ DOMAIN Budget = {"low", "medium", "high", "xhigh"}
      BY DEF Budget
    <2>3. CASE upstream = "anthropic" /\ ask.effort # "none"
      <3> DEFINE e == Budget[ask.effort]
      <3>1. e \in Nat /\ e > 0 /\ ask.effort \in DOMAIN Budget BY <2>1, <2>2, <2>3 DEF Asked
      <3>2. req.think.budget = e /\ req.think.max = FitMax(ask.max, e)
        BY <2>1, <2>3, <3>1 DEF Think, Asked
      <3> HIDE DEF e
      <3>3. FitMax(ask.max, e) > e BY <2>1, <3>1 DEF FitMax, Asked
      <3> QED BY <2>3, <3>2, <3>3 DEF ThinkingFits, e
    <2>4. CASE upstream \in {"openai", "responses"} /\ ask.budget > 0
      <3>1. ask.budget \in Nat /\ ask.effort = "none" BY <2>1, <2>4 DEF Asked
      <3>2. req.think.effort = Tier(ask.budget) BY <2>1, <2>4, <3>1 DEF Think
      <3>3. Tier(ask.budget) = IF ask.budget <= 2048 THEN "low"
                               ELSE IF ask.budget <= 8192 THEN "medium" ELSE "high"
        BY <2>4, <3>1 DEF Tier
      <3> QED BY <2>2, <2>4, <3>1, <3>2, <3>3 DEF ThinkingFits
    <2> QED BY <2>3, <2>4 DEF ThinkingFits
  <1> QED BY <1>1, <1>2, <1>3, PTL DEF RequestSpec

-------------------------------------------------------------------------------
(* The blocks of an Anthropic reply.                                         *)

\* A frame of an Anthropic stream; how many of a kind come before i; and where a
\* frame may stand after so many starts and stops.
AFrame == [kind : {"start", "stop", "signature", "text", "reason", "call"}, at : Int, id : Nat, piece : Seq(Int)]

Number(s, kind, i) == Cardinality({j \in 1..i : s[j].kind = kind})
InPlace(f, opened, shut) ==
    IF f.kind = "start" THEN f.at = opened /\ shut = opened
    ELSE f.at = opened - 1 /\ shut = opened - 1

\* The frames s are in their blocks, of which the last is numbered block; it is
\* open unless open is "none".
Nested(s, block, open) ==
    /\ s \in Seq(AFrame) /\ block \in Int
    /\ \A i \in 1..Len(s) : InPlace(s[i], Number(s, "start", i - 1), Number(s, "stop", i - 1))
    /\ Number(s, "start", Len(s)) = block + 1
    /\ Number(s, "stop", Len(s)) = IF open = "none" THEN block + 1 ELSE block

\* The blocks that were opened for call c.
Starts(s, c) == {i \in 1..Len(s) : s[i].kind = "start" /\ s[i].id = c}

\* A frame at the end.
LEMMA Appending ==
    ASSUME NEW s \in Seq(AFrame), NEW f \in AFrame
    PROVE  /\ Append(s, f) \in Seq(AFrame) /\ Len(Append(s, f)) = Len(s) + 1 /\ Len(s) \in Nat
           /\ Append(s, f)[Len(s) + 1] = f
           /\ \A i \in 1..Len(s) : Append(s, f)[i] = s[i]
           /\ s \o <<f>> = Append(s, f)
  OBVIOUS

\* One frame more is one of its kind more.
LEMMA OneMoreFrame ==
    ASSUME NEW s \in Seq(AFrame), NEW f \in AFrame, NEW kind
    PROVE  /\ \A i \in 0..Len(s) : Number(Append(s, f), kind, i) = Number(s, kind, i)
           /\ Number(s, kind, Len(s)) \in Nat
           /\ Number(Append(s, f), kind, Len(s) + 1)
                = Number(s, kind, Len(s)) + (IF f.kind = kind THEN 1 ELSE 0)
  <1> DEFINE t == Append(s, f)
             m == Len(s)
             A == {j \in 1..m : s[j].kind = kind}
             B == {j \in 1..(m + 1) : t[j].kind = kind}
  <1>1. m \in Nat /\ t[m + 1] = f /\ \A i \in 1..m : t[i] = s[i] BY Appending
  <1> HIDE DEF t, m
  <1>2. \A i \in 0..m : {j \in 1..i : t[j].kind = kind} = {j \in 1..i : s[j].kind = kind}
    <2>1. ASSUME NEW i \in 0..m, NEW j \in 1..i PROVE t[j] = s[j]
      <3>1. j \in 1..m BY <1>1
      <3> QED BY <1>1, <3>1
    <2> QED BY <2>1
  <1>3. \A i \in 0..m : Number(t, kind, i) = Number(s, kind, i) BY <1>2 DEF Number
  <1>4. IsFiniteSet(A) /\ Cardinality(A) \in Nat
    <2>1. IsFiniteSet(1..m) BY <1>1, FS_Interval
    <2>2. A \subseteq 1..m OBVIOUS
    <2>3. IsFiniteSet(A) BY <2>1, <2>2, FS_Subset
    <2> QED BY <2>3, FS_CardinalityType
  <1>5. B = IF f.kind = kind THEN A \union {m + 1} ELSE A
    <2>1. \A j \in 1..(m + 1) : j \in 1..m \/ j = m + 1 BY <1>1
    <2>2. \A j \in 1..m : j \in 1..(m + 1) /\ j # m + 1 BY <1>1
    <2>3. m + 1 \in 1..(m + 1) BY <1>1
    <2> QED BY <1>1, <2>1, <2>2, <2>3
  <1>6. m + 1 \notin A BY <1>1
  <1> HIDE DEF A, B
  <1>7. Cardinality(B) = Cardinality(A) + (IF f.kind = kind THEN 1 ELSE 0)
    <2>1. CASE f.kind = kind
      <3>1. Cardinality(A \union {m + 1}) = Cardinality(A) + 1 BY <1>4, <1>6, FS_AddElement
      <3> QED BY <1>5, <2>1, <3>1
    <2>2. CASE f.kind # kind BY <1>4, <1>5, <2>2
    <2> QED BY <2>1, <2>2
  <1>8. Number(s, kind, m) = Cardinality(A) /\ Number(t, kind, m + 1) = Cardinality(B)
    BY DEF Number, A, B
  <1> QED BY <1>3, <1>4, <1>7, <1>8 DEF t, m

\* A frame in its place keeps the frames in their places.
LEMMA NestsMore ==
    ASSUME NEW s, NEW block, NEW open, Nested(s, block, open), NEW f \in AFrame, NEW b, NEW o,
           \/ f.kind = "start" /\ f.at = block + 1 /\ open = "none" /\ b = block + 1 /\ o # "none"
           \/ f.kind = "stop" /\ f.at = block /\ open # "none" /\ b = block /\ o = "none"
           \/ f.kind \notin {"start", "stop"} /\ f.at = block /\ open # "none" /\ b = block /\ o = open
    PROVE  Nested(Append(s, f), b, o)
  <1> DEFINE t == Append(s, f)
             m == Len(s)
             N(i) == Number(s, "start", i)
             P(i) == Number(s, "stop", i)
  <1>1. s \in Seq(AFrame) /\ block \in Int /\ N(m) = block + 1 /\ P(m) = IF open = "none" THEN block + 1 ELSE block
    BY DEF Nested
  <1>2. /\ t \in Seq(AFrame) /\ Len(t) = m + 1 /\ m \in Nat /\ t[m + 1] = f
        /\ \A i \in 1..m : t[i] = s[i]
    BY <1>1, Appending
  <1>3. /\ \A i \in 0..m : Number(t, "start", i) = N(i) /\ Number(t, "stop", i) = P(i)
        /\ N(m) \in Nat /\ P(m) \in Nat
        /\ Number(t, "start", m + 1) = N(m) + (IF f.kind = "start" THEN 1 ELSE 0)
        /\ Number(t, "stop", m + 1) = P(m) + (IF f.kind = "stop" THEN 1 ELSE 0)
    BY <1>1, OneMoreFrame
  <1>4. \A i \in 1..m : InPlace(s[i], N(i - 1), P(i - 1)) BY DEF Nested
  <1> HIDE DEF t, m, N, P
  <1>5. ASSUME NEW i \in 1..m PROVE InPlace(t[i], Number(t, "start", i - 1), Number(t, "stop", i - 1))
    <2>1. i - 1 \in 0..m BY <1>2
    <2> QED BY <1>2, <1>3, <1>4, <2>1
  <1>6. InPlace(t[m + 1], Number(t, "start", m), Number(t, "stop", m))
    <2>1. m \in 0..m BY <1>2
    <2>2. Number(t, "start", m) = N(m) /\ Number(t, "stop", m) = P(m) BY <1>3, <2>1
    <2> QED BY <1>1, <1>2, <2>2 DEF InPlace
  <1>7. \A i \in 1..Len(t) : InPlace(t[i], Number(t, "start", i - 1), Number(t, "stop", i - 1))
    <2>1. \A i \in 1..(m + 1) : i \in 1..m \/ (i = m + 1 /\ i - 1 = m) BY <1>2
    <2> QED BY <1>2, <1>5, <1>6, <2>1
  <1>8. Number(t, "start", Len(t)) = b + 1 /\ Number(t, "stop", Len(t)) = IF o = "none" THEN b + 1 ELSE b
    BY <1>1, <1>2, <1>3
  <1>9. b \in Int BY <1>1
  <1> QED BY <1>2, <1>7, <1>8, <1>9 DEF Nested, t

\* The Anthropic writer's part of its bookkeeping.
AWriter(y) ==
    /\ DOMAIN y = {"block", "open", "cur", "held", "ids", "outIdx", "msgOpen", "msgIdx", "fullText",
                   "order", "itemAt", "args"}
    /\ y.block \in Int /\ y.open \in {"none", "text", "think", "call"}
    /\ y.held \in Seq(Int) /\ y.ids \in [Index -> Nat]
    /\ y.cur \in Index \union {None} /\ (y.cur # None <=> y.open = "call")

\* Frames that open no call's block.
Plain(a) == \A i \in 1..Len(a) : a[i].kind = "start" => a[i].id = 0

\* What is written after y goes where it belongs.
Good(y, w) ==
    /\ DOMAIN w = {"x", "add"} /\ AWriter(w.x) /\ w.x.ids = y.ids /\ w.add \in Seq(AFrame)
    /\ \A s : Nested(s, y.block, y.open) => Nested(s \o w.add, w.x.block, w.x.open)

\* Writing nothing.
LEMMA NothingWritten == ASSUME NEW y, AWriter(y) PROVE Good(y, Wrote(y, <<>>)) /\ Plain(<<>>)
  <1>1. Wrote(y, <<>>).x = y /\ Wrote(y, <<>>).add = <<>> /\ DOMAIN Wrote(y, <<>>) = {"x", "add"}
    BY DEF Wrote
  <1>2. <<>> \in Seq(AFrame) /\ \A s \in Seq(AFrame) : s \o <<>> = s OBVIOUS
  <1>3. ASSUME NEW s, Nested(s, y.block, y.open) PROVE Nested(s \o <<>>, y.block, y.open)
    <2>1. s \in Seq(AFrame) BY <1>3 DEF Nested
    <2>2. s \o <<>> = s BY <1>2, <2>1
    <2> QED BY <1>3, <2>2
  <1>4. Plain(<<>>) BY DEF Plain
  <1> DEFINE w == Wrote(y, <<>>)
  <1> HIDE DEF w
  <1>5. w.x = y /\ w.add = <<>> /\ DOMAIN w = {"x", "add"} BY <1>1 DEF w
  <1>6. Good(y, w) BY <1>2, <1>3, <1>5 DEF Good
  <1> QED BY <1>4, <1>6 DEF w

\* One frame in its place.
LEMMA FrameWritten ==
    ASSUME NEW y, AWriter(y), NEW z, AWriter(z), z.ids = y.ids, NEW f \in AFrame,
           \/ f.kind = "start" /\ f.at = y.block + 1 /\ y.open = "none" /\ z.block = y.block + 1 /\ z.open # "none"
           \/ f.kind = "stop" /\ f.at = y.block /\ y.open # "none" /\ z.block = y.block /\ z.open = "none"
           \/ f.kind \notin {"start", "stop"} /\ f.at = y.block /\ y.open # "none" /\ z.block = y.block /\ z.open = y.open
    PROVE  Good(y, Wrote(z, <<f>>)) /\ (f.kind # "start" \/ f.id = 0 => Plain(<<f>>))
  <1>1. Wrote(z, <<f>>).x = z /\ Wrote(z, <<f>>).add = <<f>> /\ DOMAIN Wrote(z, <<f>>) = {"x", "add"}
    BY DEF Wrote
  <1>2. ASSUME NEW s, Nested(s, y.block, y.open) PROVE Nested(s \o <<f>>, z.block, z.open)
    <2>1. s \o <<f>> = Append(s, f)
      <3>1. s \in Seq(AFrame) BY <1>2 DEF Nested
      <3> QED BY <3>1
    <2>2. Nested(Append(s, f), z.block, z.open)
      <3> DEFINE block == y.block
                 open == y.open
                 b == z.block
                 o == z.open
      <3>1. \/ f.kind = "start" /\ f.at = block + 1 /\ open = "none" /\ b = block + 1 /\ o # "none"
            \/ f.kind = "stop" /\ f.at = block /\ open # "none" /\ b = block /\ o = "none"
            \/ f.kind \notin {"start", "stop"} /\ f.at = block /\ open # "none" /\ b = block /\ o = open
        OBVIOUS
      <3>2. Nested(s, block, open) BY <1>2
      <3> HIDE DEF block, open, b, o
      <3>3. Nested(Append(s, f), b, o) BY <3>1, <3>2, NestsMore
      <3> QED BY <3>3 DEF b, o
    <2> QED BY <2>1, <2>2
  <1>3. <<f>> \in Seq(AFrame) OBVIOUS
  <1>4. f.kind # "start" \/ f.id = 0 => Plain(<<f>>) BY DEF Plain
  <1> HIDE DEF Wrote
  <1> QED BY <1>1, <1>2, <1>3, <1>4 DEF Good

\* Joining sequences of frames does not depend on which two are joined first.
LEMMA Joining ==
    ASSUME NEW a \in Seq(AFrame), NEW b \in Seq(AFrame), NEW c \in Seq(AFrame)
    PROVE  a \o (b \o c) = (a \o b) \o c
  OBVIOUS

\* Frames that open no call's block, twice.
LEMMA PlainBoth ==
    ASSUME NEW a \in Seq(AFrame), NEW b \in Seq(AFrame), Plain(a), Plain(b)
    PROVE  Plain(a \o b)
  <1>1. Len(a) \in Nat /\ Len(b) \in Nat /\ Len(a \o b) = Len(a) + Len(b) OBVIOUS
  <1>2. ASSUME NEW i \in 1..Len(a \o b), (a \o b)[i].kind = "start" PROVE (a \o b)[i].id = 0
    <2>1. CASE i <= Len(a)
      <3>1. i \in 1..Len(a) /\ (a \o b)[i] = a[i] BY <1>1, <2>1
      <3> QED BY <1>2, <3>1 DEF Plain
    <2>2. CASE i > Len(a)
      <3>1. i - Len(a) \in 1..Len(b) /\ (a \o b)[i] = b[i - Len(a)] BY <1>1, <2>2
      <3> QED BY <1>2, <3>1 DEF Plain
    <2> QED BY <1>1, <2>1, <2>2
  <1> QED BY <1>2 DEF Plain

\* Of two writers' results the second has the bookkeeping.
LEMMA Then ==
    ASSUME NEW w, NEW v
    PROVE  AndThen(w, v).x = v.x /\ AndThen(w, v).add = w.add \o v.add
  BY DEF AndThen

\* What is written one after the other is where it belongs, too.
LEMMA BothWritten ==
    ASSUME NEW y, NEW w, NEW v, Good(y, w), Good(w.x, v)
    PROVE  /\ Good(y, AndThen(w, v))
           /\ Plain(w.add) /\ Plain(v.add) => Plain(AndThen(w, v).add)
  <1> DEFINE u == AndThen(w, v)
  <1>1. u.x = v.x /\ u.add = w.add \o v.add /\ DOMAIN u = {"x", "add"} BY DEF AndThen
  <1>2. w.add \in Seq(AFrame) /\ v.add \in Seq(AFrame) BY DEF Good
  <1>3. w.add \o v.add \in Seq(AFrame) BY <1>2
  <1>4. ASSUME NEW s, Nested(s, y.block, y.open) PROVE Nested(s \o (w.add \o v.add), v.x.block, v.x.open)
    <2>1. s \in Seq(AFrame) BY <1>4 DEF Nested
    <2>2. s \o (w.add \o v.add) = (s \o w.add) \o v.add BY <1>2, <2>1, Joining
    <2>3. Nested(s \o w.add, w.x.block, w.x.open) BY <1>4 DEF Good
    <2>4. Nested((s \o w.add) \o v.add, v.x.block, v.x.open) BY <2>3 DEF Good
    <2> QED BY <2>2, <2>4
  <1>5. AWriter(v.x) /\ v.x.ids = y.ids BY DEF Good
  <1> HIDE DEF u
  <1>6. Good(y, u) BY <1>1, <1>3, <1>4, <1>5 DEF Good
  <1>7. Plain(w.add) /\ Plain(v.add) => Plain(u.add) BY <1>1, <1>2, PlainBoth
  <1> QED BY <1>6, <1>7 DEF u

\* Closing a block, or none.
LEMMA Closing ==
    ASSUME NEW y, AWriter(y)
    PROVE  LET w == CloseBlock(y)
           IN  Good(y, w) /\ Plain(w.add) /\ w.x.open = "none" /\ w.x.cur = None /\ w.x.held = y.held
  <1> DEFINE z == [y EXCEPT !.open = "none", !.cur = None]
             stop == Frame("stop", y.block, 0, <<>>)
             sig == Frame("signature", y.block, 0, <<>>)
  <1>1. CASE y.open = "none"
    <2>1. CloseBlock(y) = Wrote(y, <<>>) BY <1>1 DEF CloseBlock
    <2>2. Wrote(y, <<>>).x = y /\ Wrote(y, <<>>).add = <<>> BY DEF Wrote
    <2>3. y.cur = None BY <1>1 DEF AWriter
    <2> QED BY <1>1, <2>1, <2>2, <2>3, NothingWritten
  <1>2. CASE y.open # "none"
    <2>1. z.open = "none" /\ z.cur = None /\ z.held = y.held /\ z.block = y.block /\ z.ids = y.ids /\ AWriter(z)
      BY DEF AWriter
    <2>2. stop \in AFrame /\ sig \in AFrame /\ stop.kind = "stop" /\ stop.at = y.block
          /\ sig.kind = "signature" /\ sig.at = y.block
      <3>1. y.block \in Int /\ <<>> \in Seq(Int) BY DEF AWriter
      <3> QED BY <3>1 DEF Frame, Delta, AFrame
    <2> HIDE DEF z, stop, sig
    <2>3. Good(y, Wrote(z, <<stop>>)) /\ Plain(<<stop>>) BY <1>2, <2>1, <2>2, FrameWritten
    <2>4. Good(y, Wrote(y, <<sig>>)) /\ Plain(<<sig>>) BY <1>2, <2>2, FrameWritten
    <2>5. CASE y.open = "think"
      <3> DEFINE w == Wrote(y, <<sig>>)
                 v == Wrote(z, <<stop>>)
      <3>1. CloseBlock(y) = Wrote(z, <<sig>> \o <<stop>>)
        BY <1>2, <2>5 DEF CloseBlock, z, stop, sig
      <3>2. AndThen(w, v) = Wrote(z, <<sig>> \o <<stop>>) /\ w.x = y /\ w.add = <<sig>> /\ v.add = <<stop>> /\ v.x = z
        BY DEF AndThen, Wrote
      <3> HIDE DEF w, v
      <3>3. Good(y, w) /\ Good(w.x, v) /\ Plain(w.add) /\ Plain(v.add)
        <4>1. Good(y, w) /\ Good(y, v) BY <2>3, <2>4 DEF w, v
        <4>2. w.x = y /\ w.add = <<sig>> /\ v.add = <<stop>> BY <3>2
        <4> QED BY <2>3, <2>4, <4>1, <4>2
      <3>4. Good(y, AndThen(w, v)) /\ Plain(AndThen(w, v).add) BY <3>3, BothWritten
      <3>5. AndThen(w, v).x = z BY <3>2, Then
      <3> QED BY <2>1, <3>1, <3>2, <3>4, <3>5
    <2>6. CASE y.open # "think"
      <3>1. <<>> \o <<stop>> = <<stop>> OBVIOUS
      <3>2. CloseBlock(y) = Wrote(z, <<stop>>) BY <1>2, <2>6, <3>1 DEF CloseBlock, z, stop
      <3>3. Wrote(z, <<stop>>).x = z /\ Wrote(z, <<stop>>).add = <<stop>> BY DEF Wrote
      <3> QED BY <2>1, <2>3, <3>2, <3>3
    <2> QED BY <2>5, <2>6
  <1> QED BY <1>1, <1>2

\* Opening one after the others are closed.
LEMMA Opening ==
    ASSUME NEW y, AWriter(y), y.open = "none", NEW kind \in {"text", "think", "call"}, NEW at,
           IF kind = "call" THEN at \in Index ELSE at = None
    PROVE  LET w == OpenBlock(y, kind, at)
           IN  /\ Good(y, w) /\ w.x.open = kind /\ w.x.cur = at /\ w.x.held = y.held
               /\ Len(w.add) = 1 /\ w.add[1].kind = "start"
               /\ w.add[1].id = IF kind = "call" THEN y.ids[at] ELSE 0
  <1> DEFINE z == [y EXCEPT !.block = @ + 1, !.open = kind, !.cur = at]
             f == Frame("start", y.block + 1, IF kind = "call" THEN y.ids[at] ELSE 0, <<>>)
  <1>1. y.block \in Int /\ y.block + 1 \in Int BY DEF AWriter
  <1>2. z.block = y.block + 1 /\ z.open = kind /\ z.cur = at /\ z.held = y.held /\ z.ids = y.ids
        /\ DOMAIN z = DOMAIN y
    BY DEF AWriter
  <1>3. kind # "none" /\ (at # None <=> kind = "call") /\ at \in Index \union {None}
    BY DialectsAssumption DEF Index, None
  <1>4. AWriter(z)
    <2> HIDE DEF z
    <2> QED BY <1>1, <1>2, <1>3 DEF AWriter
  <1>5. f \in AFrame /\ f.kind = "start" /\ f.at = y.block + 1 /\ f.id = IF kind = "call" THEN y.ids[at] ELSE 0
    <2>1. <<>> \in Seq(Int) /\ (kind = "call" => y.ids[at] \in Nat) BY DEF AWriter
    <2> QED BY <1>1, <2>1 DEF Frame, Delta, AFrame
  <1>6. OpenBlock(y, kind, at) = Wrote(z, <<f>>) BY DEF OpenBlock
  <1> HIDE DEF z, f
  <1>7. Good(y, Wrote(z, <<f>>)) BY <1>2, <1>3, <1>4, <1>5, FrameWritten
  <1>8. Wrote(z, <<f>>).x = z /\ Wrote(z, <<f>>).add = <<f>> BY DEF Wrote
  <1> QED BY <1>2, <1>5, <1>6, <1>7, <1>8

\* Where a writer stands is its block and its ids, not what it holds.
LEMMA GoodAlike ==
    ASSUME NEW y, NEW z, z.block = y.block, z.open = y.open, z.ids = y.ids, NEW w, Good(z, w)
    PROVE  Good(y, w)
  BY DEF Good

\* A piece in the block that is open.
LEMMA PieceWritten ==
    ASSUME NEW y, AWriter(y), y.open # "none", NEW kind \in {"text", "reason", "call"},
           NEW piece \in Seq(Int)
    PROVE  LET w == Wrote(y, <<Frame(kind, y.block, 0, piece)>>)
           IN  Good(y, w) /\ Plain(w.add) /\ w.x = y
  <1> DEFINE f == Frame(kind, y.block, 0, piece)
  <1>1. f \in AFrame /\ f.kind = kind /\ f.at = y.block
    <2>1. y.block \in Int BY DEF AWriter
    <2> QED BY <2>1 DEF Frame, Delta, AFrame
  <1>2. kind \notin {"start", "stop"} /\ kind # "start" OBVIOUS
  <1> HIDE DEF f
  <1>3. Good(y, Wrote(y, <<f>>)) /\ Plain(<<f>>) BY <1>1, <1>2, FrameWritten
  <1>4. Wrote(y, <<f>>).x = y /\ Wrote(y, <<f>>).add = <<f>> BY DEF Wrote
  <1> QED BY <1>3, <1>4 DEF f

\* emitText and emitThinking.
LEMMA Emitting ==
    ASSUME NEW y, AWriter(y), NEW kind \in {"text", "think"}, NEW frame \in {"text", "reason"},
           NEW piece \in Seq(Int)
    PROVE  LET w == Emit(y, kind, frame, piece)
           IN  Good(y, w) /\ Plain(w.add) /\ w.x.open = kind /\ w.x.cur = None /\ w.x.held = y.held
  <1> DEFINE closed == CloseBlock(y)
             opened == IF y.open = kind THEN Wrote(y, <<>>)
                       ELSE AndThen(closed, OpenBlock(closed.x, kind, None))
             last == Wrote(opened.x, <<Frame(frame, opened.x.block, 0, piece)>>)
  <1>1. Emit(y, kind, frame, piece) = AndThen(opened, last) BY DEF Emit
  <1>2. Good(y, opened) /\ Plain(opened.add) /\ opened.x.open = kind /\ opened.x.cur = None
        /\ opened.x.held = y.held
    <2>1. CASE y.open = kind
      <3>1. opened = Wrote(y, <<>>) BY <2>1
      <3>2. Wrote(y, <<>>).x = y /\ Wrote(y, <<>>).add = <<>> BY DEF Wrote
      <3>3. y.cur = None BY <2>1 DEF AWriter
      <3> HIDE DEF opened
      <3> QED BY <2>1, <3>1, <3>2, <3>3, NothingWritten
    <2>2. CASE y.open # kind
      <3> DEFINE o == OpenBlock(closed.x, kind, None)
      <3>1. opened = AndThen(closed, o) BY <2>2
      <3>2. Good(y, closed) /\ Plain(closed.add) /\ closed.x.open = "none" /\ closed.x.held = y.held
        BY Closing
      <3>3. AWriter(closed.x) BY <3>2 DEF Good
      <3> HIDE DEF closed, opened
      <3>4. /\ Good(closed.x, o) /\ o.x.open = kind /\ o.x.cur = None /\ o.x.held = closed.x.held
            /\ Len(o.add) = 1 /\ o.add[1].kind = "start" /\ o.add[1].id = 0
        BY <3>2, <3>3, Opening
      <3> HIDE DEF o
      <3>5. Plain(o.add) BY <3>4 DEF Plain
      <3>6. Good(y, AndThen(closed, o)) /\ Plain(AndThen(closed, o).add)
        BY <3>2, <3>4, <3>5, BothWritten
      <3>7. AndThen(closed, o).x = o.x BY Then
      <3> QED BY <3>1, <3>2, <3>4, <3>6, <3>7
    <2> QED BY <2>1, <2>2
  <1>3. AWriter(opened.x) /\ opened.x.open # "none" BY <1>2 DEF Good
  <1>4. frame \in {"text", "reason", "call"} OBVIOUS
  <1> HIDE DEF closed, opened
  <1>5. Good(opened.x, last) /\ Plain(last.add) /\ last.x = opened.x BY <1>3, <1>4, PieceWritten
  <1> HIDE DEF last
  <1>6. Good(y, AndThen(opened, last)) /\ Plain(AndThen(opened, last).add)
    BY <1>2, <1>5, BothWritten
  <1>7. AndThen(opened, last).x = last.x BY Then
  <1> QED BY <1>1, <1>2, <1>5, <1>6, <1>7

\* closeBlock with the text that was held back.
LEMMA Flushing ==
    ASSUME NEW y, AWriter(y)
    PROVE  LET w == EmitHeld(y)
           IN  Good(y, w) /\ Plain(w.add) /\ w.x.open = "none" /\ w.x.cur = None
  <1> DEFINE closed == CloseBlock(y)
             z == [closed.x EXCEPT !.held = <<>>]
             held == Emit(z, "text", "text", y.held)
             shut == CloseBlock(held.x)
  <1>1. Good(y, closed) /\ Plain(closed.add) /\ closed.x.open = "none" /\ closed.x.cur = None
    BY Closing
  <1>2. CASE y.held = <<>> BY <1>1, <1>2 DEF EmitHeld
  <1>3. CASE y.held # <<>>
    <2>1. EmitHeld(y) = AndThen(closed, AndThen(held, shut)) BY <1>3 DEF EmitHeld
    <2>2. AWriter(closed.x) /\ y.held \in Seq(Int) BY <1>1 DEF Good, AWriter
    <2> HIDE DEF closed
    <2>3. AWriter(z) /\ z.block = closed.x.block /\ z.open = closed.x.open /\ z.ids = closed.x.ids
      BY <2>2 DEF AWriter
    <2> HIDE DEF z
    <2>4. Good(z, held) /\ Plain(held.add) BY <2>2, <2>3, Emitting
    <2> HIDE DEF held
    <2>5. Good(closed.x, held) BY <2>3, <2>4, GoodAlike
    <2>6. AWriter(held.x) BY <2>4 DEF Good
    <2>7. Good(held.x, shut) /\ Plain(shut.add) /\ shut.x.open = "none" /\ shut.x.cur = None
      BY <2>6, Closing
    <2> HIDE DEF shut
    <2> DEFINE u == AndThen(held, shut)
    <2>8. Good(closed.x, u) /\ Plain(u.add) BY <2>4, <2>5, <2>7, BothWritten
    <2>9. u.x = shut.x BY Then
    <2> HIDE DEF u
    <2>10. Good(y, AndThen(closed, u)) /\ Plain(AndThen(closed, u).add) BY <1>1, <2>8, BothWritten
    <2>11. AndThen(closed, u).x = u.x BY Then
    <2>12. EmitHeld(y) = AndThen(closed, u) BY <2>1 DEF u
    <2> QED BY <2>7, <2>9, <2>10, <2>11, <2>12
  <1> QED BY <1>2, <1>3

\* Of the blocks that are opened for a call at most one is new, and it is of call c.
One(a, c) ==
    \A i, j \in 1..Len(a) :
       a[i].kind = "start" /\ a[i].id # 0 =>
          a[i].id = c /\ (a[j].kind = "start" /\ a[j].id # 0 => i = j)

\* A call's block after frames that open none.
LEMMA PlainThenOne ==
    ASSUME NEW a \in Seq(AFrame), NEW b \in Seq(AFrame), NEW c, Plain(a), One(b, c)
    PROVE  One(a \o b, c)
  <1>1. Len(a) \in Nat /\ Len(b) \in Nat /\ Len(a \o b) = Len(a) + Len(b) OBVIOUS
  <1>2. ASSUME NEW i \in 1..Len(a \o b), (a \o b)[i].kind = "start", (a \o b)[i].id # 0
        PROVE  i - Len(a) \in 1..Len(b) /\ (a \o b)[i] = b[i - Len(a)]
    <2>1. CASE i <= Len(a)
      <3>1. i \in 1..Len(a) /\ (a \o b)[i] = a[i] BY <1>1, <2>1
      <3> QED BY <1>2, <3>1 DEF Plain
    <2>2. CASE i > Len(a) BY <1>1, <2>2
    <2> QED BY <1>1, <2>1, <2>2
  <1>3. ASSUME NEW i \in 1..Len(a \o b), NEW j \in 1..Len(a \o b), (a \o b)[i].kind = "start",
               (a \o b)[i].id # 0
        PROVE  (a \o b)[i].id = c /\ ((a \o b)[j].kind = "start" /\ (a \o b)[j].id # 0 => i = j)
    <2>1. i - Len(a) \in 1..Len(b) /\ (a \o b)[i] = b[i - Len(a)] BY <1>2, <1>3
    <2>2. (a \o b)[i].id = c BY <1>3, <2>1 DEF One
    <2>3. ASSUME (a \o b)[j].kind = "start", (a \o b)[j].id # 0 PROVE i = j
      <3>1. j - Len(a) \in 1..Len(b) /\ (a \o b)[j] = b[j - Len(a)] BY <1>2, <2>3
      <3>2. i - Len(a) = j - Len(a) BY <1>3, <2>1, <2>3, <3>1 DEF One
      <3> QED BY <1>1, <3>2
    <2> QED BY <2>2, <2>3
  <1> QED BY <1>3 DEF One

\* A call's block before frames that open none.
LEMMA OneThenPlain ==
    ASSUME NEW a \in Seq(AFrame), NEW b \in Seq(AFrame), NEW c, One(a, c), Plain(b)
    PROVE  One(a \o b, c)
  <1>1. Len(a) \in Nat /\ Len(b) \in Nat /\ Len(a \o b) = Len(a) + Len(b) OBVIOUS
  <1>2. ASSUME NEW i \in 1..Len(a \o b), (a \o b)[i].kind = "start", (a \o b)[i].id # 0
        PROVE  i \in 1..Len(a) /\ (a \o b)[i] = a[i]
    <2>1. CASE i <= Len(a) BY <1>1, <2>1
    <2>2. CASE i > Len(a)
      <3>1. i - Len(a) \in 1..Len(b) /\ (a \o b)[i] = b[i - Len(a)] BY <1>1, <2>2
      <3> QED BY <1>2, <3>1 DEF Plain
    <2> QED BY <1>1, <2>1, <2>2
  <1> QED BY <1>2 DEF One

\* Frames that open no call's block change nothing of what was opened.
LEMMA PlainStarts ==
    ASSUME NEW s \in Seq(AFrame), NEW a \in Seq(AFrame), Plain(a), NEW c \in Nat \ {0}
    PROVE  Starts(s \o a, c) = Starts(s, c)
  <1>1. Len(s) \in Nat /\ Len(a) \in Nat /\ Len(s \o a) = Len(s) + Len(a) OBVIOUS
  <1>2. ASSUME NEW i \in Starts(s \o a, c) PROVE i \in Starts(s, c)
    <2>1. i \in 1..Len(s \o a) /\ (s \o a)[i].kind = "start" /\ (s \o a)[i].id = c BY DEF Starts
    <2>2. CASE i <= Len(s)
      <3>1. i \in 1..Len(s) /\ (s \o a)[i] = s[i] BY <1>1, <2>1, <2>2
      <3> QED BY <2>1, <3>1 DEF Starts
    <2>3. CASE i > Len(s)
      <3>1. i - Len(s) \in 1..Len(a) /\ (s \o a)[i] = a[i - Len(s)] BY <1>1, <2>1, <2>3
      <3> QED BY <2>1, <3>1 DEF Plain
    <2> QED BY <1>1, <2>1, <2>2, <2>3
  <1>3. ASSUME NEW i \in Starts(s, c) PROVE i \in Starts(s \o a, c)
    <2>1. i \in 1..Len(s) /\ s[i].kind = "start" /\ s[i].id = c BY DEF Starts
    <2>2. i \in 1..Len(s \o a) /\ (s \o a)[i] = s[i] BY <1>1, <2>1
    <2> QED BY <2>1, <2>2 DEF Starts
  <1> QED BY <1>2, <1>3

\* A block opened for a call that had none is its only one.
LEMMA OneStarts ==
    ASSUME NEW s \in Seq(AFrame), NEW a \in Seq(AFrame), NEW c \in Nat \ {0}, One(a, c), Starts(s, c) = {}
    PROVE  /\ \A i, j \in Starts(s \o a, c) : i = j
           /\ \A e \in Nat \ {0} : e # c => Starts(s \o a, e) = Starts(s, e)
  <1>1. Len(s) \in Nat /\ Len(a) \in Nat /\ Len(s \o a) = Len(s) + Len(a) OBVIOUS
  <1>2. ASSUME NEW e \in Nat \ {0}, NEW i \in Starts(s \o a, e)
        PROVE  \/ i \in Starts(s, e)
               \/ i - Len(s) \in 1..Len(a) /\ a[i - Len(s)].kind = "start" /\ a[i - Len(s)].id = e
                  /\ i \in Int
    <2>1. i \in 1..Len(s \o a) /\ (s \o a)[i].kind = "start" /\ (s \o a)[i].id = e BY DEF Starts
    <2>2. CASE i <= Len(s)
      <3>1. i \in 1..Len(s) /\ (s \o a)[i] = s[i] BY <1>1, <2>1, <2>2
      <3> QED BY <2>1, <3>1 DEF Starts
    <2>3. CASE i > Len(s)
      <3>1. i - Len(s) \in 1..Len(a) /\ (s \o a)[i] = a[i - Len(s)] /\ i \in Int BY <1>1, <2>1, <2>3
      <3> QED BY <2>1, <3>1
    <2> QED BY <1>1, <2>1, <2>2, <2>3
  <1>3. ASSUME NEW i \in Starts(s \o a, c), NEW j \in Starts(s \o a, c) PROVE i = j
    <2>1. i - Len(s) \in 1..Len(a) /\ a[i - Len(s)].kind = "start" /\ a[i - Len(s)].id = c /\ i \in Int
      BY <1>2
    <2>2. j - Len(s) \in 1..Len(a) /\ a[j - Len(s)].kind = "start" /\ a[j - Len(s)].id = c /\ j \in Int
      BY <1>2
    <2>3. i - Len(s) = j - Len(s) BY <2>1, <2>2 DEF One
    <2> QED BY <1>1, <2>1, <2>2, <2>3
  <1>4. ASSUME NEW e \in Nat \ {0}, e # c PROVE Starts(s \o a, e) = Starts(s, e)
    <2>1. ASSUME NEW i \in Starts(s \o a, e) PROVE i \in Starts(s, e)
      <3>1. ASSUME i - Len(s) \in 1..Len(a), a[i - Len(s)].kind = "start", a[i - Len(s)].id = e PROVE FALSE
        BY <1>4, <3>1 DEF One
      <3> QED BY <1>2, <3>1
    <2>2. ASSUME NEW i \in Starts(s, e) PROVE i \in Starts(s \o a, e)
      <3>1. i \in 1..Len(s) /\ s[i].kind = "start" /\ s[i].id = e BY DEF Starts
      <3>2. i \in 1..Len(s \o a) /\ (s \o a)[i] = s[i] BY <1>1, <3>1
      <3> QED BY <3>1, <3>2 DEF Starts
    <2> QED BY <2>1, <2>2
  <1> QED BY <1>3, <1>4

-------------------------------------------------------------------------------
\* A text goes where it belongs, now or later, and opens no call's block.
LEMMA Holding ==
    ASSUME NEW y, AWriter(y), NEW piece \in Seq(Int)
    PROVE  LET w == HoldOrEmit(y, piece)
           IN  Good(y, w) /\ Plain(w.add) /\ (y.cur # None => w.x.cur = y.cur)
  <1>1. CASE y.cur # None
    <2> DEFINE z == [y EXCEPT !.held = @ \o piece]
               w == Wrote(z, <<>>)
    <2>1. HoldOrEmit(y, piece) = w BY <1>1 DEF HoldOrEmit
    <2>2. AWriter(z) /\ z.cur = y.cur /\ z.block = y.block /\ z.open = y.open /\ z.ids = y.ids
      BY DEF AWriter
    <2>3. w.x = z /\ w.add = <<>> BY DEF Wrote
    <2> HIDE DEF z
    <2>4. Good(z, w) /\ Plain(<<>>) BY <2>2, NothingWritten
    <2> HIDE DEF w
    <2>5. Good(y, w) BY <2>2, <2>4, GoodAlike
    <2> QED BY <2>1, <2>2, <2>3, <2>4, <2>5
  <1>2. CASE y.cur = None
    <2>1. HoldOrEmit(y, piece) = Emit(y, "text", "text", piece) BY <1>2 DEF HoldOrEmit
    <2> QED BY <1>2, <2>1, Emitting
  <1> QED BY <1>1, <1>2

\* The writer on a text or a thought.
LEMMA TextWritten ==
    ASSUME AWriter(x), NEW d, d.kind \in {"text", "reason"}, d.piece \in Seq(Int)
    PROVE  LET w == WriteAnthropic(d)
           IN  Good(x, w) /\ Plain(w.add) /\ (x.cur # None => w.x.cur = x.cur)
  <1>1. CASE d.kind = "text"
    <2>1. WriteAnthropic(d) = HoldOrEmit(x, d.piece) BY <1>1 DEF WriteAnthropic
    <2> QED BY <2>1, Holding
  <1>2. CASE d.kind = "reason" /\ x.cur # None
    <2>1. WriteAnthropic(d) = Wrote(x, <<>>) BY <1>2 DEF WriteAnthropic
    <2>2. Wrote(x, <<>>).x = x /\ Wrote(x, <<>>).add = <<>> BY DEF Wrote
    <2> QED BY <2>1, <2>2, NothingWritten
  <1>3. CASE d.kind = "reason" /\ x.cur = None
    <2>1. WriteAnthropic(d) = Emit(x, "think", "reason", d.piece) BY <1>3 DEF WriteAnthropic
    <2> QED BY <1>3, <2>1, Emitting
  <1> QED BY <1>1, <1>2, <1>3

\* Going over to a call: what is open is closed, and one block is opened for it.
LEMMA Switching ==
    ASSUME NEW y, AWriter(y), NEW at \in Index
    PROVE  LET w == SwitchCall(y, at)
           IN  /\ Good(y, w) /\ w.x.cur = at
               /\ IF y.cur = at THEN Plain(w.add) ELSE One(w.add, y.ids[at])
  <1>1. CASE y.cur = at
    <2>1. SwitchCall(y, at) = Wrote(y, <<>>) BY <1>1 DEF SwitchCall
    <2>2. Wrote(y, <<>>).x = y /\ Wrote(y, <<>>).add = <<>> BY DEF Wrote
    <2> QED BY <1>1, <2>1, <2>2, NothingWritten
  <1>2. CASE y.cur # at
    <2> DEFINE flushed == EmitHeld(y)
               o == OpenBlock(flushed.x, "call", at)
    <2>1. SwitchCall(y, at) = AndThen(flushed, o) BY <1>2 DEF SwitchCall
    <2>2. Good(y, flushed) /\ Plain(flushed.add) /\ flushed.x.open = "none" BY Flushing
    <2>3. AWriter(flushed.x) /\ flushed.x.ids = y.ids /\ flushed.add \in Seq(AFrame) BY <2>2 DEF Good
    <2> HIDE DEF flushed
    <2>4. /\ Good(flushed.x, o) /\ o.x.cur = at
          /\ Len(o.add) = 1 /\ o.add[1].kind = "start" /\ o.add[1].id = y.ids[at]
      BY <2>2, <2>3, Opening
    <2>5. o.add \in Seq(AFrame) BY <2>4 DEF Good
    <2> HIDE DEF o
    <2>6. One(o.add, y.ids[at]) BY <2>4 DEF One
    <2>7. One(flushed.add \o o.add, y.ids[at]) BY <2>2, <2>3, <2>5, <2>6, PlainThenOne
    <2>8. Good(y, AndThen(flushed, o)) BY <2>2, <2>4, BothWritten
    <2>9. AndThen(flushed, o).x = o.x /\ AndThen(flushed, o).add = flushed.add \o o.add BY Then
    <2> QED BY <1>2, <2>1, <2>4, <2>7, <2>8, <2>9
  <1> QED BY <1>1, <1>2

\* A block of no call is plain.
LEMMA NoneIsPlain == ASSUME NEW a, One(a, 0) PROVE Plain(a)
  BY DEF Plain, One

\* A piece of a call, or its beginning.
LEMMA CallWritten ==
    ASSUME AWriter(x), NEW at \in Index, NEW id \in Nat, NEW piece \in Seq(Int)
    PROVE  LET d == CallDelta(at, id, piece)
               y == Identify(x, d)
               w == WriteAnthropic(d)
           IN  /\ AWriter(y) /\ y.block = x.block /\ y.open = x.open /\ y.cur = x.cur
               /\ y.ids = IF id = 0 THEN x.ids ELSE [x.ids EXCEPT ![at] = id]
               /\ Good(y, w) /\ w.x.cur = at
               /\ IF x.cur = at THEN Plain(w.add) ELSE One(w.add, y.ids[at])
  <1> DEFINE d == CallDelta(at, id, piece)
             y == Identify(x, d)
             sw == SwitchCall(y, at)
             v == Wrote(sw.x, IF piece = <<>> THEN <<>> ELSE <<Frame("call", sw.x.block, 0, piece)>>)
  <1>1. d.kind = "call" /\ d.at = at /\ d.id = id /\ d.piece = piece BY DEF CallDelta, Delta
  <1>2. WriteAnthropic(d) = AndThen(sw, v)
    <2> HIDE DEF d
    <2> QED BY <1>1 DEF WriteAnthropic
  <1>3. /\ AWriter(y) /\ y.block = x.block /\ y.open = x.open /\ y.cur = x.cur
        /\ y.ids = IF id = 0 THEN x.ids ELSE [x.ids EXCEPT ![at] = id]
    <2> HIDE DEF d
    <2> QED BY <1>1 DEF Identify, AWriter
  <1> HIDE DEF y
  <1>4. Good(y, sw) /\ sw.x.cur = at /\ IF y.cur = at THEN Plain(sw.add) ELSE One(sw.add, y.ids[at])
    BY <1>3, Switching
  <1>5. AWriter(sw.x) /\ sw.add \in Seq(AFrame) BY <1>4 DEF Good
  <1> HIDE DEF sw
  <1>6. Good(sw.x, v) /\ Plain(v.add) /\ v.x = sw.x
    <2>1. CASE piece = <<>>
      <3>1. v = Wrote(sw.x, <<>>) BY <2>1
      <3>2. Wrote(sw.x, <<>>).x = sw.x /\ Wrote(sw.x, <<>>).add = <<>> BY DEF Wrote
      <3> HIDE DEF v
      <3> QED BY <1>5, <3>1, <3>2, NothingWritten
    <2>2. CASE piece # <<>>
      <3>1. v = Wrote(sw.x, <<Frame("call", sw.x.block, 0, piece)>>) BY <2>2
      <3>2. sw.x.open # "none"
        <4>1. at # None BY DialectsAssumption DEF Index, None
        <4> QED BY <1>4, <1>5, <4>1 DEF AWriter
      <3> HIDE DEF v
      <3> QED BY <1>5, <3>1, <3>2, PieceWritten
    <2> QED BY <2>1, <2>2
  <1>7. v.add \in Seq(AFrame) BY <1>6 DEF Good
  <1> HIDE DEF v
  <1>8. Good(y, AndThen(sw, v)) /\ (Plain(sw.add) => Plain(AndThen(sw, v).add))
    BY <1>4, <1>6, BothWritten
  <1>9. AndThen(sw, v).x = v.x /\ AndThen(sw, v).add = sw.add \o v.add BY Then
  <1>10. x.cur # at => One(AndThen(sw, v).add, y.ids[at])
    <2> SUFFICES ASSUME x.cur # at PROVE One(sw.add \o v.add, y.ids[at]) BY <1>9
    <2>1. One(sw.add, y.ids[at]) BY <1>3, <1>4
    <2> QED BY <1>5, <1>6, <1>7, <2>1, OneThenPlain
  <1>11. LET w == AndThen(sw, v)
         IN  Good(y, w) /\ w.x.cur = at /\ IF x.cur = at THEN Plain(w.add) ELSE One(w.add, y.ids[at])
    BY <1>3, <1>4, <1>6, <1>8, <1>9, <1>10
  <1> QED BY <1>2, <1>3, <1>11 DEF d, y

-------------------------------------------------------------------------------
Framing == to = "anthropic" /\ mode = "stream"
\* No call has two blocks among the frames s.
Single(s) == \A c \in CallId : \A i, j \in Starts(s, c) : i = j
\* An index is that of the call whose id it has.
IdsRight(ids) == \A c \in CallId : ids[IndexOf(c)] \in {0, c}
\* As long as the upstream did not go back, the calls with a block have been
\* started, and the block of the last of them is the one the writer is in.
InTurn(s, cur, started) ==
    \A c \in CallId : Starts(s, c) # {} => c <= started /\ (c = started => cur = IndexOf(c))
OpenBlocks ==
    /\ AWriter(x) /\ IdsRight(x.ids) /\ Nested(sent, x.block, x.open)
    /\ ~said.mixed => Single(sent) /\ InTurn(sent, x.cur, said.started)
BlocksInv ==
    /\ EndInv /\ n \in Nat /\ DOMAIN said.args = CallId
    /\ Framing => IF told = "none" THEN OpenBlocks ELSE BlocksNest

\* The index of a call is no other's.
LEMMA IndexIsIndex ==
    ASSUME NEW c \in CallId
    PROVE  IndexOf(c) \in Index /\ IndexOf(c) # None /\ c \in Nat \ {0}
           /\ \A e \in CallId : IndexOf(e) = IndexOf(c) => e = c
  BY DialectsAssumption DEF IndexOf, Index, None, CallId

\* What the client is promised of the frames s.
Nest(s, over, once) ==
    /\ \A i \in DOMAIN s :
         LET opened == Number(s, "start", i - 1)
             shut == Number(s, "stop", i - 1)
         IN IF s[i].kind = "start" THEN s[i].at = opened /\ shut = opened
            ELSE s[i].at = opened - 1 /\ shut = opened - 1
    /\ over => Number(s, "start", Len(s)) = Number(s, "stop", Len(s))
    /\ once => \A c \in CallId : \A i, j \in DOMAIN s :
                 s[i].kind = "start" /\ s[i].id = c /\ s[j].kind = "start" /\ s[j].id = c => i = j

\* Frames in their blocks are what the client is promised.
LEMMA NestedNests ==
    ASSUME NEW s, NEW b, NEW o, Nested(s, b, o), NEW over, over => o = "none",
           NEW once, once => Single(s)
    PROVE  Nest(s, over, once)
  <1>1. /\ Len(s) \in Nat /\ DOMAIN s = 1..Len(s)
        /\ \A i \in 1..Len(s) : InPlace(s[i], Number(s, "start", i - 1), Number(s, "stop", i - 1))
        /\ Number(s, "start", Len(s)) = b + 1
        /\ Number(s, "stop", Len(s)) = IF o = "none" THEN b + 1 ELSE b
    BY DEF Nested
  <1>2. \A i \in DOMAIN s :
          LET opened == Number(s, "start", i - 1)
              shut == Number(s, "stop", i - 1)
          IN IF s[i].kind = "start" THEN s[i].at = opened /\ shut = opened
             ELSE s[i].at = opened - 1 /\ shut = opened - 1
    BY <1>1 DEF InPlace
  <1>3. over => Number(s, "start", Len(s)) = Number(s, "stop", Len(s)) BY <1>1
  <1>4. once =>
         \A c \in CallId : \A i, j \in DOMAIN s :
            s[i].kind = "start" /\ s[i].id = c /\ s[j].kind = "start" /\ s[j].id = c => i = j
    BY <1>1 DEF Single, Starts
  <1> QED BY <1>2, <1>3, <1>4 DEF Nest

\* BlocksNest is that promise of the frames the client has.
LEMMA PromisedBlocks == Framing => (BlocksNest <=> Nest(sent, Success, ~said.mixed))
  <1>1. \A kind, i : Count(kind, i) = Number(sent, kind, i) BY DEF Count, Number
  <1> QED BY <1>1 DEF BlocksNest, Nest, Framing

\* As long as the reply goes on.
LEMMA OpenNests == OpenBlocks /\ told = "none" => BlocksNest
  <1> SUFFICES ASSUME OpenBlocks, told = "none" PROVE BlocksNest OBVIOUS
  <1>1. ~Success BY DEF Success, Reasons
  <1>2. Nested(sent, x.block, x.open) /\ (~said.mixed => Single(sent)) BY DEF OpenBlocks
  <1>3. Nest(sent, Success, ~said.mixed) BY <1>1, <1>2, NestedNests
  <1> QED BY <1>3, PromisedBlocks DEF BlocksNest, Framing

\* Nothing is written, and perhaps a call was started.
LEMMA QuietStep ==
    ASSUME OpenBlocks, UNCHANGED <<x, sent, from>>, said.started \in Nat, said'.started \in Nat,
           said'.started >= said.started, ~said'.mixed => ~said.mixed
    PROVE  OpenBlocks'
  <1>1. AWriter(x) /\ IdsRight(x.ids) /\ Nested(sent, x.block, x.open) BY DEF OpenBlocks
  <1>2. AWriter(x)' /\ IdsRight(x.ids)' /\ Nested(sent, x.block, x.open)'
    BY <1>1, ZenonT(60) DEF AWriter, IdsRight, IndexOf, Nested, Number, InPlace
  <1>3. ASSUME ~said.mixed PROVE Single(sent)' /\ InTurn(sent, x.cur, said.started)'
    <2>1. Single(sent) /\ InTurn(sent, x.cur, said.started) BY <1>3 DEF OpenBlocks
    <2>2. Single(sent)' BY <2>1 DEF Single, Starts
    <2>3. InTurn(sent, x.cur, said.started)'
      <3>1. ASSUME NEW c \in CallId, Starts(sent, c) # {}
            PROVE  c <= said'.started /\ (c = said'.started => x.cur = IndexOf(c))
        <4>1. c <= said.started /\ (c = said.started => x.cur = IndexOf(c)) BY <2>1, <3>1 DEF InTurn
        <4>2. c \in Int BY DialectsAssumption DEF CallId
        <4> QED BY <4>1, <4>2
      <3>2. \A c : Starts(sent, c)' = Starts(sent, c) /\ IndexOf(c)' = IndexOf(c) BY DEF Starts, IndexOf
      <3> QED BY <3>1, <3>2 DEF InTurn
    <2> QED BY <2>2, <2>3
  <1> QED BY <1>2, <1>3 DEF OpenBlocks

\* A text or a thought was written.
LEMMA TextStep ==
    ASSUME OpenBlocks, NEW d, d.kind \in {"text", "reason"}, d.piece \in Seq(Int),
           x' = WriteAnthropic(d).x, sent' = sent \o WriteAnthropic(d).add,
           from' = from, said'.started = said.started, said'.mixed = said.mixed
    PROVE  OpenBlocks'
  <1> DEFINE w == WriteAnthropic(d)
             s == sent'
             y == x'
  <1>1. AWriter(x) /\ IdsRight(x.ids) /\ Nested(sent, x.block, x.open) BY DEF OpenBlocks
  <1>2. Good(x, w) /\ Plain(w.add) /\ (x.cur # None => w.x.cur = x.cur) BY <1>1, TextWritten
  <1>3. s = sent \o w.add /\ y = w.x OBVIOUS
  <1> HIDE DEF w, s, y
  <1>4. AWriter(y) /\ y.ids = x.ids /\ Nested(s, y.block, y.open) BY <1>1, <1>2, <1>3 DEF Good
  <1>5. sent \in Seq(AFrame) /\ w.add \in Seq(AFrame) BY <1>1, <1>2 DEF Nested, Good
  <1>6. \A c \in CallId : Starts(s, c) = Starts(sent, c)
    BY <1>2, <1>3, <1>5, IndexIsIndex, PlainStarts
  <1>7. ASSUME ~said.mixed PROVE Single(s) /\ InTurn(s, y.cur, said.started)
    <2>1. Single(sent) /\ InTurn(sent, x.cur, said.started) BY <1>7 DEF OpenBlocks
    <2>2. Single(s) BY <1>6, <2>1 DEF Single
    <2>3. InTurn(s, y.cur, said.started) BY <1>2, <1>3, <1>6, <2>1, IndexIsIndex DEF InTurn
    <2> QED BY <2>2, <2>3
  <1>8. IdsRight(x.ids)'
    BY <1>1, <1>4 DEF IdsRight, IndexOf, y
  <1>10. AWriter(x)' /\ Nested(sent, x.block, x.open)'
    <2>1. AWriter(x)' BY <1>4 DEF y, AWriter
    <2>2. Nested(s, y.block, y.open) BY <1>4
    <2>3. Nested(sent, x.block, x.open)' BY <2>2 DEF s, y, Nested, Number, InPlace
    <2> QED BY <2>1, <2>3
  <1>11. ~said'.mixed => Single(sent)' /\ InTurn(sent, x.cur, said.started)'
    BY <1>7 DEF s, y, Single, InTurn, Starts, IndexOf
  <1> QED BY <1>8, <1>10, <1>11 DEF OpenBlocks

\* A piece of a call was written.
LEMMA CallStep ==
    ASSUME OpenBlocks, NEW c \in CallId, NEW id \in {0, c}, NEW piece \in Seq(Int),
           x' = WriteAnthropic(CallDelta(IndexOf(c), id, piece)).x,
           sent' = sent \o WriteAnthropic(CallDelta(IndexOf(c), id, piece)).add,
           from' = from,
           ~said'.mixed => ~said.mixed /\ said'.started = c /\ said.started \in {c - 1, c}
    PROVE  OpenBlocks'
  <1> DEFINE at == IndexOf(c)
             d == CallDelta(at, id, piece)
             w == WriteAnthropic(d)
             z == Identify(x, d)
             s == sent'
             y == x'
  <1>1. AWriter(x) /\ IdsRight(x.ids) /\ Nested(sent, x.block, x.open) BY DEF OpenBlocks
  <1>2. at \in Index /\ at # None /\ c \in Nat \ {0} /\ id \in Nat
        /\ \A e \in CallId : IndexOf(e) = at => e = c
    BY IndexIsIndex
  <1>3. s = sent \o w.add /\ y = w.x OBVIOUS
  <1> HIDE DEF s, y, at
  <1>4. /\ AWriter(z) /\ z.block = x.block /\ z.open = x.open /\ z.cur = x.cur
        /\ z.ids = IF id = 0 THEN x.ids ELSE [x.ids EXCEPT ![at] = id]
        /\ Good(z, w) /\ w.x.cur = at
        /\ IF x.cur = at THEN Plain(w.add) ELSE One(w.add, z.ids[at])
    BY <1>1, <1>2, CallWritten
  <1> HIDE DEF w, z, d
  <1>5. AWriter(y) /\ y.ids = z.ids /\ Nested(s, y.block, y.open) /\ y.cur = at
        /\ sent \in Seq(AFrame) /\ w.add \in Seq(AFrame)
    BY <1>1, <1>3, <1>4 DEF Good, Nested
  <1>6. IdsRight(z.ids)
    <2>1. x.ids \in [Index -> Nat] BY <1>1 DEF AWriter
    <2>2. ASSUME NEW e \in CallId PROVE z.ids[IndexOf(e)] \in {0, e}
      <3>1. IndexOf(e) \in Index /\ x.ids[IndexOf(e)] \in {0, e} BY <1>1, IndexIsIndex DEF IdsRight
      <3>2. IndexOf(e) = at => e = c BY <1>2
      <3> QED BY <1>4, <2>1, <3>1, <3>2
    <2> QED BY <2>2 DEF IdsRight
  <1>7. z.ids[at] \in {0, c} BY <1>6 DEF IdsRight, at
  <1>8. ASSUME ~said'.mixed PROVE Single(s) /\ InTurn(s, y.cur, c)
    <2>1. Single(sent) /\ InTurn(sent, x.cur, said.started) /\ said.started \in {c - 1, c}
      BY <1>8 DEF OpenBlocks
    <2>2. \A e \in CallId : Starts(sent, e) # {} => e <= c
      BY <1>2, <2>1, IndexIsIndex, SMTT(60) DEF InTurn
    <2>3. /\ Single(s)
          /\ \A e \in CallId : e # c => Starts(s, e) = Starts(sent, e)
      <3>1. CASE Plain(w.add)
        <4>1. \A e \in CallId : Starts(s, e) = Starts(sent, e)
          BY <1>3, <1>5, <3>1, IndexIsIndex, PlainStarts
        <4> QED BY <2>1, <4>1 DEF Single
      <3>2. CASE ~Plain(w.add)
        <4>1. x.cur # at /\ One(w.add, c)
          <5>1. x.cur # at /\ One(w.add, z.ids[at]) BY <1>4, <3>2
          <5>2. z.ids[at] # 0 BY <3>2, <5>1, NoneIsPlain
          <5> QED BY <1>7, <5>1, <5>2
        <4>2. Starts(sent, c) = {}
          <5>1. Starts(sent, c) # {} => c <= said.started /\ (c = said.started => x.cur = at)
            BY <2>1 DEF InTurn, at
          <5> QED BY <1>2, <2>1, <4>1, <5>1
        <4>3. /\ \A i, j \in Starts(s, c) : i = j
              /\ \A e \in Nat \ {0} : e # c => Starts(s, e) = Starts(sent, e)
          <5>1. sent \in Seq(AFrame) /\ w.add \in Seq(AFrame) /\ c \in Nat \ {0} BY <1>2, <1>5
          <5> DEFINE a == w.add
          <5> HIDE DEF a
          <5>2. a \in Seq(AFrame) /\ One(a, c) /\ s = sent \o a BY <1>3, <4>1, <5>1 DEF a
          <5> QED BY <4>2, <5>1, <5>2, OneStarts
        <4>4. \A e \in CallId : e # c => Starts(s, e) = Starts(sent, e) BY <4>3, IndexIsIndex
        <4> QED BY <2>1, <4>3, <4>4 DEF Single
      <3> QED BY <3>1, <3>2
    <2>4. InTurn(s, y.cur, c)
      <3> SUFFICES ASSUME NEW e \in CallId, Starts(s, e) # {}
                   PROVE  e <= c /\ (e = c => y.cur = IndexOf(e))
        BY DEF InTurn
      <3>1. CASE e = c BY <1>2, <1>5, <3>1 DEF at
      <3>2. CASE e # c BY <2>2, <2>3, <3>2
      <3> QED BY <3>1, <3>2
    <2> QED BY <2>3, <2>4
  <1>9. IdsRight(x.ids)' BY <1>5, <1>6 DEF IdsRight, IndexOf, y
  <1>10. AWriter(x)' /\ Nested(sent, x.block, x.open)'
    <2>2. AWriter(x)' BY <1>5 DEF y, AWriter
    <2>3. Nested(s, y.block, y.open) BY <1>5
    <2>4. Nested(sent, x.block, x.open)' BY <2>3 DEF s, y, Nested, Number, InPlace
    <2> QED BY <2>2, <2>4
  <1>11. ~said'.mixed => Single(sent)' /\ InTurn(sent, x.cur, said.started)'
    BY <1>8, SMTT(60) DEF s, y, Single, InTurn, Starts, IndexOf
  <1> QED BY <1>9, <1>10, <1>11 DEF OpenBlocks

\* What a delta does to a stream for an Anthropic client.
LEMMA Writes == ASSUME NEW d, Framing, Deliver(d)
                PROVE  x' = WriteAnthropic(d).x /\ sent' = sent \o WriteAnthropic(d).add
  <1>1. Write(d) = WriteAnthropic(d) BY DEF Framing, Write
  <1> QED BY <1>1 DEF Framing, Deliver

\* A call starts, or says more.
LEMMA Calling ==
    ASSUME Framing, OpenBlocks, said.started \in Nat, NEW c \in CallId, NEW id \in {0, c},
           NEW piece \in Seq(Int), Deliver(CallDelta(IndexOf(c), id, piece)), from' = from,
           ~said'.mixed => ~said.mixed /\ said'.started = c /\ said.started \in {c - 1, c}
    PROVE  OpenBlocks'
  <1> DEFINE d == CallDelta(IndexOf(c), id, piece)
  <1>1. x' = WriteAnthropic(d).x /\ sent' = sent \o WriteAnthropic(d).add BY Writes
  <1> QED BY <1>1, CallStep

\* The upstream says something, or a reply is finished, while it is framed for
\* an Anthropic client.
LEMMA FramingStep ==
    ASSUME BlocksInv, Framing, told = "none", Next
    PROVE  (told' = "none" /\ OpenBlocks') \/ (told' # "none" /\ BlocksNest')
  <1>0. /\ OpenBlocks /\ n \in Nat /\ DOMAIN said.args = CallId
        /\ DOMAIN said = {"text", "thought", "args", "started", "open", "hurt", "mixed", "why", "failed"}
        /\ said.started \in Nat /\ rd.finish \in Reasons \union {"none"}
    BY DEF BlocksInv, EndInv, Shaped
  <1>1. CASE SayText
    <2>1. told' = "none" /\ n' = n + 1 /\ Deliver(Text(n')) /\ from' = from
          /\ said'.started = said.started /\ said'.mixed = said.mixed
      BY <1>0, <1>1 DEF SayText
    <2> DEFINE d == Text(n')
    <2>2. d.kind = "text" /\ d.piece \in Seq(Int) BY <1>0, <2>1 DEF Text, Delta
    <2>3. x' = WriteAnthropic(d).x /\ sent' = sent \o WriteAnthropic(d).add BY <2>1, Writes
    <2> HIDE DEF d
    <2>4. OpenBlocks' BY <1>0, <2>1, <2>2, <2>3, TextStep, SMTT(60)
    <2> QED BY <2>1, <2>4
  <1>2. CASE SayThought
    <2>1. told' = "none" /\ n' = n + 1 /\ Deliver(Reasoning(n')) /\ from' = from
          /\ said'.started = said.started /\ said'.mixed = said.mixed
      BY <1>0, <1>2 DEF SayThought
    <2> DEFINE d == Reasoning(n')
    <2>2. d.kind = "reason" /\ d.piece \in Seq(Int) BY <1>0, <2>1 DEF Reasoning, Delta
    <2>3. x' = WriteAnthropic(d).x /\ sent' = sent \o WriteAnthropic(d).add BY <2>1, Writes
    <2> HIDE DEF d
    <2>4. OpenBlocks' BY <1>0, <2>1, <2>2, <2>3, TextStep, SMTT(60)
    <2> QED BY <2>1, <2>4
  <1>3. CASE StartCall
    <2> DEFINE c == said.started + 1
    <2>1. /\ told' = "none" /\ from' = from /\ said'.started = c /\ said'.mixed = said.mixed
          /\ IF from = "commandcode" THEN Quiet ELSE Deliver(CallDelta(IndexOf(c), c, <<>>))
      BY <1>0, <1>3 DEF StartCall
    <2>2. c \in CallId /\ said.started \in {c - 1, c} /\ <<>> \in Seq(Int) /\ c \in Nat /\ c >= said.started
      BY <1>0, <1>3, DialectsAssumption DEF StartCall, CallId
    <2> HIDE DEF c
    <2>3. CASE from = "commandcode"
      <3>1. UNCHANGED <<x, sent>> BY <2>1, <2>3 DEF Quiet
      <3>2. OpenBlocks' BY <1>0, <2>1, <2>2, <3>1, QuietStep
      <3> QED BY <2>1, <3>2
    <2>4. CASE from # "commandcode"
      <3>1. Deliver(CallDelta(IndexOf(c), c, <<>>)) /\ c \in {0, c} BY <2>1, <2>4
      <3>2. OpenBlocks' BY <1>0, <2>1, <2>2, <3>1, Calling
      <3> QED BY <2>1, <3>2
    <2> QED BY <2>3, <2>4
  <1>4. CASE SayCall
    <2> DEFINE c == said.started + 1
    <2>1. /\ told' = "none" /\ from = "ollama" /\ from' = from /\ said'.started = c /\ said'.mixed = said.mixed
          /\ Deliver(CallDelta(c - 1, c, <<-n'>>)) /\ n' = n + 1
      BY <1>0, <1>4 DEF SayCall
    <2>2. c \in CallId /\ said.started \in {c - 1, c} /\ <<-n'>> \in Seq(Int) /\ c \in {0, c}
      BY <1>0, <1>4, <2>1, DialectsAssumption DEF SayCall, CallId
    <2>3. IndexOf(c) = c - 1 BY <2>1 DEF IndexOf
    <2> HIDE DEF c
    <2>4. OpenBlocks' BY <1>0, <2>1, <2>2, <2>3, Calling
    <2> QED BY <2>1, <2>4
  <1>5. ASSUME NEW c \in CallId, SayArgs(c) PROVE told' = "none" /\ OpenBlocks'
    <2>1. /\ told' = "none" /\ from' = from /\ n' = n + 1 /\ c <= said.started
          /\ \E heard \in {<<0>>, <<-n'>>, <<n'>>} :
               Deliver(CallDelta(IndexOf(c), IF from = "commandcode" THEN c ELSE 0, heard))
      BY <1>5 DEF SayArgs, Growing
    <2>2. said'.started = said.started /\ (~said'.mixed => ~said.mixed /\ ~(c < said.started))
      <3>1. \E piece : said' = [said EXCEPT !.args[c] = Append(@, piece), !.hurt = said'.hurt,
                                            !.mixed = @ \/ c < said.started]
        BY <1>0, <1>5 DEF SayArgs
      <3> QED BY <1>0, <3>1
    <2>3. PICK heard \in {<<0>>, <<-n'>>, <<n'>>} :
               Deliver(CallDelta(IndexOf(c), IF from = "commandcode" THEN c ELSE 0, heard))
      BY <2>1
    <2>4. heard \in Seq(Int)
      <3>1. n' \in Int /\ -n' \in Int BY <1>0, <2>1
      <3>2. <<0>> \in Seq(Int) /\ <<n'>> \in Seq(Int) /\ <<-n'>> \in Seq(Int) BY <3>1
      <3> QED BY <2>3, <3>2
    <2> DEFINE id == IF from = "commandcode" THEN c ELSE 0
    <2>5. id \in {0, c} /\ Deliver(CallDelta(IndexOf(c), id, heard)) BY <2>3
    <2>6. ~said'.mixed => ~said.mixed /\ said'.started = c /\ said.started \in {c - 1, c}
      <3>1. c \in Nat BY IndexIsIndex
      <3> QED BY <1>0, <2>1, <2>2, <3>1
    <2> HIDE DEF id
    <2>7. OpenBlocks' BY <1>0, <2>1, <2>4, <2>5, <2>6, Calling
    <2> QED BY <2>1, <2>7
  <1>6. ASSUME NEW c \in CallId, EndCall(c) PROVE told' = "none" /\ OpenBlocks'
    <2>1. told' = "none" /\ from' = from /\ c <= said.started BY <1>6 DEF EndCall
    <2>2. CASE c \in rd.seen
      <3>1. UNCHANGED <<x, sent, said>> BY <1>6, <2>2 DEF EndCall, CloseDelta, Quiet
      <3>2. OpenBlocks' BY <1>0, <2>1, <3>1, QuietStep
      <3> QED BY <2>1, <3>2
    <2>3. CASE c \notin rd.seen
      <3>1. /\ n' = n + 1
            /\ said' = [said EXCEPT !.args[c] = <<-n'>>, !.mixed = @ \/ c < said.started]
            /\ Deliver(CallDelta(IndexOf(c), c, said'.args[c]))
        BY <1>6, <2>3 DEF EndCall, CloseDelta
      <3>2. said'.started = said.started /\ (~said'.mixed => ~said.mixed /\ ~(c < said.started))
            /\ said'.args[c] = <<-n'>>
        BY <1>0, <3>1
      <3>3. <<-n'>> \in Seq(Int) /\ c \in {0, c} BY <1>0, <3>1
      <3>4. ~said'.mixed => ~said.mixed /\ said'.started = c /\ said.started \in {c - 1, c}
        <4>1. c \in Nat BY IndexIsIndex
        <4> QED BY <1>0, <2>1, <3>2, <4>1
      <3>5. Deliver(CallDelta(IndexOf(c), c, <<-n'>>)) BY <3>1, <3>2
      <3>6. OpenBlocks' BY <1>0, <2>1, <3>3, <3>4, <3>5, Calling
      <3> QED BY <2>1, <3>6
    <2> QED BY <2>2, <2>3
  <1>7. CASE SayError \/ \E why \in Reasons : SayWhy(why)
    <2>1. told' = "none" /\ UNCHANGED <<from, x, sent>> BY <1>7 DEF SayError, SayWhy
    <2>2. said'.started = said.started /\ said'.mixed = said.mixed
      BY <1>0, <1>7 DEF SayError, SayWhy
    <2>3. OpenBlocks' BY <1>0, <2>1, <2>2, QuietStep
    <2> QED BY <2>1, <2>3
  <1>8. CASE Close \/ Cut
    <2>1. UNCHANGED <<to, mode, said, x>> /\ mode = "stream" /\ to = "anthropic"
      BY <1>8 DEF Close, Cut, Framing
    <2>2. CASE Broken
      <3>1. sent' = sent /\ told' \in {"error", "nothing"} BY <2>2 DEF Broken, TellError
      <3>2. ~Success' BY <3>1 DEF Success, Reasons
      <3>3. BlocksNest BY <1>0, OpenNests
      <3>4. BlocksNest' BY <2>1, <3>1, <3>2, <3>3 DEF BlocksNest, Count
      <3> QED BY <3>1, <3>4
    <2>3. CASE ~Broken
      <3>1. sent' = sent \o Finishing /\ told' = Tell(EndReason)
        BY <1>8, <2>1, <2>3 DEF Close, Cut
      <3>2. Finishing = EmitHeld(x).add /\ Tell(EndReason) = EndReason BY <2>1 DEF Finishing, Tell
      <3>3. EndReason # "none" BY DEF EndReason
      <3> DEFINE w == EmitHeld(x)
                 s == sent'
      <3>4. s = sent \o w.add BY <3>1, <3>2
      <3>5. AWriter(x) /\ Nested(sent, x.block, x.open) BY <1>0 DEF OpenBlocks
      <3>6. Good(x, w) /\ Plain(w.add) /\ w.x.open = "none" BY <3>5, Flushing
      <3> DEFINE over == Success'
      <3> HIDE DEF w, s, over
      <3>7. Nested(s, w.x.block, "none") /\ sent \in Seq(AFrame) /\ w.add \in Seq(AFrame)
        BY <3>4, <3>5, <3>6 DEF Good, Nested
      <3>8. ~said.mixed => Single(s)
        <4>1. \A c \in CallId : Starts(s, c) = Starts(sent, c)
          BY <3>4, <3>6, <3>7, IndexIsIndex, PlainStarts
        <4> QED BY <1>0, <4>1 DEF OpenBlocks, Single
      <3>9. BlocksNest'
        <4>1. Nest(s, over, ~said.mixed) BY <3>7, <3>8, NestedNests
        <4>2. \A kind, i : Count(kind, i)' = Number(s, kind, i) BY DEF Count, Number, s
        <4> QED BY <2>1, <4>1, <4>2 DEF BlocksNest, Nest, s, over
      <3> QED BY <3>1, <3>2, <3>3, <3>9
    <2> QED BY <2>2, <2>3
  <1> QED BY <1>1, <1>2, <1>3, <1>4, <1>5, <1>6, <1>7, <1>8 DEF Next

\* What the reader has and the arguments' places stay as they are.
LEMMA PlacesStay ==
    ASSUME EndInv, n \in Nat, DOMAIN said.args = CallId, [Next]_vars
    PROVE  n' \in Nat /\ DOMAIN said'.args = CallId
  <1>0. DOMAIN said = {"text", "thought", "args", "started", "open", "hurt", "mixed", "why", "failed"}
    BY DEF EndInv, Shaped
  <1>1. CASE UNCHANGED vars BY <1>1 DEF vars
  <1>2. CASE SayText \/ SayThought \/ StartCall
    <2>1. n' \in {n, n + 1} /\ said'.args = said.args BY <1>0, <1>2 DEF SayText, SayThought, StartCall
    <2> QED BY <2>1
  <1>3. CASE SayCall
    <2>1. n' = n + 1 /\ DOMAIN said'.args = DOMAIN said.args BY <1>0, <1>3 DEF SayCall
    <2> QED BY <2>1
  <1>4. ASSUME NEW c \in CallId, SayArgs(c) PROVE n' \in Nat /\ DOMAIN said'.args = CallId
    <2>1. n' = n + 1 /\ DOMAIN said'.args = DOMAIN said.args BY <1>0, <1>4 DEF SayArgs
    <2> QED BY <2>1
  <1>5. ASSUME NEW c \in CallId, EndCall(c) PROVE n' \in Nat /\ DOMAIN said'.args = CallId
    <2>1. CASE UNCHANGED <<n, said>> BY <2>1
    <2>2. CASE ~UNCHANGED <<n, said>>
      <3>1. n' = n + 1 /\ said' = [said EXCEPT !.args[c] = <<-n'>>, !.mixed = @ \/ c < said.started]
        BY <1>5, <2>2 DEF EndCall
      <3>2. DOMAIN said'.args = DOMAIN said.args BY <1>0, <3>1
      <3> QED BY <3>1, <3>2
    <2> QED BY <2>1, <2>2
  <1>6. CASE SayError \/ (\E why \in Reasons : SayWhy(why)) \/ Close \/ Cut
    <2>1. n' = n /\ said'.args = said.args BY <1>0, <1>6 DEF SayError, SayWhy, Close, Cut
    <2> QED BY <2>1
  <1> QED BY <1>1, <1>2, <1>3, <1>4, <1>5, <1>6 DEF Next

\* Every step keeps the blocks in order.
LEMMA BlocksStep == BlocksInv /\ [Next]_vars => BlocksInv'
  <1> SUFFICES ASSUME BlocksInv, [Next]_vars PROVE BlocksInv' OBVIOUS
  <1>1. EndInv' /\ n' \in Nat /\ DOMAIN said'.args = CallId
    BY EndStep, PlacesStay DEF BlocksInv
  <1>2. UNCHANGED <<to, mode>>
    BY DEF vars, Next, SayText, SayThought, StartCall, SayCall, SayArgs, EndCall, SayWhy, SayError,
           Close, Cut
  <1>3. ASSUME Framing, UNCHANGED vars PROVE IF told' = "none" THEN OpenBlocks' ELSE BlocksNest'
    <2>1. told' # "none" => BlocksNest' BY <1>3 DEF BlocksInv, vars, BlocksNest, Count, Success
    <2>2. told' = "none" => OpenBlocks'
      <3> SUFFICES ASSUME told' = "none" PROVE OpenBlocks' OBVIOUS
      <3>1. OpenBlocks /\ UNCHANGED <<x, sent, from, said>> /\ said.started \in Nat
        BY <1>3 DEF BlocksInv, vars, EndInv, Shaped
      <3>2. said'.started \in Nat /\ said'.started >= said.started /\ (~said'.mixed => ~said.mixed)
        BY <3>1
      <3> QED BY <3>1, <3>2, QuietStep
    <2> QED BY <2>1, <2>2
  <1>4. ASSUME Framing, Next PROVE IF told' = "none" THEN OpenBlocks' ELSE BlocksNest'
    <2>1. told = "none"
      BY <1>4 DEF Next, SayText, SayThought, StartCall, SayCall, SayArgs, EndCall, SayWhy, SayError,
                  Saying, Close, Cut
    <2>2. (told' = "none" /\ OpenBlocks') \/ (told' # "none" /\ BlocksNest')
      BY <1>4, <2>1, FramingStep
    <2> QED BY <2>2
  <1>5. Framing' => Framing BY <1>2 DEF Framing
  <1> QED BY <1>1, <1>3, <1>4, <1>5 DEF BlocksInv

\* They are in order at the beginning.
LEMMA BlocksBegin == Init => BlocksInv
  <1> SUFFICES ASSUME Init PROVE BlocksInv OBVIOUS
  <1>1. /\ x = NewWriter /\ sent = <<>> /\ told = "none" /\ n = 0
        /\ said = [text |-> <<>>, thought |-> <<>>, args |-> [c \in CallId |-> <<>>],
                   started |-> 0, open |-> 0, hurt |-> {}, mixed |-> FALSE, why |-> "none",
                   failed |-> FALSE]
    BY DEF Init
  <1>2. DOMAIN said.args = CallId /\ n \in Nat BY <1>1
  <1>3. AWriter(x)
    <2>1. DOMAIN NewWriter = {"block", "open", "cur", "held", "ids", "outIdx", "msgOpen", "msgIdx",
                              "fullText", "order", "itemAt", "args"}
      BY DEF NewWriter
    <2>2. NewWriter.block = None /\ NewWriter.open = "none" /\ NewWriter.cur = None
          /\ NewWriter.held = <<>> /\ NewWriter.ids = [i \in Index |-> 0]
      BY DEF NewWriter
    <2> QED BY <1>1, <2>1, <2>2 DEF AWriter, None
  <1>4. IdsRight(x.ids)
    <2>1. x.ids = [i \in Index |-> 0] BY <1>1 DEF NewWriter
    <2> QED BY <2>1, IndexIsIndex DEF IdsRight
  <1>5. Nested(sent, x.block, x.open)
    <2>1. x.block = -1 /\ x.open = "none" BY <1>1 DEF NewWriter, None
    <2>2. sent \in Seq(AFrame) /\ Len(sent) = 0 /\ \A i : i \notin 1..0 BY <1>1
    <2>3. ASSUME NEW kind PROVE Number(sent, kind, 0) = 0
      <3>1. {j \in 1..0 : sent[j].kind = kind} = {} BY <2>2
      <3> QED BY <3>1, FS_EmptySet DEF Number
    <2> QED BY <2>1, <2>2, <2>3 DEF Nested
  <1>6. Single(sent) /\ InTurn(sent, x.cur, said.started)
    <2>1. \A c : Starts(sent, c) = {} BY <1>1 DEF Starts
    <2> QED BY <2>1 DEF Single, InTurn
  <1>7. OpenBlocks BY <1>3, <1>4, <1>5, <1>6 DEF OpenBlocks
  <1> QED BY <1>1, <1>2, <1>7, EndBegins DEF BlocksInv

\* The blocks of an Anthropic stream nest, none is left open, and no call has
\* two of them unless the upstream went back: WriteAnthropicStream.
THEOREM BlocksAlwaysNest == Spec => []BlocksNest
  <1>1. BlocksInv => BlocksNest BY OpenNests DEF BlocksInv, BlocksNest, Framing
  <1> QED BY <1>1, BlocksBegin, BlocksStep, PTL DEF Spec

-------------------------------------------------------------------------------
(* Sequences of sequences joined.                                            *)

\* Every set of numbers that holds one holds a least one.
LEMMA LeastNat ==
    ASSUME NEW S \in SUBSET Nat, S # {}
    PROVE  \E len \in S : \A m \in S : len <= m
  <1> DEFINE F == {1..len : len \in S}
             R == StrictSubsetOrdering(Nat)
  <1>1. F \subseteq FiniteSubsetsOf(Nat) BY FS_Interval DEF FiniteSubsetsOf
  <1>2. F # {} OBVIOUS
  <1>3. PICK piece \in F : \A y \in F : ~ (<<y, piece>> \in R)
    <2> HIDE DEF F
    <2> QED BY <1>1, <1>2, WFMin, FS_StrictSubsetOrderingWellFounded
  <1>4. PICK len \in S : piece = 1..len OBVIOUS
  <1>5. ASSUME NEW m \in S, m < len PROVE FALSE
    <2>1. 1..m \in F /\ <<1..m, 1..len>> \in R BY <1>5 DEF StrictSubsetOrdering
    <2> QED BY <1>3, <1>4, <2>1
  <1> QED BY <1>5

\* What holds of lo and of each number after one it holds of, holds up to hi.
LEMMA Climb ==
    ASSUME NEW lo \in Nat, NEW hi \in Nat, NEW G, lo \in G,
           \A k \in (lo + 1)..hi : k - 1 \in G => k \in G
    PROVE  \A k \in lo..hi : k \in G
  <1> DEFINE bad == {k \in lo..hi : k \notin G}
  <1> SUFFICES ASSUME bad # {} PROVE FALSE OBVIOUS
  <1>1. PICK k \in bad : \A m \in bad : k <= m
    <2>1. bad \in SUBSET Nat OBVIOUS
    <2> HIDE DEF bad
    <2> QED BY <2>1, LeastNat
  <1>2. k \in lo..hi /\ k \notin G /\ k # lo BY <1>1
  <1>3. k \in (lo + 1)..hi /\ k - 1 \in lo..hi /\ k - 1 < k BY <1>2
  <1>4. k - 1 \notin bad
    <2> HIDE DEF bad
    <2> QED BY <1>1, <1>2, <1>3
  <1>5. k - 1 \in G BY <1>3, <1>4
  <1> QED BY <1>2, <1>3, <1>5

\* g joins the first len of ss.
Joins(g, ss, len) ==
    g = [i \in 1..len |-> IF i = 1 THEN ss[i] ELSE g[i-1] \o ss[i]]
Join(ss) == CHOOSE g : Joins(g, ss, Len(ss))

\* The sequences are joined from the left, one more at a time.
LEMMA JoinOne ==
    ASSUME NEW ss, NEW len \in Nat, NEW g, Joins(g, ss, len)
    PROVE  \E h : Joins(h, ss, len + 1)
  <1> DEFINE h == [i \in 1..(len + 1) |-> IF i \in 1..len THEN g[i]
                                        ELSE IF i = 1 THEN ss[i] ELSE g[i-1] \o ss[i]]
  <1>1. ASSUME NEW i \in 1..(len + 1) PROVE h[i] = IF i = 1 THEN ss[i] ELSE h[i-1] \o ss[i]
    <2>1. CASE i \in 1..len
      <3>1. h[i] = g[i] /\ (i # 1 => i - 1 \in 1..len /\ h[i-1] = g[i-1]) BY <2>1
      <3>2. g[i] = IF i = 1 THEN ss[i] ELSE g[i-1] \o ss[i] BY <2>1 DEF Joins
      <3> QED BY <3>1, <3>2
    <2>2. CASE i \notin 1..len
      <3>1. i = len + 1 BY <2>2
      <3>2. i # 1 => i - 1 \in 1..len /\ i - 1 \in 1..(len + 1) /\ h[i-1] = g[i-1] BY <3>1
      <3> QED BY <2>2, <3>2
    <2> QED BY <2>1, <2>2
  <1>2. h = [i \in 1..(len + 1) |-> h[i]] OBVIOUS
  <1> HIDE DEF h
  <1>3. h = [i \in 1..(len + 1) |-> IF i = 1 THEN ss[i] ELSE h[i-1] \o ss[i]] BY <1>1, <1>2
  <1> QED BY <1>3 DEF Joins

\* So there is a function that has every partial join.
LEMMA JoinIsThere ==
    ASSUME NEW ss, Len(ss) \in Nat
    PROVE  Joins(Join(ss), ss, Len(ss))
  <1> DEFINE bad == {len \in Nat : ~ \E g : Joins(g, ss, len)}
  <1>1. bad = {}
    <2> SUFFICES ASSUME bad # {} PROVE FALSE OBVIOUS
    <2>1. PICK k \in bad : \A m \in bad : k <= m BY LeastNat
    <2>2. k # 0
      <3> DEFINE e == [i \in 1..0 |-> ss[i]]
      <3>1. Joins(e, ss, 0) BY DEF Joins
      <3> QED BY <2>1, <3>1
    <2>3. k - 1 \in Nat /\ k - 1 \notin bad /\ (k - 1) + 1 = k BY <2>1, <2>2
    <2>4. PICK g : Joins(g, ss, k - 1) BY <2>3
    <2>5. \E h : Joins(h, ss, k) BY <2>3, <2>4, JoinOne
    <2> QED BY <2>1, <2>5
  <1>2. \E g : Joins(g, ss, Len(ss)) BY <1>1
  <1> QED BY <1>2 DEF Join

\* FlattenSeq takes the last of them.
LEMMA FlattenIsJoin ==
    ASSUME NEW ss
    PROVE  FlattenSeq(ss) = IF Len(ss) = 0 THEN ss ELSE Join(ss)[Len(ss)]
  BY DEF FlattenSeq, Join, Joins

\* Nothing joined is nothing.
LEMMA FlattenNone == FlattenSeq(<<>>) = <<>>
  BY FlattenIsJoin

\* What is joined is a sequence of what was.
LEMMA FlattenIn ==
    ASSUME NEW V, NEW ss \in Seq(Seq(V))
    PROVE  /\ FlattenSeq(ss) \in Seq(V)
           /\ \A i \in 1..Len(ss) : Join(ss)[i] \in Seq(V)
  <1> DEFINE len == Len(ss)
             g == Join(ss)
             bad == {i \in Nat : i \in 1..len /\ g[i] \notin Seq(V)}
  <1>1. len \in Nat /\ ss \in [1..len -> Seq(V)] OBVIOUS
  <1>2. Joins(g, ss, len) BY <1>1, JoinIsThere
  <1> HIDE DEF g
  <1>3. \A i \in 1..len : g[i] = IF i = 1 THEN ss[i] ELSE g[i-1] \o ss[i] BY <1>2 DEF Joins
  <1>4. bad = {}
    <2> SUFFICES ASSUME bad # {} PROVE FALSE OBVIOUS
    <2>1. PICK k \in bad : \A m \in bad : k <= m BY LeastNat
    <2>2. k \in 1..len /\ g[k] \notin Seq(V) /\ ss[k] \in Seq(V) BY <1>1, <2>1
    <2>3. k # 1 BY <1>3, <2>2
    <2>4. k - 1 \in 1..len /\ k - 1 \notin bad BY <1>1, <2>1, <2>2, <2>3
    <2>5. g[k-1] \in Seq(V) BY <2>4
    <2>6. g[k] = g[k-1] \o ss[k] BY <1>3, <2>2, <2>3
    <2> QED BY <2>2, <2>5, <2>6
  <1>5. \A i \in 1..len : g[i] \in Seq(V) BY <1>4
  <1>6. CASE len = 0
    <2>1. FlattenSeq(ss) = ss /\ ss = <<>> BY <1>1, <1>6, FlattenIsJoin
    <2> QED BY <1>5, <2>1 DEF g
  <1>7. CASE len # 0
    <2>1. FlattenSeq(ss) = g[len] /\ len \in 1..len BY <1>1, <1>7, FlattenIsJoin DEF g
    <2> QED BY <1>5, <2>1 DEF g
  <1> QED BY <1>6, <1>7

\* One sequence more.
LEMMA FlattenMore ==
    ASSUME NEW V, NEW ss \in Seq(Seq(V)), NEW e \in Seq(V)
    PROVE  FlattenSeq(Append(ss, e)) = FlattenSeq(ss) \o e
  <1> DEFINE len == Len(ss)
             tt == Append(ss, e)
             g == Join(ss)
             h == Join(tt)
             bad == {i \in Nat : i \in 1..len /\ g[i] # h[i]}
  <1>1. /\ len \in Nat /\ Len(tt) = len + 1 /\ tt[len + 1] = e /\ \A i \in 1..len : tt[i] = ss[i]
        /\ len = 0 => ss = <<>>
    OBVIOUS
  <1> HIDE DEF tt
  <1>2. Joins(g, ss, len) /\ Joins(h, tt, len + 1)
    <2>1. len + 1 \in Nat BY <1>1
    <2> QED BY <1>1, <2>1, JoinIsThere
  <1>3. FlattenSeq(ss) = (IF len = 0 THEN ss ELSE g[len]) /\ FlattenSeq(tt) = h[len + 1]
    BY <1>1, FlattenIsJoin
  <1> HIDE DEF g, h, len
  <1>4. /\ \A i \in 1..len : g[i] = IF i = 1 THEN ss[i] ELSE g[i-1] \o ss[i]
        /\ \A i \in 1..(len + 1) : h[i] = IF i = 1 THEN tt[i] ELSE h[i-1] \o tt[i]
    BY <1>2 DEF Joins
  <1>5. bad = {}
    <2> SUFFICES ASSUME bad # {} PROVE FALSE OBVIOUS
    <2>1. PICK k \in bad : \A m \in bad : k <= m BY LeastNat
    <2>2. k \in 1..len /\ k \in 1..(len + 1) /\ g[k] # h[k] /\ tt[k] = ss[k] BY <1>1, <2>1
    <2>3. k # 1 BY <1>4, <2>2
    <2>4. k - 1 \in 1..len /\ k - 1 \notin bad BY <1>1, <2>1, <2>2, <2>3
    <2>5. g[k-1] = h[k-1] BY <2>4
    <2> QED BY <1>4, <2>2, <2>3, <2>5
  <1>6. CASE len = 0
    <2>1. h[1] = e /\ FlattenSeq(tt) = h[1] BY <1>1, <1>3, <1>4, <1>6
    <2>2. FlattenSeq(ss) = <<>> BY <1>1, <1>3, <1>6
    <2>3. <<>> \o e = e OBVIOUS
    <2> QED BY <2>1, <2>2, <2>3 DEF tt
  <1>7. CASE len # 0
    <2>1. len \in 1..len /\ g[len] = h[len] BY <1>1, <1>5, <1>7
    <2>2. len + 1 \in 1..(len + 1) /\ len + 1 # 1 /\ (len + 1) - 1 = len BY <1>1, <1>7
    <2>3. h[len + 1] = h[len] \o e BY <1>1, <1>4, <2>2
    <2> QED BY <1>3, <1>7, <2>1, <2>3 DEF tt
  <1> QED BY <1>6, <1>7

\* Which two of three are joined first does not matter.
LEMMA Regroup ==
    ASSUME NEW V, NEW a \in Seq(V), NEW b \in Seq(V), NEW c \in Seq(V)
    PROVE  (a \o b) \o c = a \o (b \o c)
  OBVIOUS

\* Joining two parts.
LEMMA FlattenBoth ==
    ASSUME NEW V, NEW ss \in Seq(Seq(V)), NEW tt \in Seq(Seq(V))
    PROVE  FlattenSeq(ss \o tt) = FlattenSeq(ss) \o FlattenSeq(tt)
  <1> DEFINE len == Len(tt)
             t(i) == SubSeq(tt, 1, i)
             good == {i \in Nat : FlattenSeq(ss \o t(i)) = FlattenSeq(ss) \o FlattenSeq(t(i))}
  <1>1. len \in Nat /\ t(len) = tt OBVIOUS
  <1>2. 0 \in good
    <2>1. t(0) = <<>> /\ ss \o <<>> = ss OBVIOUS
    <2>2. FlattenSeq(ss) \o <<>> = FlattenSeq(ss)
      <3>1. FlattenSeq(ss) \in Seq(V) BY FlattenIn
      <3> HIDE DEF t
      <3> QED BY <3>1
    <2> QED BY <2>1, <2>2, FlattenNone
  <1>3. ASSUME NEW k \in 1..len, k - 1 \in good PROVE k \in good
    <2>55. FlattenSeq(ss \o t(k-1)) = FlattenSeq(ss) \o FlattenSeq(t(k-1)) BY <1>3
    <2>6. t(k-1) \in Seq(Seq(V)) /\ tt[k] \in Seq(V) /\ t(k) = Append(t(k-1), tt[k])
      BY <1>1
    <2> HIDE DEF t
    <2>7. ss \o t(k) = Append(ss \o t(k-1), tt[k]) /\ ss \o t(k-1) \in Seq(Seq(V))
      <3> DEFINE W == Seq(V)
                 b == t(k-1)
                 c == tt[k]
      <3>1. ss \in Seq(W) /\ b \in Seq(W) /\ c \in W /\ t(k) = Append(b, c) BY <2>6
      <3> HIDE DEF W, b, c
      <3>2. ss \o Append(b, c) = Append(ss \o b, c) /\ ss \o b \in Seq(W) BY <3>1
      <3> QED BY <3>1, <3>2 DEF W, b, c
    <2>8. FlattenSeq(t(k)) = FlattenSeq(t(k-1)) \o tt[k] BY <2>6, FlattenMore
    <2>9. FlattenSeq(ss \o t(k)) = FlattenSeq(ss \o t(k-1)) \o tt[k] BY <2>6, <2>7, FlattenMore
    <2> DEFINE a == FlattenSeq(ss)
               b == FlattenSeq(t(k-1))
               c == tt[k]
    <2>10. a \in Seq(V) /\ b \in Seq(V) /\ c \in Seq(V) BY <2>6, FlattenIn
    <2> HIDE DEF a, b, c
    <2>11. (a \o b) \o c = a \o (b \o c)
      <3>1. \A p, q, r \in Seq(V) : (p \o q) \o r = p \o (q \o r) BY Regroup, SMTT(60)
      <3> QED BY <2>10, <3>1
    <2>12. FlattenSeq(ss \o t(k)) = FlattenSeq(ss) \o FlattenSeq(t(k))
      BY <2>55, <2>8, <2>9, <2>11 DEF a, b, c
    <2> QED BY <2>12
  <1>4. len \in good
    <2>1. len \in Nat /\ 0 \in Nat /\ 0 + 1 = 1 /\ len \in 0..len BY <1>1
    <2> HIDE DEF good, len
    <2> QED BY <2>1, <1>2, <1>3, Climb
  <1> QED BY <1>1, <1>4

\* Joining sequences of one.
LEMMA FlattenSingles ==
    ASSUME NEW V, NEW len \in Nat, NEW f \in [1..len -> V]
    PROVE  FlattenSeq([i \in 1..len |-> <<f[i]>>]) = f
  <1> DEFINE ss(m) == [i \in 1..m |-> <<f[i]>>]
             t(m) == [i \in 1..m |-> f[i]]
             good == {m \in Nat : FlattenSeq(ss(m)) = t(m)}
  <1>1. 0 \in good
    <2>1. ss(0) = <<>> /\ t(0) = <<>> OBVIOUS
    <2> QED BY <2>1, FlattenNone
  <1>2. ASSUME NEW k \in 1..len, k - 1 \in good PROVE k \in good
    <2>4. k - 1 \in Nat /\ k \in Nat OBVIOUS
    <2>5. FlattenSeq(ss(k-1)) = t(k-1) BY <1>2
    <2>6. /\ \A i \in 1..(k-1) : i \in 1..len
          /\ k \in 1..len /\ f[k] \in V
      OBVIOUS
    <2>7. ss(k-1) \in Seq(Seq(V)) /\ <<f[k]>> \in Seq(V) BY <2>4, <2>6
    <2>8. ss(k) = Append(ss(k-1), <<f[k]>>)
      <3> DEFINE a == ss(k-1)
      <3>1. a \in Seq(Seq(V)) /\ Len(a) = k - 1 /\ \A i \in 1..(k-1) : a[i] = <<f[i]>>
        BY <2>4, <2>7
      <3>2. ss(k) \in Seq(Seq(V)) /\ Len(ss(k)) = k /\ \A i \in 1..k : ss(k)[i] = <<f[i]>>
        BY <2>4, <2>6
      <3> HIDE DEF a
      <3> QED BY <2>4, <2>7, <3>1, <3>2 DEF a
    <2>9. t(k) = t(k-1) \o <<f[k]>>
      <3>1. t(k-1) \in Seq(V) /\ Len(t(k-1)) = k - 1 BY <2>4, <2>6
      <3> QED BY <2>4, <2>6, <3>1
    <2>10. FlattenSeq(ss(k)) = FlattenSeq(ss(k-1)) \o <<f[k]>>
      <3> HIDE DEF ss
      <3> QED BY <2>7, <2>8, FlattenMore
    <2> QED BY <2>4, <2>5, <2>9, <2>10
  <1>4. len \in good
    <2> HIDE DEF good
    <2> QED BY <1>1, <1>2, Climb
  <1>3. ss(len) = [i \in 1..len |-> <<f[i]>>] /\ t(len) = f OBVIOUS
  <1>5. FlattenSeq(ss(len)) = t(len) BY <1>4
  <1> HIDE DEF ss, t
  <1> QED BY <1>3, <1>5

-------------------------------------------------------------------------------
(* Element by element.                                                       *)

\* A function of the elements; what g makes of each element, in a row.
Makes(g, V, W) == g \in [V -> W]
Each(g, s) == [i \in DOMAIN s |-> g[s[i]]]
Flat(g, s) == FlattenSeq(Each(g, s))

\* The pieces of a row.
LEMMA PiecesType ==
    ASSUME NEW V, NEW W, NEW g, Makes(g, V, W), NEW s \in Seq(V)
    PROVE  /\ Each(g, s) \in Seq(W) /\ Len(Each(g, s)) = Len(s) /\ Len(s) \in Nat
           /\ \A i \in 1..Len(s) : Each(g, s)[i] = g[s[i]]
  <1> DEFINE len == Len(s)
             f == Each(g, s)
  <1>1. len \in Nat /\ DOMAIN s = 1..len /\ \A i \in 1..len : s[i] \in V OBVIOUS
  <1>2. \A i \in 1..len : g[s[i]] \in W BY <1>1 DEF Makes
  <1>3. f = [i \in 1..len |-> g[s[i]]] BY <1>1 DEF Each
  <1> HIDE DEF len, f
  <1>4. f \in Seq(W) /\ Len(f) = len /\ \A i \in 1..len : f[i] = g[s[i]] BY <1>1, <1>2, <1>3
  <1> QED BY <1>1, <1>4 DEF len, f

\* The pieces of two rows, one after the other, are the pieces of each.
LEMMA PiecesBoth ==
    ASSUME NEW V, NEW W, NEW g, Makes(g, V, W), NEW a \in Seq(V), NEW b \in Seq(V)
    PROVE  Each(g, a \o b) = Each(g, a) \o Each(g, b)
  <1> DEFINE c == a \o b
             pa == Each(g, a)
             pb == Each(g, b)
             pc == Each(g, c)
             len == Len(a)
  <1>1. c \in Seq(V) /\ Len(c) = len + Len(b) /\ len \in Nat /\ Len(b) \in Nat
        /\ (\A i \in 1..len : c[i] = a[i]) /\ \A i \in 1..Len(b) : c[len + i] = b[i]
    OBVIOUS
  <1>2. pa \in Seq(W) /\ Len(pa) = len /\ \A i \in 1..len : pa[i] = g[a[i]] BY PiecesType
  <1>3. pb \in Seq(W) /\ Len(pb) = Len(b) /\ \A i \in 1..Len(b) : pb[i] = g[b[i]] BY PiecesType
  <1> HIDE DEF c
  <1>4. pc \in Seq(W) /\ Len(pc) = Len(c) /\ \A i \in 1..Len(c) : pc[i] = g[c[i]]
    BY <1>1, PiecesType
  <1> HIDE DEF pa, pb, pc, len
  <1>5. pa \o pb \in Seq(W) /\ Len(pa \o pb) = Len(pc) /\ Len(pc) \in Nat
    <2>1. pa \in Seq(W) /\ pb \in Seq(W) BY <1>2, <1>3
    <2>2. pa \o pb \in Seq(W) /\ Len(pa \o pb) = Len(pa) + Len(pb) BY <2>1
    <2>3. Len(pa) = len /\ Len(pb) = Len(b) /\ Len(pc) = len + Len(b) BY <1>1, <1>2, <1>3, <1>4
    <2> QED BY <1>1, <2>2, <2>3
  <1>6. ASSUME NEW i \in 1..Len(pc) PROVE pc[i] = (pa \o pb)[i]
    <2>1. CASE i <= len
      <3>1. i \in 1..len /\ i \in 1..Len(c) BY <1>1, <1>4, <2>1
      <3>2. (pa \o pb)[i] = pa[i] BY <1>2, <1>3, <3>1
      <3> QED BY <1>1, <1>2, <1>4, <3>1, <3>2
    <2>2. CASE i > len
      <3>1. i - len \in 1..Len(b) /\ i \in 1..Len(c) /\ len + (i - len) = i BY <1>1, <1>4, <2>2
      <3>2. (pa \o pb)[i] = pb[i - len] BY <1>1, <1>2, <1>3, <2>2, <3>1
      <3>3. c[i] = b[i - len] BY <1>1, <3>1
      <3> QED BY <1>3, <1>4, <3>1, <3>2, <3>3
    <2>3. i <= len \/ i > len BY <1>1, <1>5
    <2> QED BY <2>1, <2>2, <2>3
  <1>7. pc = pa \o pb
    <2> DEFINE d == pa \o pb
    <2>1. d \in Seq(W) /\ pc \in Seq(W) /\ Len(d) = Len(pc) /\ \A i \in 1..Len(pc) : pc[i] = d[i]
      BY <1>4, <1>5, <1>6
    <2> HIDE DEF d
    <2>2. pc = d BY <2>1
    <2> QED BY <2>2, Zenon DEF d
  <1> QED BY <1>7, Zenon DEF pa, pb, pc, c

\* The row made of two parts is the row made of the first, then that of the second.
Rows(g, V, W) ==
    \A a, b \in Seq(V) : /\ Flat(g, a) \in Seq(W) /\ Flat(g, b) \in Seq(W)
                         /\ Flat(g, a \o b) = Flat(g, a) \o Flat(g, b)

\* What a function makes of the elements, in a row, can be taken part by part.
LEMMA FlatBoth ==
    ASSUME NEW V, NEW W, NEW g, Makes(g, V, Seq(W))
    PROVE  Rows(g, V, W)
  <1> SUFFICES ASSUME NEW a \in Seq(V), NEW b \in Seq(V)
               PROVE  /\ Flat(g, a) \in Seq(W) /\ Flat(g, b) \in Seq(W)
                      /\ Flat(g, a \o b) = Flat(g, a) \o Flat(g, b)
    BY DEF Rows
  <1> DEFINE pa == Each(g, a)
             pb == Each(g, b)
             c == a \o b
             pc == Each(g, c)
             S == Seq(W)
  <1>1. pa \in Seq(S) /\ pb \in Seq(S) /\ pc = pa \o pb
    <2>1. Makes(g, V, S) OBVIOUS
    <2> HIDE DEF S
    <2>2. Each(g, a) \in Seq(S) /\ Each(g, b) \in Seq(S) BY <2>1, PiecesType
    <2>3. pc = pa \o pb BY <2>1, PiecesBoth
    <2> QED BY <2>2, <2>3
  <1>2. pa \in Seq(Seq(W)) /\ pb \in Seq(Seq(W)) /\ pc = pa \o pb BY <1>1
  <1>3. Flat(g, a) = FlattenSeq(pa) /\ Flat(g, b) = FlattenSeq(pb) /\ Flat(g, c) = FlattenSeq(pc)
    BY DEF Flat
  <1> HIDE DEF pa, pb, pc, c
  <1>4. FlattenSeq(pa) \in Seq(W) /\ FlattenSeq(pb) \in Seq(W)
        /\ FlattenSeq(pa \o pb) = FlattenSeq(pa) \o FlattenSeq(pb)
    BY <1>2, FlattenIn, FlattenBoth
  <1> QED BY <1>2, <1>3, <1>4, Zenon DEF c

-------------------------------------------------------------------------------
(* The conversation.                                                         *)

Said == [role : {"user", "assistant", "tool", "system"}, text : Nat, calls : Seq(Nat),
         answers : Seq(Nat), image : {"none", "good", "bad"}]
\* Only the assistant calls, only results answer, and every turn of the user's has
\* something to say.
Proper(m) == /\ m.role # "assistant" => m.calls = <<>>
             /\ m.role = "tool" <=> m.answers # <<>>
             /\ m.role = "user" => m.text # 0
\* Nothing but system messages stand between i and j.
Between(h, i, j) == \A k \in (i + 1)..(j - 1) : h[k].role = "system"
\* The turn after a message with calls holds their results.
Answered(h) ==
    \A i, j \in 1..Len(h) :
       i < j /\ h[i].calls # <<>> /\ h[j].role # "system" /\ Between(h, i, j) =>
          h[j].role = "tool" /\ h[j].answers = h[i].calls
Conversation(h) == h \in Seq(Said) /\ (\A i \in 1..Len(h) : Proper(h[i])) /\ Answered(h)
\* The last turn is the user's, or holds results.
Asks(h) == \E j \in 1..Len(h) : h[j].role \in {"user", "tool"} /\ Between(h, j, Len(h) + 1)

\* The last turn of the conversation.
LEMMA LastTurn ==
    ASSUME hist \in Seq(Said), NEW i \in Turned, Between(hist, i, Len(hist) + 1)
    PROVE  Max(Turned) = i /\ Speaker = hist[i].role
           /\ Open = IF hist[i].role = "assistant" THEN hist[i].calls ELSE <<>>
  <1>1. Len(hist) \in Nat /\ DOMAIN hist = 1..Len(hist) OBVIOUS
  <1>2. \A k \in Turned : k \in Int /\ k <= i BY <1>1 DEF Turned, Between
  <1>3. i \in Int BY <1>1 DEF Turned
  <1>4. Max(Turned) = i
    <2> DEFINE T == Turned
    <2>1. i \in T /\ \A k \in T : k \in Int /\ k <= i BY <1>2
    <2> HIDE DEF T
    <2>2. \A k \in T : (\A l \in T : k >= l) => k = i BY <1>3, <2>1
    <2>3. \A l \in T : i >= l BY <1>3, <2>1
    <2>4. Max(T) = i BY <2>1, <2>2, <2>3 DEF Max
    <2> QED BY <2>4 DEF T
  <1>5. Turned # {} OBVIOUS
  <1> QED BY <1>4, <1>5 DEF Speaker, Open

\* Every set of numbers up to n that holds one holds a greatest one.
LEMMA GreatestUpTo ==
    ASSUME NEW len \in Nat, NEW S \in SUBSET (1..len), S # {}
    PROVE  \E k \in S : \A m \in S : m <= k
  <1> DEFINE R == {len - m : m \in S}
  <1>1. R \in SUBSET Nat /\ R # {}
    <2>1. \A m \in S : m \in 1..len /\ len - m \in Nat OBVIOUS
    <2> QED BY <2>1
  <1>2. PICK r \in R : \A q \in R : r <= q
    <2> HIDE DEF R
    <2> QED BY <1>1, LeastNat
  <1>3. PICK k \in S : r = len - k OBVIOUS
  <1>4. \A m \in S : len - k <= len - m BY <1>2, <1>3
  <1> QED BY <1>4

\* A conversation with a turn has a last one, with nothing but system messages behind it.
LEMMA LastTurnIsThere ==
    ASSUME hist \in Seq(Said), Turned # {}
    PROVE  \E i \in Turned : Between(hist, i, Len(hist) + 1)
  <1>1. Len(hist) \in Nat /\ DOMAIN hist = 1..Len(hist) OBVIOUS
  <1>2. Turned \in SUBSET (1..Len(hist)) BY <1>1 DEF Turned
  <1>3. PICK i \in Turned : \A k \in Turned : k <= i BY <1>1, <1>2, GreatestUpTo
  <1>4. Between(hist, i, Len(hist) + 1)
    <2> SUFFICES ASSUME NEW k \in (i + 1)..(Len(hist) + 1 - 1), hist[k].role # "system" PROVE FALSE
      BY DEF Between
    <2>1. i \in 1..Len(hist) /\ k \in 1..Len(hist) /\ k > i BY <1>1, <1>2
    <2>2. k \in Turned BY <1>1, <2>1 DEF Turned
    <2> QED BY <1>3, <2>1, <2>2
  <1> QED BY <1>4

\* A message at the end of the conversation.
LEMMA ConversationGrows ==
    ASSUME Conversation(hist), NEW m \in Said, Proper(m),
           m.role = "system" \/ Open = <<>> \/ (m.role = "tool" /\ m.answers = Open)
    PROVE  Conversation(Append(hist, m))
  <1> DEFINE h == Append(hist, m)
             len == Len(hist)
  <1>1. /\ hist \in Seq(Said) /\ len \in Nat /\ h \in Seq(Said) /\ Len(h) = len + 1 /\ h[len + 1] = m
        /\ \A i \in 1..len : h[i] = hist[i]
    BY DEF Conversation
  <1> HIDE DEF h
  <1>2. \A i \in 1..Len(h) : Proper(h[i])
    <2>1. \A i \in 1..Len(h) : i \in 1..len \/ i = len + 1 BY <1>1
    <2> QED BY <1>1, <2>1 DEF Conversation
  <1>3. Answered(h)
    <2> SUFFICES ASSUME NEW i \in 1..Len(h), NEW j \in 1..Len(h), i < j, h[i].calls # <<>>,
                        h[j].role # "system", Between(h, i, j)
                 PROVE  h[j].role = "tool" /\ h[j].answers = h[i].calls
      BY DEF Answered
    <2>1. i \in 1..len /\ h[i] = hist[i] BY <1>1
    <2>2. CASE j \in 1..len
      <3>1. \A k \in (i + 1)..(j - 1) : h[k] = hist[k] BY <1>1, <2>1, <2>2, SMTT(60)
      <3>2. Between(hist, i, j) BY <3>1 DEF Between
      <3>3. h[j] = hist[j] BY <1>1, <2>2
      <3> QED BY <2>1, <2>2, <3>2, <3>3 DEF Conversation, Answered
    <2>3. CASE j \notin 1..len
      <3>1. j = len + 1 /\ h[j] = m BY <1>1, <2>3
      <3>2. \A k \in (i + 1)..len : h[k] = hist[k] BY <1>1, <2>1
      <3>3. Between(hist, i, len + 1)
        <4>1. (len + 1) - 1 = len BY <1>1
        <4> QED BY <3>1, <3>2, <4>1 DEF Between
      <3>4. hist[i].role = "assistant" BY <2>1 DEF Conversation, Proper
      <3>5. i \in Turned BY <1>1, <2>1, <3>4 DEF Turned
      <3>6. Open = hist[i].calls BY <1>1, <3>3, <3>4, <3>5, LastTurn
      <3> QED BY <2>1, <3>1, <3>6
    <2> QED BY <2>2, <2>3
  <1> QED BY <1>1, <1>2, <1>3 DEF Conversation, h

-------------------------------------------------------------------------------
(* Its normal form.                                                          *)

Roles == {"user", "assistant", "tool", "system", "call"}
Norm == [role : Roles, text : Seq(Int), calls : Seq(Nat), answer : Nat, images : Seq({"good", "bad"})]
Form == [system : Seq(Int), msgs : Seq(Norm), seen : BOOLEAN, pending : Seq(Int)]

\* What message m of an OpenAI or an Anthropic client adds to the normal form: the
\* results it holds come first, a call is kept whole.
Adds(m, t) ==
    /\ t \in Seq(Norm)
    /\ m.role = "system" => t = <<>>
    /\ m.role = "tool" => Len(m.answers) <= Len(t) /\ \A k \in 1..Len(t) :
           t[k].calls = <<>> /\ (k <= Len(m.answers) => t[k].answer = m.answers[k])
    /\ m.role \in {"user", "assistant"} =>
           (t = <<>> /\ m.calls = <<>>) \/ (Len(t) = 1 /\ t[1].calls = m.calls)

\* The text of a message is at most one.
LEMMA WordsType == ASSUME NEW k \in Nat PROVE Words(k) \in Seq(Int)
  BY DEF Words

\* Its pictures, too.
LEMMA PicturesType == ASSUME NEW m \in Said PROVE Pictures(m) \in Seq({"good", "bad"})
  <1>1. m.image \in {"none", "good", "bad"} BY DEF Said
  <1>2. CASE m.image = "none" BY <1>2 DEF Pictures
  <1>3. CASE m.image # "none"
    <2>1. Pictures(m) = <<m.image>> /\ m.image \in {"good", "bad"} BY <1>1, <1>3 DEF Pictures
    <2> QED BY <2>1
  <1> QED BY <1>2, <1>3

\* The results a message holds.
LEMMA ResultsType ==
    ASSUME NEW m \in Said
    PROVE  /\ Results(m) \in Seq(Norm) /\ Len(Results(m)) = Len(m.answers) /\ Len(m.answers) \in Nat
           /\ \A k \in 1..Len(m.answers) :
                Results(m)[k].calls = <<>> /\ Results(m)[k].answer = m.answers[k]
                /\ Results(m)[k].role = "tool"
  <1> DEFINE f(k) == Msg("tool", ResultText(m.answers[k]), <<>>, m.answers[k], <<>>)
  <1>1. m.answers \in Seq(Nat) /\ Len(m.answers) \in Nat /\ DOMAIN m.answers = 1..Len(m.answers)
    BY DEF Said
  <1>2. ASSUME NEW k \in 1..Len(m.answers)
        PROVE  f(k) \in Norm /\ f(k).calls = <<>> /\ f(k).answer = m.answers[k] /\ f(k).role = "tool"
    <2>1. m.answers[k] \in Nat BY <1>1
    <2>2. ResultText(m.answers[k]) \in Seq(Int) BY <2>1 DEF ResultText
    <2>3. "tool" \in Roles /\ <<>> \in Seq(Nat) /\ <<>> \in Seq({"good", "bad"}) BY DEF Roles
    <2> QED BY <2>1, <2>2, <2>3 DEF Msg, Norm
  <1>3. Results(m) = [k \in 1..Len(m.answers) |-> f(k)] BY <1>1 DEF Results
  <1> HIDE DEF f
  <1> QED BY <1>1, <1>2, <1>3

\* An OpenAI message.
LEMMA OpenAITakes ==
    ASSUME NEW r \in Form, NEW m \in Said, Proper(m)
    PROVE  TakeOpenAI(r, m) \in Form /\ \E t : Adds(m, t) /\ TakeOpenAI(r, m).msgs = r.msgs \o t
  <1>1. r.msgs \in Seq(Norm) /\ r.system \in Seq(Int) /\ r.seen \in BOOLEAN /\ r.pending \in Seq(Int)
        /\ r.msgs \o <<>> = r.msgs
    BY DEF Form
  <1>2. m.text \in Nat /\ m.calls \in Seq(Nat) /\ m.image \in {"none", "good", "bad"}
        /\ m.role \in {"user", "assistant", "tool", "system"}
    BY DEF Said
  <1>3. Words(m.text) \in Seq(Int) BY <1>2, WordsType
  <1>4. CASE m.role = "system"
    <2>1. TakeOpenAI(r, m) = [r EXCEPT !.system = @ \o Words(m.text)] BY <1>4 DEF TakeOpenAI, Hoist
    <2>2. r.system \o Words(m.text) \in Seq(Int) BY <1>1, <1>3
    <2>3. TakeOpenAI(r, m) \in Form /\ TakeOpenAI(r, m).msgs = r.msgs BY <2>1, <2>2 DEF Form
    <2>4. Adds(m, <<>>) BY <1>4 DEF Adds
    <2> QED BY <1>1, <2>3, <2>4
  <1>5. CASE m.role = "tool"
    <2>1. TakeOpenAI(r, m) = [r EXCEPT !.msgs = @ \o Results(m)] BY <1>5 DEF TakeOpenAI, Add
    <2>2. r.msgs \o Results(m) \in Seq(Norm) BY <1>1, ResultsType
    <2>3. TakeOpenAI(r, m) \in Form /\ TakeOpenAI(r, m).msgs = r.msgs \o Results(m)
      BY <2>1, <2>2 DEF Form
    <2>4. Adds(m, Results(m)) BY <1>5, ResultsType DEF Adds
    <2> QED BY <2>3, <2>4
  <1>6. CASE m.role \in {"user", "assistant"}
    <2> DEFINE piece == Msg(m.role, Words(m.text), m.calls, 0, Pictures(m))
    <2>1. TakeOpenAI(r, m) = [r EXCEPT !.msgs = @ \o <<piece>>] BY <1>6 DEF TakeOpenAI, Add
    <2>2. piece \in Norm /\ piece.calls = m.calls
      <3>1. Pictures(m) \in Seq({"good", "bad"}) BY PicturesType
      <3>2. m.role \in Roles BY <1>6 DEF Roles
      <3>3. 0 \in Nat OBVIOUS
      <3> HIDE DEF piece
      <3> QED BY <1>2, <1>3, <3>1, <3>2, <3>3 DEF piece, Msg, Norm
    <2> HIDE DEF piece
    <2>3. r.msgs \o <<piece>> \in Seq(Norm) BY <1>1, <2>2
    <2>4. TakeOpenAI(r, m) \in Form /\ TakeOpenAI(r, m).msgs = r.msgs \o <<piece>>
      BY <2>1, <2>3 DEF Form
    <2>5. Adds(m, <<piece>>) BY <1>6, <2>2 DEF Adds
    <2> QED BY <2>4, <2>5
  <1> QED BY <1>2, <1>4, <1>5, <1>6

\* An Anthropic message.  Once a turn was met the system text stays, and what the
\* user says or answers is there as a message.
LEMMA AnthropicTakes ==
    ASSUME NEW r \in Form, NEW m \in Said, Proper(m)
    PROVE  LET w == TakeAnthropic(r, m)
           IN  /\ w \in Form
               /\ \E t : /\ Adds(m, t) /\ w.msgs = r.msgs \o t
                         /\ m.role \in {"user", "tool"} => t # <<>> /\ t[Len(t)].role # "assistant"
               /\ r.seen => w.seen /\ w.system = r.system
               /\ m.role \in {"user", "tool"} => w.seen
  <1> DEFINE w == TakeAnthropic(r, m)
  <1>1. r.msgs \in Seq(Norm) /\ r.system \in Seq(Int) /\ r.seen \in BOOLEAN /\ r.pending \in Seq(Int)
        /\ r.msgs \o <<>> = r.msgs
    BY DEF Form
  <1>2. m.text \in Nat /\ m.calls \in Seq(Nat) /\ m.role \in {"user", "assistant", "tool", "system"}
    BY DEF Said
  <1>3. Words(m.text) \in Seq(Int) BY <1>2, WordsType
  <1>4. CASE m.role = "system"
    <2>1. w = IF r.seen THEN [r EXCEPT !.pending = @ \o Words(m.text)]
              ELSE [r EXCEPT !.system = @ \o Words(m.text)]
      BY <1>4 DEF TakeAnthropic, Remind, Hoist
    <2>2. r.pending \o Words(m.text) \in Seq(Int) /\ r.system \o Words(m.text) \in Seq(Int)
      BY <1>1, <1>3
    <2> HIDE DEF w
    <2>3. CASE r.seen
      <3>1. w \in Form /\ w.msgs = r.msgs /\ w.seen = r.seen /\ w.system = r.system
        BY <2>1, <2>2, <2>3 DEF Form
      <3>2. Adds(m, <<>>) BY <1>4 DEF Adds
      <3> QED BY <1>1, <1>4, <3>1, <3>2 DEF w
    <2>4. CASE ~r.seen
      <3>1. w \in Form /\ w.msgs = r.msgs BY <2>1, <2>2, <2>4 DEF Form
      <3>2. Adds(m, <<>>) BY <1>4 DEF Adds
      <3> QED BY <1>1, <1>4, <2>4, <3>1, <3>2 DEF w
    <2> QED BY <2>3, <2>4
  <1>5. CASE m.role # "system"
    <2> DEFINE user == m.role \in {"user", "tool"}
               text == IF user THEN r.pending \o Words(m.text) ELSE Words(m.text)
               msg == Msg(IF user THEN "user" ELSE "assistant", text, m.calls, 0, <<>>)
               last == IF text # <<>> \/ m.calls # <<>> THEN <<msg>> ELSE <<>>
               t == Results(m) \o last
    <2>1. w = [r EXCEPT !.msgs = @ \o t, !.seen = TRUE, !.pending = IF user THEN <<>> ELSE @]
      BY <1>1, <1>5 DEF TakeAnthropic, ResultsFirst, Add, Form
    <2>2. text \in Seq(Int)
      <3>1. r.pending \o Words(m.text) \in Seq(Int) BY <1>1, <1>3
      <3> QED BY <1>3, <3>1
    <2> HIDE DEF text
    <2>3. msg \in Norm /\ msg.calls = m.calls /\ (user => msg.role = "user")
      BY <1>2, <2>2 DEF Msg, Norm, Roles
    <2> HIDE DEF msg
    <2>4. last \in Seq(Norm) /\ (last = <<>> \/ last = <<msg>>) /\ (last = <<>> => m.calls = <<>>)
      BY <2>3
    <2>5. t \in Seq(Norm) /\ Results(m) \in Seq(Norm) /\ Len(Results(m)) = Len(m.answers)
          /\ Len(m.answers) \in Nat
      BY <2>4, ResultsType
    <2>6. CASE m.role = "tool"
      <3>1. m.answers # <<>> /\ m.calls = <<>> /\ Len(m.answers) > 0
        <4>1. m.answers # <<>> /\ m.calls = <<>> /\ m.answers \in Seq(Nat) BY <2>6 DEF Proper, Said
        <4> QED BY <4>1
      <3>2. /\ Len(t) = Len(m.answers) + Len(last) /\ Len(last) \in {0, 1}
            /\ \A k \in 1..Len(m.answers) : t[k] = Results(m)[k]
            /\ \A k \in 1..Len(t) : k \in 1..Len(m.answers)
                  \/ (t[k] = msg /\ last = <<msg>> /\ k > Len(m.answers))
        <4>1. last = <<>> \/ last = <<msg>> BY <2>4
        <4> DEFINE a == Results(m)
        <4>2. a \in Seq(Norm) /\ Len(a) = Len(m.answers) /\ Len(a) \in Nat BY <2>5
        <4> HIDE DEF a, last
        <4>3. t = a \o last BY DEF a
        <4>4. CASE last = <<>>
          <5>1. t = a BY <4>2, <4>3, <4>4
          <5> HIDE DEF t
          <5> QED BY <4>2, <4>4, <5>1 DEF a
        <4>5. CASE last = <<msg>>
          <5>1. a \o <<msg>> = Append(a, msg) BY <2>3, <4>2
          <5>2. t = Append(a, msg) BY <4>3, <4>5, <5>1
          <5> HIDE DEF t
          <5> QED BY <2>3, <4>2, <4>5, <5>2 DEF a
        <4> QED BY <4>1, <4>4, <4>5
      <3> HIDE DEF t, last
      <3>3. \A k \in 1..Len(t) : t[k].calls = <<>> /\ t[k].role # "assistant"
                                 /\ (k <= Len(m.answers) => t[k].answer = m.answers[k])
        <4> TAKE k \in 1..Len(t)
        <4>1. CASE k \in 1..Len(m.answers)
          BY <2>5, <3>2, <4>1, ResultsType
        <4>2. CASE k \notin 1..Len(m.answers)
          BY <2>3, <2>5, <2>6, <3>1, <3>2, <4>2
        <4> QED BY <4>1, <4>2
      <3>4. Adds(m, t) BY <2>5, <2>6, <3>2, <3>3 DEF Adds
      <3>5. Len(t) \in 1..Len(t) BY <2>5, <3>1, <3>2
      <3>6. t # <<>> /\ t[Len(t)].role # "assistant" BY <3>3, <3>5
      <3>7. r.msgs \o t \in Seq(Norm) BY <1>1, <2>5
      <3>8. w \in Form /\ w.msgs = r.msgs \o t /\ w.seen /\ w.system = r.system
        <4> DEFINE pend == IF user THEN <<>> ELSE r.pending
                   ms == r.msgs \o t
        <4>1. pend \in Seq(Int) BY <1>1
        <4>2. w = [r EXCEPT !.msgs = ms, !.seen = TRUE, !.pending = pend] BY <2>1
        <4>3. ms \in Seq(Norm) BY <3>7
        <4> HIDE DEF w, pend, ms
        <4>4. w \in Form /\ w.msgs = ms /\ w.seen = TRUE /\ w.system = r.system
          BY <4>1, <4>2, <4>3 DEF Form
        <4> QED BY <4>4 DEF ms
      <3> QED BY <3>4, <3>6, <3>8
    <2>7. CASE m.role \in {"user", "assistant"}
      <3>1. Results(m) = <<>>
        <4>1. m.answers = <<>> BY <2>7 DEF Proper
        <4> QED BY <4>1 DEF Results
      <3>2. t = last BY <2>4, <3>1
      <3>3. m.role = "user" => last = <<msg>>
        <4> SUFFICES ASSUME m.role = "user" PROVE text # <<>> OBVIOUS
        <4>1. m.text # 0 BY DEF Proper
        <4>2. Words(m.text) = <<m.text>> BY <4>1 DEF Words
        <4>3. text = r.pending \o <<m.text>> BY <4>2 DEF text
        <4> QED BY <1>1, <1>2, <4>3
      <3>4. Adds(m, t)
        <4> HIDE DEF t, last
        <4> QED BY <2>3, <2>4, <2>7, <3>2 DEF Adds
      <3>5. m.role = "user" => t # <<>> /\ t[Len(t)].role # "assistant"
        <4> SUFFICES ASSUME m.role = "user" PROVE t # <<>> /\ t[Len(t)].role # "assistant"
          OBVIOUS
        <4>1. msg.role = "user" /\ t = <<msg>> BY <2>3, <3>2, <3>3
        <4> HIDE DEF t, last
        <4> QED BY <4>1
      <3> HIDE DEF t
      <3>7. r.msgs \o t \in Seq(Norm) BY <1>1, <2>5
      <3>8. w \in Form /\ w.msgs = r.msgs \o t /\ w.seen /\ w.system = r.system
        <4> DEFINE pend == IF user THEN <<>> ELSE r.pending
                   ms == r.msgs \o t
        <4>1. pend \in Seq(Int) BY <1>1
        <4>2. w = [r EXCEPT !.msgs = ms, !.seen = TRUE, !.pending = pend] BY <2>1
        <4>3. ms \in Seq(Norm) BY <3>7
        <4> HIDE DEF w, pend, ms
        <4>4. w \in Form /\ w.msgs = ms /\ w.seen = TRUE /\ w.system = r.system
          BY <4>1, <4>2, <4>3 DEF Form
        <4> QED BY <4>4 DEF ms
      <3> QED BY <2>7, <3>4, <3>5, <3>8
    <2> QED BY <1>2, <1>5, <2>6, <2>7
  <1> QED BY <1>4, <1>5

\* Whatever a system message is hoisted to.
LEMMA Hoists ==
    ASSUME NEW r \in Form, NEW m \in Said
    PROVE  Hoist(r, m) \in Form /\ Hoist(r, m).msgs = r.msgs
  <1>1. Words(m.text) \in Seq(Int) /\ r.system \in Seq(Int) BY WordsType DEF Said, Form
  <1>2. r.system \o Words(m.text) \in Seq(Int) BY <1>1
  <1> QED BY <1>2 DEF Hoist, Form

\* Messages t are added at the end.
LEMMA AddsMore ==
    ASSUME NEW r \in Form, NEW t \in Seq(Norm)
    PROVE  Add(r, t) \in Form /\ Add(r, t).msgs = r.msgs \o t
  <1>1. r.msgs \o t \in Seq(Norm) BY DEF Form
  <1> QED BY <1>1 DEF Add, Form

\* An Ollama message and a Responses item only add to the messages, too.
LEMMA OthersTake ==
    ASSUME NEW r \in Form, NEW m \in Said,
           NEW w \in {TakeOllama(r, m), TakeResponses(r, m)}
    PROVE  w \in Form /\ \E t \in Seq(Norm) : w.msgs = r.msgs \o t
  <1>1. m.text \in Nat /\ m.calls \in Seq(Nat) /\ m.role \in {"user", "assistant", "tool", "system"}
    BY DEF Said
  <1>2. Words(m.text) \in Seq(Int) /\ Results(m) \in Seq(Norm) /\ DOMAIN m.calls = 1..Len(m.calls)
        /\ Len(m.calls) \in Nat /\ DOMAIN m.answers = 1..Len(m.answers) /\ Len(m.answers) \in Nat
    <2>1. Words(m.text) \in Seq(Int) BY <1>1, WordsType
    <2>2. Results(m) \in Seq(Norm) BY ResultsType
    <2>3. m.answers \in Seq(Nat) BY DEF Said
    <2> QED BY <1>1, <2>1, <2>2, <2>3
  <1>3. <<>> \in Seq(Norm) /\ r.msgs \in Seq(Norm) /\ r.msgs \o <<>> = r.msgs BY DEF Form
  <1>4. CASE m.role = "system"
    <2>1. w = Hoist(r, m) BY <1>4 DEF TakeOllama, TakeResponses
    <2> QED BY <1>3, <2>1, Hoists
  <1>5. CASE w = TakeOllama(r, m) /\ m.role = "tool"
    <2> DEFINE t == [i \in DOMAIN m.answers |-> [Results(m)[i] EXCEPT !.answer = 0]]
    <2>1. w = Add(r, t) BY <1>5 DEF TakeOllama
    <2>2. \A i \in DOMAIN m.answers : [Results(m)[i] EXCEPT !.answer = 0] \in Norm
      <3>1. \A i \in DOMAIN m.answers : Results(m)[i] \in Norm BY <1>2, ResultsType
      <3> QED BY <3>1 DEF Norm
    <2>3. t \in Seq(Norm) BY <1>2, <2>2
    <2> HIDE DEF t
    <2> QED BY <2>1, <2>3, AddsMore
  <1>6. CASE w = TakeResponses(r, m) /\ m.role = "tool"
    <2>1. w = Add(r, Results(m)) BY <1>6 DEF TakeResponses
    <2> QED BY <1>2, <2>1, AddsMore
  <1>7. CASE w = TakeOllama(r, m) /\ m.role \in {"user", "assistant"}
    <2> DEFINE piece == Msg(m.role, Words(m.text), m.calls, 0, <<>>)
    <2>1. w = Add(r, <<piece>>) BY <1>7 DEF TakeOllama
    <2>2. piece \in Norm BY <1>1, <1>2, <1>7 DEF Msg, Norm, Roles
    <2> HIDE DEF piece
    <2>3. <<piece>> \in Seq(Norm) BY <2>2
    <2> QED BY <2>1, <2>3, AddsMore
  <1>8. CASE w = TakeResponses(r, m) /\ m.role \in {"user", "assistant"}
    <2> DEFINE f(i) == Msg("assistant", <<>>, <<m.calls[i]>>, 0, <<>>)
               piece == Msg(m.role, Words(m.text), <<>>, 0, <<>>)
               a == IF m.text # 0 THEN <<piece>> ELSE <<>>
               b == [i \in DOMAIN m.calls |-> f(i)]
    <2>1. w = Add(r, a \o b) BY <1>8 DEF TakeResponses
    <2>2. piece \in Norm BY <1>2, <1>8 DEF Msg, Norm, Roles
    <2>3. \A i \in DOMAIN m.calls : f(i) \in Norm
      <3>1. \A i \in DOMAIN m.calls : <<m.calls[i]>> \in Seq(Nat) BY <1>1
      <3> QED BY <3>1 DEF Msg, Norm, Roles
    <2> HIDE DEF piece, f
    <2>4. a \in Seq(Norm) /\ b \in Seq(Norm) BY <1>2, <2>2, <2>3
    <2> HIDE DEF a, b
    <2>5. a \o b \in Seq(Norm) BY <2>4
    <2> QED BY <2>1, <2>5, AddsMore
  <1> QED BY <1>1, <1>4, <1>5, <1>6, <1>7, <1>8

\* Every dialect's parser only adds messages.
LEMMA Takes ==
    ASSUME client \in {"openai", "anthropic", "responses", "ollama"},
           NEW r \in Form, NEW m \in Said, Proper(m)
    PROVE  Take(r, m) \in Form /\ \E t \in Seq(Norm) : Take(r, m).msgs = r.msgs \o t
  <1>1. CASE client = "openai"
    <2>1. Take(r, m) = TakeOpenAI(r, m) BY <1>1 DEF Take
    <2>2. TakeOpenAI(r, m) \in Form /\ \E t : Adds(m, t) /\ TakeOpenAI(r, m).msgs = r.msgs \o t
      BY OpenAITakes
    <2> QED BY <2>1, <2>2 DEF Adds
  <1>2. CASE client = "anthropic"
    <2>1. Take(r, m) = TakeAnthropic(r, m) BY <1>2 DEF Take
    <2>2. TakeAnthropic(r, m) \in Form /\ \E t : Adds(m, t) /\ TakeAnthropic(r, m).msgs = r.msgs \o t
      BY AnthropicTakes
    <2> QED BY <2>1, <2>2 DEF Adds
  <1>3. CASE client = "responses"
    <2>1. Take(r, m) = TakeResponses(r, m) BY <1>3 DEF Take
    <2> QED BY <2>1, OthersTake
  <1>4. CASE client = "ollama"
    <2>1. Take(r, m) = TakeOllama(r, m) BY <1>4 DEF Take
    <2> QED BY <2>1, OthersTake
  <1> QED BY <1>1, <1>2, <1>3, <1>4

\* p has the normal form after each of the first len messages of h.
Parses(p, h, len) == p = [i \in 0..len |-> IF i = 0 THEN Empty ELSE Take(p[i - 1], h[i])]

\* After n messages one more can be parsed.
LEMMA ParseOne ==
    ASSUME NEW h, NEW len \in Nat, NEW p, Parses(p, h, len)
    PROVE  \E q : Parses(q, h, len + 1)
  <1> DEFINE q == [i \in 0..(len + 1) |-> IF i \in 0..len THEN p[i] ELSE Take(p[i - 1], h[i])]
  <1>1. ASSUME NEW i \in 0..(len + 1) PROVE q[i] = IF i = 0 THEN Empty ELSE Take(q[i - 1], h[i])
    <2>1. CASE i \in 0..len
      <3>1. q[i] = p[i] /\ (i # 0 => i - 1 \in 0..len /\ q[i-1] = p[i-1]) BY <2>1
      <3>2. p[i] = IF i = 0 THEN Empty ELSE Take(p[i - 1], h[i]) BY <2>1 DEF Parses
      <3> QED BY <3>1, <3>2
    <2>2. CASE i \notin 0..len
      <3>1. i = len + 1 /\ i # 0 BY <2>2
      <3>2. i - 1 \in 0..len /\ i - 1 \in 0..(len + 1) /\ q[i-1] = p[i-1] BY <3>1
      <3> QED BY <2>2, <3>1, <3>2
    <2> QED BY <2>1, <2>2
  <1>2. q = [i \in 0..(len + 1) |-> q[i]] OBVIOUS
  <1> HIDE DEF q
  <1>3. q = [i \in 0..(len + 1) |-> IF i = 0 THEN Empty ELSE Take(q[i - 1], h[i])] BY <1>1, <1>2
  <1> QED BY <1>3 DEF Parses

\* The parser's normal forms.
LEMMA ParsingParses ==
    ASSUME NEW h, Len(h) \in Nat
    PROVE  /\ Parsing(h)[0] = Empty
           /\ \A i \in 1..Len(h) : Parsing(h)[i] = Take(Parsing(h)[i - 1], h[i])
  <1> DEFINE bad == {len \in Nat : ~ \E p : Parses(p, h, len)}
  <1>1. bad = {}
    <2> SUFFICES ASSUME bad # {} PROVE FALSE OBVIOUS
    <2>1. PICK k \in bad : \A m \in bad : k <= m BY LeastNat
    <2>2. k # 0
      <3> DEFINE e == [i \in 0..0 |-> Empty]
      <3>1. Parses(e, h, 0) BY DEF Parses
      <3> QED BY <2>1, <3>1
    <2>3. k - 1 \in Nat /\ k - 1 \notin bad /\ (k - 1) + 1 = k BY <2>1, <2>2
    <2>4. PICK p : Parses(p, h, k - 1) BY <2>3
    <2>5. \E q : Parses(q, h, k) BY <2>3, <2>4, ParseOne
    <2> QED BY <2>1, <2>5
  <1>2. \E p : Parses(p, h, Len(h)) BY <1>1
  <1>3. Parses(Parsing(h), h, Len(h)) BY <1>2 DEF Parsing, Parses
  <1> DEFINE p == Parsing(h)
  <1> HIDE DEF p
  <1>4. p = [i \in 0..Len(h) |-> IF i = 0 THEN Empty ELSE Take(p[i - 1], h[i])]
    BY <1>3 DEF Parses, p
  <1>5. p[0] = Empty /\ \A i \in 1..Len(h) : p[i] = Take(p[i - 1], h[i]) BY <1>4
  <1> QED BY <1>5 DEF p

Dialects == {"openai", "anthropic", "responses", "ollama"}
Properly(h) == h \in Seq(Said) /\ \A i \in 1..Len(h) : Proper(h[i])

\* Every one of them is a normal form.
LEMMA ParsedForms ==
    ASSUME client \in Dialects, NEW h, Properly(h)
    PROVE  \A i \in 0..Len(h) : Parsing(h)[i] \in Form
  <1> DEFINE p == Parsing(h)
             len == Len(h)
             good == {i \in Nat : p[i] \in Form}
  <1>1. len \in Nat /\ \A i \in 1..len : h[i] \in Said /\ Proper(h[i]) BY DEF Properly
  <1>2. p[0] = Empty /\ \A i \in 1..len : p[i] = Take(p[i - 1], h[i]) BY <1>1, ParsingParses
  <1> HIDE DEF p, len
  <1>3. Empty \in Form BY DEF Empty, Form
  <1>4. 0 \in good BY <1>2, <1>3
  <1>5. ASSUME NEW k \in 1..len, k - 1 \in good PROVE k \in good
    <2>1. Take(p[k - 1], h[k]) \in Form BY <1>1, <1>5, Takes DEF Dialects
    <2> QED BY <1>2, <2>1
  <1>6. \A i \in 0..len : i \in good
    <2> HIDE DEF good
    <2> QED BY <1>1, <1>4, <1>5, Climb
  <1> QED BY <1>6 DEF p, len

\* What was parsed stays at the beginning; of an Anthropic conversation that has met
\* a turn, the system text too.
Continues(r, w) ==
    /\ \E t \in Seq(Norm) : w.msgs = r.msgs \o t
    /\ client = "anthropic" /\ r.seen => w.seen /\ w.system = r.system

\* What continues a continuation continues.
LEMMA ContinuesOn ==
    ASSUME NEW r \in Form, NEW w \in Form, NEW v \in Form, Continues(r, w), Continues(w, v)
    PROVE  Continues(r, v)
  <1>1. PICK a \in Seq(Norm) : w.msgs = r.msgs \o a BY DEF Continues
  <1>2. PICK b \in Seq(Norm) : v.msgs = w.msgs \o b BY DEF Continues
  <1>3. r.msgs \in Seq(Norm) /\ a \o b \in Seq(Norm) BY DEF Form
  <1>4. v.msgs = r.msgs \o (a \o b)
    <2>1. \A piece, y, z \in Seq(Norm) : (piece \o y) \o z = piece \o (y \o z) BY Regroup, SMTT(60)
    <2>2. (r.msgs \o a) \o b = r.msgs \o (a \o b) BY <1>3, <2>1
    <2> QED BY <1>1, <1>2, <2>2, Zenon
  <1> QED BY <1>3, <1>4 DEF Continues

\* One message more continues what was parsed.
LEMMA TakeContinues ==
    ASSUME client \in Dialects, NEW r \in Form, NEW m \in Said, Proper(m)
    PROVE  Continues(r, Take(r, m))
  <1>1. \E t \in Seq(Norm) : Take(r, m).msgs = r.msgs \o t BY Takes DEF Dialects
  <1>2. ASSUME client = "anthropic", r.seen PROVE Take(r, m).seen /\ Take(r, m).system = r.system
    <2>1. Take(r, m) = TakeAnthropic(r, m) BY <1>2 DEF Take
    <2>2. TakeAnthropic(r, m).seen /\ TakeAnthropic(r, m).system = r.system BY <1>2, AnthropicTakes
    <2> QED BY <2>1, <2>2
  <1> QED BY <1>1, <1>2 DEF Continues

\* And so do any number more.
LEMMA ParsedContinue ==
    ASSUME client \in Dialects, NEW h, Properly(h), NEW i \in 0..Len(h)
    PROVE  \A j \in i..Len(h) : Continues(Parsing(h)[i], Parsing(h)[j])
  <1> DEFINE p == Parsing(h)
             len == Len(h)
             good == {j \in Nat : Continues(p[i], p[j])}
  <1>1. len \in Nat /\ i \in Nat /\ i <= len /\ \A j \in 1..len : h[j] \in Said /\ Proper(h[j]) BY DEF Properly
  <1>2. p[0] = Empty /\ \A j \in 1..len : p[j] = Take(p[j - 1], h[j]) BY <1>1, ParsingParses
  <1>3. \A j \in 0..len : p[j] \in Form BY ParsedForms
  <1>4. i \in 0..len OBVIOUS
  <1> HIDE DEF p, len
  <1>5. i \in good
    <2>1. p[i].msgs \in Seq(Norm) BY <1>3, <1>4 DEF Form
    <2>2. <<>> \in Seq(Norm) /\ p[i].msgs \o <<>> = p[i].msgs BY <2>1
    <2> QED BY <1>1, <2>2 DEF Continues
  <1>6. ASSUME NEW k \in (i + 1)..len, k - 1 \in good PROVE k \in good
    <2>1. k \in 1..len /\ k - 1 \in 0..len /\ k \in 0..len BY <1>1
    <2>2. Continues(p[k - 1], p[k]) BY <1>1, <1>2, <1>3, <2>1, TakeContinues
    <2> QED BY <1>3, <1>4, <1>6, <2>1, <2>2, ContinuesOn
  <1>7. \A j \in i..len : j \in good
    <2> HIDE DEF good
    <2> QED BY <1>1, <1>5, <1>6, Climb
  <1> QED BY <1>7 DEF p, len

\* The beginning of a conversation is parsed the same.
LEMMA ParsedAlike ==
    ASSUME NEW h \in Seq(Said), NEW u \in 0..Len(h)
    PROVE  \A i \in 0..u : Parsing(SubSeq(h, 1, u))[i] = Parsing(h)[i]
  <1> DEFINE g == SubSeq(h, 1, u)
             p == Parsing(h)
             q == Parsing(g)
             good == {i \in Nat : q[i] = p[i]}
  <1>1. Len(h) \in Nat /\ u \in Nat /\ u <= Len(h) /\ Len(g) = u /\ \A i \in 1..u : g[i] = h[i]
    OBVIOUS
  <1>2. p[0] = Empty /\ \A i \in 1..Len(h) : p[i] = Take(p[i - 1], h[i]) BY <1>1, ParsingParses
  <1>3. q[0] = Empty /\ \A i \in 1..u : q[i] = Take(q[i - 1], g[i])
    <2> HIDE DEF g
    <2> QED BY <1>1, ParsingParses
  <1> HIDE DEF p, q, g
  <1>4. 0 \in good BY <1>2, <1>3
  <1>5. ASSUME NEW k \in 1..u, k - 1 \in good PROVE k \in good BY <1>1, <1>2, <1>3, <1>5
  <1>6. \A i \in 0..u : i \in good
    <2>1. u \in Nat BY <1>1
    <2> HIDE DEF good
    <2> QED BY <2>1, <1>4, <1>5, Climb, SMTT(60)
  <1> QED BY <1>6 DEF p, q, g

-------------------------------------------------------------------------------
(* The results after their calls.                                            *)

\* The message q of ms is followed by the results of its calls; or it is the last, and
\* the conversation has no turn yet after the one it comes from.
Followed(ms, q) ==
    \A k \in DOMAIN ms[q].calls : q + k <= Len(ms) /\ ms[q + k].answer = ms[q].calls[k]
Waiting(ms, h, i, q) ==
    /\ q = Len(ms)
    /\ \E j \in 1..i : h[j].calls = ms[q].calls /\ Between(h, j, i + 1)
Following(ms, h, i) ==
    \A q \in 1..Len(ms) : ms[q].calls = <<>> \/ Followed(ms, q) \/ Waiting(ms, h, i, q)

\* One message more is parsed.
LEMMA FollowsOn ==
    ASSUME NEW h, Conversation(h), NEW i \in 0..(Len(h) - 1), NEW ms \in Seq(Norm), Following(ms, h, i),
           NEW t, Adds(h[i + 1], t)
    PROVE  Following(ms \o t, h, i + 1)
  <1> DEFINE m == h[i + 1]
             u == ms \o t
             len == Len(ms)
  <1>1. /\ h \in Seq(Said) /\ Len(h) \in Nat /\ i \in Nat /\ i + 1 \in 1..Len(h) /\ m \in Said /\ Proper(m)
        /\ i + 1 <= Len(h)
    BY DEF Conversation
  <1>2. t \in Seq(Norm) /\ len \in Nat /\ Len(t) \in Nat /\ Len(u) = len + Len(t) /\ u \in Seq(Norm)
        /\ (\A q \in 1..len : u[q] = ms[q]) /\ (\A k \in 1..Len(t) : u[len + k] = t[k])
    BY DEF Adds
  <1> HIDE DEF u, len
  <1>3. m.role \in {"user", "assistant", "tool", "system"} /\ m.answers \in Seq(Nat) /\ m.calls \in Seq(Nat)
    BY <1>1 DEF Said
  \* those of ms
  <1>4. ASSUME NEW q \in 1..len, ms[q].calls # <<>> PROVE Followed(u, q) \/ Waiting(u, h, i + 1, q)
    <2>1. u[q].calls = ms[q].calls /\ ms[q].calls \in Seq(Nat)
      <3>1. ms[q] \in Norm BY <1>4 DEF len
      <3> QED BY <1>2, <3>1 DEF Norm
    <2>2. Followed(ms, q) \/ Waiting(ms, h, i, q) BY <1>4 DEF Following, len
    <2>3. CASE Followed(ms, q)
      <3> SUFFICES ASSUME NEW k \in DOMAIN u[q].calls
                   PROVE  q + k <= Len(u) /\ u[q + k].answer = u[q].calls[k]
        BY DEF Followed
      <3>1. q + k <= len /\ ms[q + k].answer = ms[q].calls[k] /\ k \in Nat /\ k >= 1
        BY <2>1, <2>3 DEF Followed, len
      <3>2. q + k \in 1..len BY <1>2, <3>1
      <3> QED BY <1>2, <2>1, <3>1, <3>2, SMTT(60)
    <2>4. CASE Waiting(ms, h, i, q)
      <3>1. q = len BY <2>4 DEF Waiting, len
      <3>2. PICK j \in 1..i : h[j].calls = ms[q].calls /\ Between(h, j, i + 1) BY <2>4 DEF Waiting
      <3>3. j \in 1..Len(h) /\ j < i + 1 /\ h[j].calls # <<>> BY <1>1, <1>4, <3>2
      <3>4. CASE m.role = "system"
        <4>1. t = <<>> BY <3>4 DEF Adds
        <4>2. Len(u) = len BY <1>2, <4>1
        <4>3. \A k \in (j + 1)..((i + 2) - 1) : k \in (j + 1)..((i + 1) - 1) \/ k = i + 1
          BY <1>1, <3>2
        <4>4. Between(h, j, i + 2) BY <3>2, <3>4, <4>3 DEF Between
        <4>5. j \in 1..(i + 1) /\ (i + 1) + 1 = i + 2 BY <1>1, <3>2
        <4> QED BY <2>1, <3>1, <3>2, <4>2, <4>4, <4>5 DEF Waiting
      <3>5. CASE m.role # "system"
        <4>1. m.role = "tool" /\ m.answers = ms[q].calls
          BY <1>1, <3>2, <3>3, <3>5 DEF Conversation, Answered
        <4>2. Len(m.answers) <= Len(t)
              /\ \A k \in 1..Len(t) : k <= Len(m.answers) => t[k].answer = m.answers[k]
          BY <4>1 DEF Adds
        <4> SUFFICES ASSUME NEW k \in DOMAIN u[q].calls
                     PROVE  q + k <= Len(u) /\ u[q + k].answer = u[q].calls[k]
          BY DEF Followed
        <4>3. k \in 1..Len(m.answers) /\ Len(m.answers) \in Nat BY <1>3, <2>1, <4>1, SMTT(60)
        <4>4. k \in 1..Len(t) /\ t[k].answer = m.answers[k] BY <1>2, <4>2, <4>3, SMTT(60)
        <4>5. u[q + k] = t[k] /\ q + k <= Len(u) BY <1>2, <3>1, <4>4
        <4> QED BY <2>1, <4>1, <4>4, <4>5
      <3> QED BY <3>4, <3>5
    <2> QED BY <2>2, <2>3, <2>4
  \* those of t
  <1>5. ASSUME NEW k \in 1..Len(t), t[k].calls # <<>> PROVE Waiting(u, h, i + 1, len + k)
    <2>1. m.role \in {"user", "assistant"}
      <3>1. m.role # "system"
        <4>1. t = <<>> => Len(t) = 0 OBVIOUS
        <4> QED BY <1>2, <1>5, <4>1 DEF Adds
      <3>2. m.role # "tool" BY <1>5 DEF Adds
      <3> QED BY <1>3, <3>1, <3>2
    <2>2. Len(t) = 1 /\ t[1].calls = m.calls
      <3>1. t = <<>> => Len(t) = 0 OBVIOUS
      <3> QED BY <1>2, <1>5, <2>1, <3>1 DEF Adds
    <2>3. k = 1 /\ len + k = Len(u) /\ u[len + k].calls = m.calls BY <1>2, <2>2
    <2>4. i + 1 \in 1..(i + 1) /\ Between(h, i + 1, (i + 1) + 1) BY <1>1 DEF Between
    <2> QED BY <2>3, <2>4 DEF Waiting
  <1>6. \A q \in 1..Len(u) : q \in 1..len \/ \E k \in 1..Len(t) : q = len + k
    <2> TAKE q \in 1..Len(u)
    <2>1. CASE q <= len BY <1>2, <2>1
    <2>2. CASE q > len
      <3>1. q - len \in 1..Len(t) /\ q = len + (q - len) BY <1>2, <2>2
      <3> QED BY <3>1
    <2> QED BY <1>2, <2>1, <2>2
  <1>7. ASSUME NEW q \in 1..Len(u)
        PROVE  u[q].calls = <<>> \/ Followed(u, q) \/ Waiting(u, h, i + 1, q)
    <2>1. CASE q \in 1..len BY <1>2, <1>4, <2>1
    <2>2. CASE \E k \in 1..Len(t) : q = len + k BY <1>2, <1>5, <2>2
    <2> QED BY <1>6, <2>1, <2>2
  <1> QED BY <1>7 DEF Following, u

\* What still waits goes to the end of the last message, and changes nothing else.
LEMMA TrailingKeeps ==
    ASSUME NEW r \in Form
    PROVE  LET w == PlaceTrailing(r)
           IN  /\ w.msgs \in Seq(Norm) /\ Len(w.msgs) = Len(r.msgs) /\ Len(r.msgs) \in Nat
               /\ \A q \in 1..Len(r.msgs) : /\ w.msgs[q].calls = r.msgs[q].calls
                                            /\ w.msgs[q].answer = r.msgs[q].answer
                                            /\ w.msgs[q].role = r.msgs[q].role
                                            /\ q # Len(r.msgs) => w.msgs[q] = r.msgs[q]
               /\ r.msgs # <<>> => w.system = r.system
  <1> DEFINE w == PlaceTrailing(r)
             len == Len(r.msgs)
             piece == [r.msgs[len] EXCEPT !.text = @ \o r.pending]
             ms == [r.msgs EXCEPT ![len] = piece]
  <1>1. r.msgs \in Seq(Norm) /\ r.pending \in Seq(Int) /\ len \in Nat
        /\ DOMAIN r = {"system", "msgs", "seen", "pending"}
    BY DEF Form
  <1>2. CASE r.pending = <<>>
    <2>1. w = r BY <1>2 DEF PlaceTrailing
    <2> QED BY <1>1, <2>1
  <1>3. CASE r.pending # <<>> /\ r.msgs = <<>>
    <2>1. w.msgs = r.msgs BY <1>1, <1>3 DEF PlaceTrailing
    <2> QED BY <1>1, <1>3, <2>1
  <1>4. CASE r.pending # <<>> /\ r.msgs # <<>>
    <2>1. w = [r EXCEPT !.msgs = ms, !.pending = <<>>] BY <1>1, <1>4 DEF PlaceTrailing
    <2>2. len \in 1..len /\ r.msgs[len] \in Norm BY <1>1, <1>4
    <2>3. r.msgs[len].text \o r.pending \in Seq(Int) BY <1>1, <2>2 DEF Norm
    <2>4. /\ piece \in Norm /\ piece.calls = r.msgs[len].calls /\ piece.answer = r.msgs[len].answer
          /\ piece.role = r.msgs[len].role
      BY <2>2, <2>3 DEF Norm
    <2> HIDE DEF piece
    <2>5. ms \in Seq(Norm) /\ Len(ms) = len /\ ms[len] = piece /\ \A q \in 1..len : q # len => ms[q] = r.msgs[q]
      BY <1>1, <2>2, <2>4
    <2> HIDE DEF ms
    <2>6. w.msgs = ms /\ w.system = r.system BY <1>1, <2>1
    <2> HIDE DEF w
    <2>7. ASSUME NEW q \in 1..len
          PROVE  /\ ms[q].calls = r.msgs[q].calls /\ ms[q].answer = r.msgs[q].answer
                 /\ ms[q].role = r.msgs[q].role /\ (q # len => ms[q] = r.msgs[q])
      BY <2>4, <2>5
    <2> QED BY <1>1, <2>5, <2>6, <2>7 DEF w
  <1> QED BY <1>2, <1>3, <1>4

\* Along the whole conversation.
LEMMA ParsedFollow ==
    ASSUME client \in {"openai", "anthropic"}, NEW h, Conversation(h)
    PROVE  \A i \in 0..Len(h) : Following(Parsing(h)[i].msgs, h, i)
  <1> DEFINE p == Parsing(h)
             len == Len(h)
             good == {i \in Nat : Following(p[i].msgs, h, i)}
  <1>1. len \in Nat /\ Properly(h) /\ \A i \in 1..len : h[i] \in Said /\ Proper(h[i])
    BY DEF Conversation, Properly
  <1>2. p[0] = Empty /\ \A i \in 1..len : p[i] = Take(p[i - 1], h[i]) BY <1>1, ParsingParses
  <1>3. \A i \in 0..len : p[i] \in Form BY <1>1, ParsedForms DEF Dialects
  <1> HIDE DEF p, len
  <1>4. 0 \in good
    <2>1. Empty.msgs = <<>> BY DEF Empty
    <2>2. Following(<<>>, h, 0) BY DEF Following
    <2> QED BY <1>2, <2>1, <2>2
  <1>5. ASSUME NEW k \in 1..len, k - 1 \in good PROVE k \in good
    <2>4. k - 1 \in 0..(len - 1) /\ (k - 1) + 1 = k BY <1>1
    <2> DEFINE r == p[k - 1]
    <2>6. r \in Form /\ h[k] \in Said /\ Proper(h[k]) /\ p[k] = Take(r, h[k]) BY <1>1, <1>2, <1>3
    <2>9. r.msgs \in Seq(Norm) /\ Following(r.msgs, h, k - 1) BY <1>5, <2>6 DEF Form
    <2> HIDE DEF r
    <2>7. \E t : Adds(h[k], t) /\ p[k].msgs = r.msgs \o t
      <3>1. CASE client = "openai"
        <4>1. p[k] = TakeOpenAI(r, h[k]) BY <2>6, <3>1 DEF Take
        <4> QED BY <2>6, <4>1, OpenAITakes
      <3>2. CASE client = "anthropic"
        <4>1. p[k] = TakeAnthropic(r, h[k]) BY <2>6, <3>2 DEF Take
        <4>2. \E t : Adds(h[k], t) /\ TakeAnthropic(r, h[k]).msgs = r.msgs \o t
          BY <2>6, AnthropicTakes
        <4> QED BY <4>1, <4>2
      <3> QED BY <3>1, <3>2
    <2>8. PICK t : Adds(h[k], t) /\ p[k].msgs = r.msgs \o t BY <2>7
    <2>10. Following(r.msgs \o t, h, (k - 1) + 1) BY <2>4, <2>8, <2>9, FollowsOn DEF len
    <2>11. Following(p[k].msgs, h, k) BY <2>4, <2>8, <2>10
    <2> QED BY <2>11
  <1>6. \A i \in 0..len : i \in good
    <2> HIDE DEF good
    <2> QED BY <1>1, <1>4, <1>5, Climb
  <1> QED BY <1>6 DEF p, len

\* When the user asks, or answers, no call waits for its results.
LEMMA AllFollowed ==
    ASSUME client \in {"openai", "anthropic"}, NEW h, Conversation(h), Asks(h)
    PROVE  /\ Parse(h).msgs \in Seq(Norm)
           /\ \A q \in 1..Len(Parse(h).msgs) :
                 Parse(h).msgs[q].calls = <<>> \/ Followed(Parse(h).msgs, q)
  <1> DEFINE len == Len(h)
             r == Parsing(h)[len]
             ms == r.msgs
  <1>1. len \in Nat /\ Properly(h) /\ len \in 0..len BY DEF Conversation, Properly
  <1>2. r \in Form /\ Following(ms, h, len) BY <1>1, ParsedForms, ParsedFollow DEF Dialects
  <1> HIDE DEF r
  <1>3. ms \in Seq(Norm) BY <1>2 DEF Form
  <1>4. ASSUME NEW q \in 1..Len(ms), ms[q].calls # <<>> PROVE Followed(ms, q)
    <2>1. ASSUME Waiting(ms, h, len, q) PROVE FALSE
      <3>1. PICK j \in 1..len : h[j].calls = ms[q].calls /\ Between(h, j, len + 1) BY <2>1 DEF Waiting
      <3>2. PICK l \in 1..len : h[l].role \in {"user", "tool"} /\ Between(h, l, len + 1) BY DEF Asks
      <3>3. h[j].role = "assistant"
        <4>1. Proper(h[j]) BY DEF Conversation
        <4> QED BY <1>4, <3>1, <4>1 DEF Proper
      <3>4. CASE j < l BY <1>1, <3>1, <3>2, <3>4 DEF Between
      <3>5. CASE l < j BY <1>1, <3>2, <3>3, <3>5 DEF Between
      <3>6. CASE l = j BY <3>2, <3>3, <3>6
      <3> QED BY <1>1, <3>4, <3>5, <3>6
    <2> QED BY <1>2, <1>4, <2>1 DEF Following
  <1>5. Parse(h).msgs \in Seq(Norm) /\ Len(Parse(h).msgs) = Len(ms)
        /\ \A q \in 1..Len(ms) : Parse(h).msgs[q].calls = ms[q].calls
                                 /\ Parse(h).msgs[q].answer = ms[q].answer
    <2>1. CASE client # "anthropic" \/ r.pending = <<>>
      <3>1. Parse(h) = r BY <2>1 DEF Parse, PlaceTrailing, r
      <3> QED BY <1>3, <3>1
    <2>2. CASE client = "anthropic" /\ r.pending # <<>>
      <3>1. Parse(h) = PlaceTrailing(r) BY <2>2 DEF Parse, r
      <3> QED BY <1>2, <2>2, <3>1, TrailingKeeps
    <2> QED BY <2>1, <2>2
  <1> DEFINE us == Parse(h).msgs
  <1> HIDE DEF us, ms
  <1>6. us \in Seq(Norm) /\ Len(us) = Len(ms) /\ Len(ms) \in Nat
        /\ \A q \in 1..Len(ms) : us[q].calls = ms[q].calls /\ us[q].answer = ms[q].answer
    BY <1>3, <1>5 DEF us
  <1>7. ASSUME NEW q \in 1..Len(us), us[q].calls # <<>> PROVE Followed(us, q)
    <2>1. Followed(ms, q) BY <1>4, <1>6, <1>7
    <2> SUFFICES ASSUME NEW k \in DOMAIN us[q].calls
                 PROVE  q + k <= Len(us) /\ us[q + k].answer = us[q].calls[k]
      BY DEF Followed
    <2>2. us[q].calls \in Seq(Nat)
      <3>1. us[q] \in Norm BY <1>6
      <3> QED BY <3>1 DEF Norm
    <2>3. q + k <= Len(ms) /\ ms[q + k].answer = ms[q].calls[k] /\ k \in Nat /\ k >= 1
      BY <1>6, <2>1, <2>2 DEF Followed
    <2>4. q + k \in 1..Len(ms) BY <1>6, <2>3
    <2> QED BY <1>6, <2>3, <2>4
  <1> QED BY <1>6, <1>7 DEF us

-------------------------------------------------------------------------------
(* The request.                                                              *)

Upstreamed == {"openai", "anthropic", "responses", "ollama", "commandcode"}
Built(ms) == FlattenSeq([i \in DOMAIN ms |-> BuildMsg(ms[i])])

\* The builders, message by message.
LEMMA BuildsOne ==
    ASSUME upstream \in Upstreamed, NEW m \in Norm
    PROVE  /\ BuildMsg(m) \in Seq(Norm)
           /\ upstream # "responses" \/ m.role # "assistant" => Len(BuildMsg(m)) = 1
           /\ upstream \notin {"responses", "ollama"} =>
                 BuildMsg(m)[1].calls = m.calls /\ BuildMsg(m)[1].answer = m.answer
  <1>1. <<m>> \in Seq(Norm) /\ Len(<<m>>) = 1 /\ <<m>>[1] = m OBVIOUS
  <1>2. m.calls \in Seq(Nat) /\ DOMAIN m.calls = 1..Len(m.calls) /\ Len(m.calls) \in Nat BY DEF Norm
  <1>3. <<>> \in Seq({"good", "bad"}) /\ <<>> \in Seq(Nat) /\ <<>> \in Seq(Int) OBVIOUS
  <1>4. CASE upstream \in {"openai", "commandcode"}
    <2>1. BuildMsg(m) = <<m>> BY <1>4 DEF BuildMsg, BuildOpenAI, BuildCommandCode
    <2> QED BY <1>1, <2>1
  <1>5. CASE upstream = "anthropic"
    <2> DEFINE b == [m EXCEPT !.images = <<>>, !.role = IF @ = "assistant" THEN @ ELSE "user"]
    <2>1. BuildMsg(m) = <<b>> BY <1>5 DEF BuildMsg, BuildAnthropic
    <2>2. b \in Norm /\ b.calls = m.calls /\ b.answer = m.answer BY <1>3 DEF Norm, Roles
    <2> HIDE DEF b
    <2> QED BY <2>1, <2>2
  <1>6. CASE upstream = "ollama"
    <2> DEFINE b == [m EXCEPT !.images = <<>>, !.answer = 0]
    <2>1. BuildMsg(m) = <<b>> BY <1>6 DEF BuildMsg, BuildOllama
    <2>2. b \in Norm BY <1>3 DEF Norm
    <2> HIDE DEF b
    <2> QED BY <1>6, <2>1, <2>2
  <1>7. CASE upstream = "responses" /\ m.role # "assistant"
    <2>1. BuildMsg(m) = <<m>> BY <1>7 DEF BuildMsg, BuildResponses
    <2> QED BY <1>1, <1>7, <2>1
  <1>8. CASE upstream = "responses" /\ m.role = "assistant"
    <2> DEFINE piece == [m EXCEPT !.calls = <<>>, !.images = <<>>]
               f(i) == Msg("call", <<>>, <<m.calls[i]>>, 0, <<>>)
               a == IF m.text # <<>> THEN <<piece>> ELSE <<>>
               b == [i \in DOMAIN m.calls |-> f(i)]
    <2>1. BuildMsg(m) = a \o b BY <1>8 DEF BuildMsg, BuildResponses
    <2>2. piece \in Norm BY <1>3 DEF Norm
    <2>3. \A i \in DOMAIN m.calls : f(i) \in Norm
      <3>1. \A i \in DOMAIN m.calls : <<m.calls[i]>> \in Seq(Nat) BY <1>2
      <3> QED BY <1>3, <3>1 DEF Msg, Norm, Roles
    <2> HIDE DEF piece, f
    <2>4. a \in Seq(Norm) /\ b \in Seq(Norm) BY <1>2, <2>2, <2>3
    <2> HIDE DEF a, b
    <2> QED BY <1>8, <2>1, <2>4
  <1> QED BY <1>4, <1>5, <1>6, <1>7, <1>8 DEF Upstreamed

\* What is built of each message of the normal form.
Builder == [m \in Norm |-> BuildMsg(m)]

\* A request is built in a row, so it can be built in two parts.
LEMMA BuiltBoth ==
    ASSUME upstream \in Upstreamed, NEW a \in Seq(Norm), NEW b \in Seq(Norm)
    PROVE  /\ Built(a) \in Seq(Norm) /\ Built(b) \in Seq(Norm)
           /\ Built(a \o b) = Built(a) \o Built(b)
  <1>1. Makes(Builder, Norm, Seq(Norm)) BY BuildsOne DEF Makes, Builder
  <1>2. \A s \in Seq(Norm) : Built(s) = Flat(Builder, s)
    <2> TAKE s \in Seq(Norm)
    <2>1. \A i \in DOMAIN s : s[i] \in Norm OBVIOUS
    <2>2. [i \in DOMAIN s |-> BuildMsg(s[i])] = Each(Builder, s) BY <2>1 DEF Each, Builder
    <2> QED BY <2>2 DEF Built, Flat
  <1>3. a \o b \in Seq(Norm) OBVIOUS
  <1>4. Rows(Builder, Norm, Norm) BY <1>1, FlatBoth
  <1> HIDE DEF Builder, Built
  <1>5. /\ Flat(Builder, a) \in Seq(Norm) /\ Flat(Builder, b) \in Seq(Norm)
        /\ Flat(Builder, a \o b) = Flat(Builder, a) \o Flat(Builder, b)
    BY <1>4 DEF Rows
  <1> QED BY <1>2, <1>3, <1>5

\* One message for each, but for a Responses and an Ollama upstream.
LEMMA BuiltSingles ==
    ASSUME upstream \in Upstreamed \ {"responses", "ollama"}, NEW ms \in Seq(Norm)
    PROVE  /\ Len(Built(ms)) = Len(ms) /\ DOMAIN Built(ms) = 1..Len(ms)
           /\ \A q \in 1..Len(ms) : Built(ms)[q].calls = ms[q].calls /\ Built(ms)[q].answer = ms[q].answer
  <1> DEFINE len == Len(ms)
             f == [i \in 1..len |-> BuildMsg(ms[i])[1]]
             g == [i \in 1..len |-> <<f[i]>>]
  <1>1. len \in Nat /\ DOMAIN ms = 1..len OBVIOUS
  <1>2. ASSUME NEW i \in 1..len
        PROVE  BuildMsg(ms[i]) = <<f[i]>> /\ f[i] \in Norm /\ f[i].calls = ms[i].calls
               /\ f[i].answer = ms[i].answer
    <2>1. ms[i] \in Norm /\ f[i] = BuildMsg(ms[i])[1] OBVIOUS
    <2> HIDE DEF f
    <2>2. /\ BuildMsg(ms[i]) \in Seq(Norm) /\ Len(BuildMsg(ms[i])) = 1
          /\ BuildMsg(ms[i])[1].calls = ms[i].calls /\ BuildMsg(ms[i])[1].answer = ms[i].answer
      BY <2>1, BuildsOne DEF Upstreamed
    <2> QED BY <2>1, <2>2
  <1>3. Built(ms) = FlattenSeq(g) BY <1>1, <1>2 DEF Built
  <1>4. f \in [1..len -> Norm] BY <1>2
  <1> HIDE DEF f
  <1>5. FlattenSeq(g) = f BY <1>1, <1>4, FlattenSingles
  <1>6. Len(f) = len /\ DOMAIN f = 1..len BY <1>1, <1>4
  <1> QED BY <1>2, <1>3, <1>5, <1>6

-------------------------------------------------------------------------------
(* The client and the proxy, turn by turn.                                   *)

\* Parser and builders, with the dialect as a parameter: they depend on no other variable.
TakeBy(c, r, m) == CASE c = "openai" -> TakeOpenAI(r, m)
                     [] c = "ollama" -> TakeOllama(r, m)
                     [] c = "responses" -> TakeResponses(r, m)
                     [] c = "anthropic" -> TakeAnthropic(r, m)
ParsingBy(c, h) == LET p[i \in 0..Len(h)] == IF i = 0 THEN Empty ELSE TakeBy(c, p[i - 1], h[i])
                   IN p
ParsedBy(c, h) == LET r == ParsingBy(c, h)[Len(h)]
                  IN IF c = "anthropic" THEN PlaceTrailing(r) ELSE r
BuildBy(u, m) == CASE u = "openai" -> BuildOpenAI(m)
                   [] u = "anthropic" -> BuildAnthropic(m)
                   [] u = "responses" -> BuildResponses(m)
                   [] u = "ollama" -> BuildOllama(m)
                   [] u = "commandcode" -> BuildCommandCode(m)
BuiltBy(u, ms) == FlattenSeq([i \in DOMAIN ms |-> BuildBy(u, ms[i])])

\* They are the model's.
LEMMA ByDialect ==
    /\ \A h : Parse(h) = ParsedBy(client, h)
    /\ \A ms : Built(ms) = BuiltBy(upstream, ms)
  BY DEF Parse, Parsing, Take, ParsedBy, ParsingBy, TakeBy, Built, BuildMsg, BuiltBy, BuildBy

\* The client's conversation is one in which results stand after their calls; the last
\* request was built from a beginning of it that ends with the user's turn or results.
TalkInv ==
    /\ client \in Dialects /\ upstream \in Upstreamed
    /\ Conversation(hist) /\ upto \in 0..Len(hist)
    /\ Sent => /\ Asks(SubSeq(hist, 1, upto))
               /\ req.msgs = BuiltBy(upstream, ParsedBy(client, SubSeq(hist, 1, upto)).msgs)
               /\ req.system = ParsedBy(client, SubSeq(hist, 1, upto)).system

\* A beginning of a conversation is one.
LEMMA Beginning ==
    ASSUME NEW h, Conversation(h), NEW u \in 0..Len(h)
    PROVE  /\ Conversation(SubSeq(h, 1, u)) /\ Len(SubSeq(h, 1, u)) = u
           /\ \A i \in 1..u : SubSeq(h, 1, u)[i] = h[i]
  <1> DEFINE g == SubSeq(h, 1, u)
  <1>1. /\ h \in Seq(Said) /\ Len(h) \in Nat /\ u \in Nat /\ u <= Len(h)
        /\ (\A i \in 1..Len(h) : Proper(h[i])) /\ Answered(h)
    BY DEF Conversation
  <1>2. g \in Seq(Said) /\ Len(g) = u /\ \A i \in 1..u : g[i] = h[i] BY <1>1
  <1> HIDE DEF g
  <1>3. \A i \in 1..u : Proper(g[i]) BY <1>1, <1>2
  <1>4. ASSUME NEW i \in 1..u, NEW j \in 1..u, i < j, g[i].calls # <<>>, g[j].role # "system",
               Between(g, i, j)
        PROVE  g[j].role = "tool" /\ g[j].answers = g[i].calls
    <2>1. \A k \in (i + 1)..(j - 1) : g[k] = h[k] BY <1>1, <1>2
    <2>2. Between(h, i, j) BY <1>4, <2>1 DEF Between
    <2>3. i \in 1..Len(h) /\ j \in 1..Len(h) /\ g[i] = h[i] /\ g[j] = h[j] BY <1>1, <1>2
    <2> QED BY <1>1, <1>4, <2>2, <2>3 DEF Answered
  <1>5. Answered(g) BY <1>2, <1>4 DEF Answered
  <1>6. Conversation(g) BY <1>2, <1>3, <1>5 DEF Conversation
  <1> QED BY <1>2, <1>6 DEF g

\* The calls that wait for results are numbers, as the messages of the client hold them.
LEMMA OpenType ==
    ASSUME Conversation(hist)
    PROVE  /\ Open \in Seq(Nat)
           /\ Speaker \in {"user", "tool"} => Open = <<>> /\ Asks(hist)
  <1>1. hist \in Seq(Said) /\ Len(hist) \in Nat /\ DOMAIN hist = 1..Len(hist) BY DEF Conversation
  <1>2. CASE Turned = {} BY <1>2 DEF Speaker, Open
  <1>3. CASE Turned # {}
    <2>1. PICK i \in Turned : Between(hist, i, Len(hist) + 1) BY <1>1, <1>3, LastTurnIsThere
    <2>2. Speaker = hist[i].role /\ Open = IF hist[i].role = "assistant" THEN hist[i].calls ELSE <<>>
      BY <1>1, <2>1, LastTurn
    <2>3. i \in 1..Len(hist) /\ hist[i].calls \in Seq(Nat)
      <3>1. i \in 1..Len(hist) BY <1>1 DEF Turned
      <3>2. hist[i] \in Said BY <1>1, <3>1
      <3> QED BY <3>1, <3>2 DEF Said
    <2>4. Speaker \in {"user", "tool"} => Asks(hist) BY <2>1, <2>2, <2>3 DEF Asks
    <2> QED BY <2>2, <2>3, <2>4
  <1> QED BY <1>2, <1>3

\* No message, no request.
LEMMA TalkStarts == RequestInit => TalkInv
  <1> SUFFICES ASSUME RequestInit PROVE TalkInv OBVIOUS
  <1>1. client \in Dialects /\ upstream \in Upstreamed
    BY RequestAssumption DEF RequestInit, Dialects, Upstreamed
  <1>2. hist = <<>> /\ upto = 0 /\ ~Sent BY DEF RequestInit, Unsent, Sent
  <1>3. Conversation(<<>>) /\ 0 \in 0..Len(<<>>)
    <2>1. <<>> \in Seq(Said) /\ Len(<<>>) = 0 OBVIOUS
    <2> QED BY <2>1 DEF Conversation, Answered
  <1> QED BY <1>1, <1>2, <1>3 DEF TalkInv

\* The client's message m, at the end.
LEMMA TalkGrows ==
    ASSUME TalkInv, NEW m \in Said, Proper(m), Grow(m),
           m.role = "system" \/ Open = <<>> \/ (m.role = "tool" /\ m.answers = Open)
    PROVE  TalkInv'
  <1>1. hist' = Append(hist, m) /\ UNCHANGED <<client, upstream, ask, req, upto>> BY DEF Grow
  <1>2. Conversation(Append(hist, m)) BY ConversationGrows DEF TalkInv
  <1>3. /\ hist \in Seq(Said) /\ Len(hist) \in Nat /\ upto \in 0..Len(hist)
        /\ upto \in 0..Len(Append(hist, m)) /\ SubSeq(Append(hist, m), 1, upto) = SubSeq(hist, 1, upto)
    <2>1. hist \in Seq(Said) /\ upto \in 0..Len(hist) BY DEF TalkInv, Conversation
    <2>2. Len(Append(hist, m)) = Len(hist) + 1 /\ Append(hist, m) \in Seq(Said)
          /\ \A i \in 1..upto : Append(hist, m)[i] = hist[i]
      BY <2>1
    <2> DEFINE a == Append(hist, m)
    <2>3. a \in Seq(Said) /\ upto \in 0..Len(a) /\ \A i \in 1..upto : a[i] = hist[i] BY <2>1, <2>2
    <2> HIDE DEF a
    <2>4. SubSeq(a, 1, upto) = SubSeq(hist, 1, upto)
      <3>1. SubSeq(a, 1, upto) = [i \in 1..upto |-> a[i]]
            /\ SubSeq(hist, 1, upto) = [i \in 1..upto |-> hist[i]]
        BY <2>1, <2>3
      <3> QED BY <2>3, <3>1
    <2> QED BY <2>1, <2>2, <2>4 DEF a
  <1> DEFINE g == SubSeq(hist, 1, upto)
  <1>4. SubSeq(hist', 1, upto') = g BY <1>1, <1>3
  <1> HIDE DEF g
  <1> QED BY <1>1, <1>2, <1>3, <1>4 DEF TalkInv, Sent, g

\* The conversation is sent.
LEMMA TalkSends == ASSUME TalkInv, Send PROVE TalkInv'
  <1>1. /\ Speaker \in {"user", "tool"} /\ req' = Request(hist) /\ upto' = Len(hist)
        /\ UNCHANGED <<client, upstream, ask, hist>>
    BY DEF Send
  <1>2. hist \in Seq(Said) /\ Len(hist) \in Nat /\ SubSeq(hist, 1, Len(hist)) = hist
    BY DEF TalkInv, Conversation
  <1>3. Asks(hist) BY <1>1, OpenType DEF TalkInv
  <1> DEFINE s == SubSeq(hist, 1, upto)
             q == Request(hist)
  <1>4. q.state = "sent" => /\ q.msgs = BuiltBy(upstream, ParsedBy(client, hist).msgs)
                            /\ q.system = ParsedBy(client, hist).system
    <2>1. q = IF Refuses(Parse(hist)) THEN Refused
              ELSE [state |-> "sent", system |-> Parse(hist).system, think |-> Think,
                    msgs |-> Built(Parse(hist).msgs)]
      BY DEF Request, Built
    <2>2. Refused.state # "sent" BY DEF Refused
    <2> HIDE DEF q
    <2> QED BY <2>1, <2>2, ByDialect
  <1>5. SubSeq(hist', 1, upto') = hist BY <1>1, <1>2
  <1>6. upto' \in 0..Len(hist') BY <1>1, <1>2
  <1> HIDE DEF q
  <1>7. req' = q BY <1>1 DEF q
  <1> QED BY <1>1, <1>3, <1>4, <1>5, <1>6, <1>7 DEF TalkInv, Sent

\* Every step keeps the conversation and the request as they are described.
LEMMA TalkKept == TalkInv /\ [RequestNext]_requestVars => TalkInv'
  <1> SUFFICES ASSUME TalkInv, [RequestNext]_requestVars PROVE TalkInv' OBVIOUS
  <1>1. hist \in Seq(Said) /\ Len(hist) \in Nat /\ Next1 \in Nat /\ Next1 # 0
    BY DEF TalkInv, Conversation, Next1
  <1>2. Open \in Seq(Nat) /\ (Speaker \in {"user", "tool"} => Open = <<>>)
    BY OpenType DEF TalkInv
  <1>3. <<>> \in Seq(Nat) OBVIOUS
  <1>4. CASE UserSays
    <2>1. PICK image \in {"none", "good", "bad"} : Grow(Message("user", Next1, <<>>, <<>>, image))
      BY <1>4 DEF UserSays
    <2> DEFINE m == Message("user", Next1, <<>>, <<>>, image)
    <2>2. m \in Said /\ Proper(m) BY <1>1, <1>3 DEF Message, Said, Proper
    <2>3. Open = <<>> BY <1>4 DEF UserSays
    <2> HIDE DEF m
    <2>4. Grow(m) BY <2>1 DEF m
    <2> QED BY <2>2, <2>3, <2>4, TalkGrows
  <1>5. CASE AssistantSays
    <2>1. PICK text \in {0, Next1}, calls \in {<<>>, <<Next1>>, <<Next1, 20 + Next1>>} :
             Grow(Message("assistant", text, calls, <<>>, "none"))
      BY <1>5 DEF AssistantSays
    <2> DEFINE m == Message("assistant", text, calls, <<>>, "none")
    <2>2. calls \in Seq(Nat) /\ text \in Nat
      <3>1. 20 + Next1 \in Nat BY <1>1
      <3>2. <<Next1>> \in Seq(Nat) /\ <<Next1, 20 + Next1>> \in Seq(Nat)
        <4> DEFINE piece == Next1
                   y == 20 + Next1
        <4>1. piece \in Nat /\ y \in Nat BY <1>1, <3>1
        <4> HIDE DEF piece, y
        <4>2. <<piece>> \in Seq(Nat) /\ <<piece, y>> \in Seq(Nat) BY <4>1
        <4> QED BY <4>2 DEF piece, y
      <3>3. \A z \in {<<>>, <<Next1>>, <<Next1, 20 + Next1>>} : z \in Seq(Nat)
        BY <1>3, <3>2, Zenon
      <3>4. calls \in Seq(Nat) BY <3>3, Zenon
      <3> QED BY <1>1, <3>4
    <2>3. m \in Said /\ Proper(m) BY <1>3, <2>2 DEF Message, Said, Proper
    <2>4. Open = <<>> BY <1>2, <1>5 DEF AssistantSays
    <2> HIDE DEF m
    <2>5. Grow(m) BY <2>1 DEF m
    <2> QED BY <2>3, <2>4, <2>5, TalkGrows
  <1>6. CASE ToolAnswers
    <2>1. PICK text \in IF client = "anthropic" THEN {0, Next1} ELSE {0} :
             Grow(Message("tool", text, <<>>, Open, "none"))
      BY <1>6 DEF ToolAnswers
    <2> DEFINE m == Message("tool", text, <<>>, Open, "none")
    <2>2. text \in Nat /\ Open # <<>> BY <1>1, <1>6 DEF ToolAnswers
    <2>3. m \in Said /\ Proper(m) /\ m.role = "tool" /\ m.answers = Open
      BY <1>2, <1>3, <2>2 DEF Message, Said, Proper
    <2> HIDE DEF m
    <2>4. Grow(m) BY <2>1 DEF m
    <2> QED BY <2>3, <2>4, TalkGrows
  <1>7. CASE SystemSays
    <2> DEFINE m == Message("system", Next1, <<>>, <<>>, "none")
    <2>1. m \in Said /\ Proper(m) /\ m.role = "system" BY <1>1, <1>3 DEF Message, Said, Proper
    <2> HIDE DEF m
    <2>2. Grow(m) BY <1>7 DEF SystemSays, m
    <2> QED BY <2>1, <2>2, TalkGrows
  <1>8. CASE Send BY <1>8, TalkSends
  <1>9. CASE UNCHANGED requestVars
    BY <1>9 DEF requestVars, TalkInv, Sent
  <1> QED BY <1>4, <1>5, <1>6, <1>7, <1>8, <1>9 DEF RequestNext

\* A request built from the conversation has the results after their calls.
LEMMA TalkFollows == TalkInv => ResultsFollow
  <1> SUFFICES ASSUME TalkInv, Sent, client \in {"openai", "anthropic"},
                      upstream \notin {"responses", "ollama"},
                      NEW i \in DOMAIN req.msgs, NEW k \in DOMAIN req.msgs[i].calls
               PROVE  i + k <= Len(req.msgs) /\ req.msgs[i + k].answer = req.msgs[i].calls[k]
    BY DEF ResultsFollow
  <1> DEFINE h == SubSeq(hist, 1, upto)
             ms == Parse(h).msgs
  <1>1. Conversation(h) /\ Asks(h) /\ req.msgs = Built(ms)
        /\ upstream \in Upstreamed \ {"responses", "ollama"}
    <2>1. Conversation(h) BY Beginning DEF TalkInv
    <2> QED BY <2>1, ByDialect DEF TalkInv
  <1> HIDE DEF h
  <1>2. ms \in Seq(Norm) /\ \A q \in 1..Len(ms) : ms[q].calls = <<>> \/ Followed(ms, q)
    BY <1>1, AllFollowed
  <1> HIDE DEF ms
  <1>3. /\ Len(Built(ms)) = Len(ms) /\ DOMAIN Built(ms) = 1..Len(ms)
        /\ \A q \in 1..Len(ms) : Built(ms)[q].calls = ms[q].calls /\ Built(ms)[q].answer = ms[q].answer
    BY <1>1, <1>2, BuiltSingles
  <1>4. i \in 1..Len(ms) /\ k \in DOMAIN ms[i].calls /\ req.msgs[i].calls = ms[i].calls
    BY <1>1, <1>3
  <1>5. ms[i].calls # <<>>
    <2>1. ms[i].calls = <<>> => DOMAIN ms[i].calls = {} OBVIOUS
    <2> QED BY <1>4, <2>1
  <1>6. i + k <= Len(ms) /\ ms[i + k].answer = ms[i].calls[k] BY <1>2, <1>4, <1>5 DEF Followed
  <1>7. k \in Nat /\ k >= 1 /\ i \in Nat /\ Len(ms) \in Nat
    <2>1. ms[i] \in Norm BY <1>2, <1>4
    <2>2. ms[i].calls \in Seq(Nat) BY <2>1 DEF Norm
    <2> QED BY <1>2, <1>4, <2>2
  <1>8. i + k \in 1..Len(ms) BY <1>4, <1>6, <1>7
  <1> QED BY <1>1, <1>3, <1>4, <1>6, <1>8

\* Every request that is sent has the results of a message's calls right after it, in
\* the order of the calls: ParseOpenAIRequest and ParseAnthropicRequest with the
\* builders that keep a message whole, on every conversation of a client that answers
\* all calls of a message at once, whatever system messages lie around.
THEOREM ResultsAlwaysFollow == RequestSpec => []ResultsFollow
  <1>1. RequestSpec => []TalkInv BY TalkStarts, TalkKept, PTL DEF RequestSpec
  <1> QED BY <1>1, TalkFollows, PTL

-------------------------------------------------------------------------------
(* The beginning that two requests share.                                    *)

\* One sequence after another.
LEMMA Longer ==
    ASSUME NEW V, NEW a \in Seq(V), NEW b \in Seq(V)
    PROVE  /\ a \o b \in Seq(V) /\ Len(a \o b) = Len(a) + Len(b) /\ Len(a) \in Nat /\ Len(b) \in Nat
           /\ \A i \in 1..Len(a) : (a \o b)[i] = a[i]
  OBVIOUS

\* A sequence is the beginning of what it is continued to, and so is its front.
LEMMA PrefixOfMore ==
    ASSUME NEW V, NEW a \in Seq(V), NEW b \in Seq(V)
    PROVE  IsPrefix(a, a \o b) /\ IsPrefix(Front(a), a \o b)
  <1> DEFINE c == a \o b
  <1>1. /\ c \in Seq(V) /\ Len(c) = Len(a) + Len(b) /\ Len(a) \in Nat /\ Len(b) \in Nat
        /\ \A i \in 1..Len(a) : c[i] = a[i]
    OBVIOUS
  <1> HIDE DEF c
  <1>2. SubSeq(a, 1, Len(a)) = SubSeq(c, 1, Len(a))
    <2>1. SubSeq(a, 1, Len(a)) = [i \in 1..Len(a) |-> a[i]]
          /\ SubSeq(c, 1, Len(a)) = [i \in 1..Len(a) |-> c[i]]
      BY <1>1
    <2> QED BY <1>1, <2>1
  <1>3. IsPrefix(a, c) BY <1>1, <1>2 DEF IsPrefix
  <1>4. IsPrefix(Front(a), c)
    <2>1. CASE Len(a) = 0
      <3>1. Front(a) = <<>> BY <2>1 DEF Front
      <3>2. SubSeq(<<>>, 1, 0) = <<>> /\ SubSeq(c, 1, 0) = <<>> /\ Len(<<>>) = 0 BY <1>1
      <3> QED BY <1>1, <3>1, <3>2 DEF IsPrefix
    <2>2. CASE Len(a) # 0
      <3> DEFINE f == Front(a)
                 k == Len(a) - 1
      <3>1. k \in Nat /\ k <= Len(c) /\ k <= Len(a) /\ f = SubSeq(a, 1, k) BY <1>1, <2>2 DEF Front
      <3>2. f \in Seq(V) /\ Len(f) = k /\ \A i \in 1..k : f[i] = a[i]
        <4> HIDE DEF k
        <4> QED BY <1>1, <3>1
      <3> HIDE DEF f
      <3>3. SubSeq(f, 1, k) = [i \in 1..k |-> f[i]] /\ SubSeq(c, 1, k) = [i \in 1..k |-> c[i]]
        BY <1>1, <3>1, <3>2
      <3>4. \A i \in 1..k : f[i] = c[i]
        <4>1. \A i \in 1..k : i \in 1..Len(a) BY <1>1, <3>1
        <4> QED BY <1>1, <3>2, <4>1
      <3>5. SubSeq(f, 1, k) = SubSeq(c, 1, k) BY <3>3, <3>4
      <3>6. IsPrefix(f, c) BY <3>1, <3>2, <3>5 DEF IsPrefix
      <3> QED BY <3>6 DEF f
    <2> QED BY <2>1, <2>2
  <1> QED BY <1>3, <1>4 DEF c

\* Without its last element a sequence continued by one is what it was.
LEMMA FrontOfOneMore ==
    ASSUME NEW V, NEW a \in Seq(V), NEW b \in Seq(V), Len(b) = 1
    PROVE  Front(a \o b) = a
  <1> DEFINE c == a \o b
  <1>1. /\ c \in Seq(V) /\ Len(c) = Len(a) + 1 /\ Len(a) \in Nat
        /\ \A i \in 1..Len(a) : c[i] = a[i]
    <2>1. Len(c) = Len(a) + Len(b) /\ c \in Seq(V) /\ Len(a) \in Nat BY Longer
    <2>2. \A i \in 1..Len(a) : c[i] = a[i] BY Longer
    <2> QED BY <2>1, <2>2
  <1> HIDE DEF c
  <1>2. Front(c) = SubSeq(c, 1, Len(a)) BY <1>1 DEF Front
  <1>3. SubSeq(c, 1, Len(a)) \in Seq(V) /\ Len(SubSeq(c, 1, Len(a))) = Len(a)
        /\ \A i \in 1..Len(a) : SubSeq(c, 1, Len(a))[i] = a[i]
    BY <1>1
  <1> DEFINE d == SubSeq(c, 1, Len(a))
  <1> HIDE DEF d
  <1>4. d \in Seq(V) /\ Len(d) = Len(a) /\ \A i \in 1..Len(a) : d[i] = a[i] BY <1>3 DEF d
  <1>5. d = a BY <1>4
  <1> QED BY <1>2, <1>5, Zenon DEF c, d

\* One message is built as it is built.
LEMMA BuiltOne ==
    ASSUME upstream \in Upstreamed, NEW piece \in Norm
    PROVE  Built(<<piece>>) = BuildMsg(piece)
  <1> DEFINE e == BuildMsg(piece)
             W == Seq(Norm)
  <1>1. e \in Seq(Norm) BY BuildsOne
  <1>2. DOMAIN <<piece>> = 1..1 /\ <<piece>>[1] = piece OBVIOUS
  <1>3. Built(<<piece>>) = FlattenSeq([i \in 1..1 |-> e])
    <2>1. [i \in DOMAIN <<piece>> |-> BuildMsg(<<piece>>[i])] = [i \in 1..1 |-> e] BY <1>2
    <2> QED BY <2>1 DEF Built
  <1> HIDE DEF e
  <1>4. [i \in 1..1 |-> e] = Append(<<>>, e) OBVIOUS
  <1>5. <<>> \in Seq(Seq(Norm))
    <2> HIDE DEF W
    <2>1. <<>> \in Seq(W) OBVIOUS
    <2> QED BY <2>1 DEF W
  <1>6. FlattenSeq(Append(<<>>, e)) = FlattenSeq(<<>>) \o e BY <1>1, <1>5, FlattenMore
  <1>7. FlattenSeq(<<>>) \o e = e BY <1>1, FlattenNone
  <1> QED BY <1>3, <1>4, <1>6, <1>7 DEF e

\* After the user's turn, or results, an Anthropic conversation has a message to put
\* trailing reminders into, and it is not the assistant's.
LEMMA UserStands ==
    ASSUME client = "anthropic", NEW h, Properly(h), NEW j \in 1..Len(h), h[j].role \in {"user", "tool"}
    PROVE  \A i \in j..Len(h) : Between(h, j, i + 1) =>
              LET r == Parsing(h)[i]
              IN  r.seen /\ r.msgs # <<>> /\ r.msgs[Len(r.msgs)].role # "assistant"
  <1> DEFINE p == Parsing(h)
             len == Len(h)
             Stands(r) == r.seen /\ r.msgs # <<>> /\ r.msgs[Len(r.msgs)].role # "assistant"
             bad == {i \in Nat : i \in j..len /\ Between(h, j, i + 1) /\ ~Stands(p[i])}
  <1>1. len \in Nat /\ j \in 1..len /\ \A i \in 1..len : h[i] \in Said /\ Proper(h[i]) BY DEF Properly
  <1>2. \A i \in 1..len : p[i] = TakeAnthropic(p[i - 1], h[i])
    <2>1. \A i \in 1..len : p[i] = Take(p[i - 1], h[i]) BY <1>1, ParsingParses
    <2> QED BY <2>1 DEF Take
  <1>3. \A i \in 0..len : p[i] \in Form BY ParsedForms DEF Dialects
  <1> HIDE DEF p, len
  <1>4. bad = {}
    <2> SUFFICES ASSUME bad # {} PROVE FALSE OBVIOUS
    <2>1. PICK k \in bad : \A m \in bad : k <= m BY LeastNat
    <2>2. k \in j..len /\ Between(h, j, k + 1) /\ ~Stands(p[k]) BY <2>1
    <2>3. k \in 1..len /\ k - 1 \in 0..len /\ k - 1 < k /\ k - 1 \in Nat /\ (k - 1) + 1 = k BY <1>1, <2>2
    <2> DEFINE r == p[k - 1]
               w == p[k]
    <2>4. r \in Form /\ w \in Form /\ h[k] \in Said /\ Proper(h[k]) /\ w = TakeAnthropic(r, h[k])
      BY <1>1, <1>2, <1>3, <2>3
    <2> HIDE DEF r, w
    <2>5. /\ \E t : /\ Adds(h[k], t) /\ w.msgs = r.msgs \o t
                    /\ h[k].role \in {"user", "tool"} => t # <<>> /\ t[Len(t)].role # "assistant"
          /\ r.seen => w.seen /\ w.system = r.system
          /\ h[k].role \in {"user", "tool"} => w.seen
      BY <2>4, AnthropicTakes
    <2>6. PICK t : /\ Adds(h[k], t) /\ w.msgs = r.msgs \o t
                   /\ h[k].role \in {"user", "tool"} => t # <<>> /\ t[Len(t)].role # "assistant"
      BY <2>5
    <2>7. r.msgs \in Seq(Norm) /\ t \in Seq(Norm) /\ Len(r.msgs) \in Nat /\ Len(t) \in Nat
      BY <2>4, <2>6, SMTT(60) DEF Form, Adds
    <2>8. CASE k = j
      <3>1. w.seen /\ t # <<>> /\ t[Len(t)].role # "assistant" BY <2>5, <2>6, <2>8
      <3> DEFINE a == r.msgs
                 b == w.msgs
      <3>2. b = a \o t /\ a \in Seq(Norm) BY <2>6, <2>7
      <3> HIDE DEF a, b
      <3>3. Len(t) \in 1..Len(t) BY <2>7, <3>1
      <3>4. Len(b) = Len(a) + Len(t) /\ b[Len(a) + Len(t)] = t[Len(t)] /\ b # <<>>
        BY <2>7, <3>2, <3>3
      <3>5. Stands(w) BY <3>1, <3>4 DEF b
      <3> QED BY <2>2, <3>5 DEF w
    <2>9. CASE k # j
      <3>1. k - 1 \in j..len /\ k \in (j + 1)..((k + 1) - 1) BY <1>1, <2>2, <2>3, <2>9
      <3>2. h[k].role = "system" BY <2>2, <3>1 DEF Between
      <3>3. Between(h, j, (k - 1) + 1)
        <4>1. \A q \in (j + 1)..(k - 1) : q \in (j + 1)..((k + 1) - 1) BY <1>1, <2>3
        <4> QED BY <2>2, <2>3, <4>1 DEF Between
      <3>4. k - 1 \notin bad
        <4> HIDE DEF bad
        <4> QED BY <1>1, <2>1, <2>2, <2>3
      <3>5. Stands(r) BY <2>3, <3>1, <3>3, <3>4 DEF r
      <3>6. t = <<>> BY <2>6, <3>2 DEF Adds
      <3>7. w.msgs = r.msgs BY <2>6, <2>7, <3>6
      <3>8. Stands(w) BY <2>5, <3>5, <3>7
      <3> QED BY <2>2, <3>8 DEF w
    <2> QED BY <2>8, <2>9
  <1>5. \A i \in j..len : Between(h, j, i + 1) => Stands(p[i])
    <2> TAKE i \in j..len
    <2>1. i \in Nat BY <1>1
    <2>2. i \notin bad
      <3> HIDE DEF bad
      <3> QED BY <1>4
    <2> QED BY <2>1, <2>2
  <1> QED BY <1>5 DEF p, len

-------------------------------------------------------------------------------
\* Of an Anthropic conversation, what is built before the last message is the
\* beginning of what is built when it has gone on: trailing reminders are put into
\* the last message alone.
LEMMA PlacedBuild ==
    ASSUME upstream \in Upstreamed, NEW r \in Form, NEW w \in Form, NEW t \in Seq(Norm),
           w.msgs = r.msgs \o t, r.msgs # <<>>, r.msgs[Len(r.msgs)].role # "assistant"
    PROVE  IsPrefix(Front(Built(PlaceTrailing(r).msgs)), Built(PlaceTrailing(w).msgs))
  <1> DEFINE a == PlaceTrailing(r).msgs
             b == PlaceTrailing(w).msgs
             k == Len(r.msgs)
             l == Len(w.msgs)
             piece == a[k]
             f == SubSeq(a, 1, k - 1)
             e == SubSeq(b, k, l)
  <1>1. /\ a \in Seq(Norm) /\ Len(a) = k /\ k \in Nat
        /\ \A q \in 1..k : a[q].role = r.msgs[q].role /\ (q # k => a[q] = r.msgs[q])
    BY TrailingKeeps
  <1>2. /\ b \in Seq(Norm) /\ Len(b) = l /\ l \in Nat
        /\ \A q \in 1..l : q # l => b[q] = w.msgs[q]
    BY TrailingKeeps
  <1>3. r.msgs \in Seq(Norm) BY DEF Form
  <1> HIDE DEF a, b
  <1>4. k >= 1 /\ l >= k /\ \A q \in 1..k : w.msgs[q] = r.msgs[q]
    <2> DEFINE rs == r.msgs
    <2>1. rs \in Seq(Norm) /\ rs # <<>> /\ w.msgs = rs \o t BY <1>3
    <2> HIDE DEF rs
    <2>2. Len(rs) >= 1 /\ Len(rs \o t) >= Len(rs) /\ \A q \in 1..Len(rs) : (rs \o t)[q] = rs[q] BY <2>1
    <2> QED BY <2>1, <2>2 DEF rs
  <1> HIDE DEF k, l
  <1>5. piece \in Norm /\ piece.role # "assistant"
    <2>1. k \in 1..k BY <1>1, <1>4
    <2> QED BY <1>1, <2>1 DEF k
  <1>6. f \in Seq(Norm) /\ Len(f) = k - 1 /\ \A q \in 1..(k - 1) : f[q] = a[q]
    <2> DEFINE c == k - 1
    <2>1. c \in Nat /\ c <= Len(a) BY <1>1, <1>4
    <2> HIDE DEF c
    <2>2. SubSeq(a, 1, c) \in Seq(Norm) /\ Len(SubSeq(a, 1, c)) = c
          /\ \A q \in 1..c : SubSeq(a, 1, c)[q] = a[q]
      BY <1>1, <2>1
    <2> QED BY <2>2 DEF c
  <1>7. e \in Seq(Norm) /\ Len(e) = l - k + 1 /\ \A q \in 1..(l - k + 1) : e[q] = b[k + q - 1]
    BY <1>1, <1>2, <1>4
  <1> HIDE DEF piece, f, e
  <1>8. a = f \o <<piece>>
    <2>1. f \o <<piece>> = Append(f, piece) BY <1>5, <1>6
    <2> DEFINE g == Append(f, piece)
    <2>2. g \in Seq(Norm) /\ Len(g) = k /\ (\A q \in 1..(k - 1) : g[q] = f[q]) /\ g[k] = piece
      BY <1>1, <1>4, <1>5, <1>6
    <2> HIDE DEF g
    <2>3. \A q \in 1..k : g[q] = a[q]
      <3>1. \A q \in 1..k : q \in 1..(k - 1) \/ q = k BY <1>1
      <3> QED BY <1>6, <2>2, <3>1 DEF piece
    <2>4. g = a BY <1>1, <2>2, <2>3
    <2> QED BY <2>1, <2>4, Zenon DEF g
  <1>9. b = f \o e
    <2> DEFINE g == f \o e
    <2>1. g \in Seq(Norm) BY <1>6, <1>7
    <2>2. Len(g) = l
      <3>1. Len(g) = Len(f) + Len(e) BY <1>6, <1>7, Longer
      <3> QED BY <1>1, <1>2, <1>6, <1>7, <3>1
    <2>3. ASSUME NEW q \in 1..l PROVE g[q] = b[q]
      <3>1. CASE q < k
        <4>1. q \in 1..Len(f) /\ q \in 1..(k - 1) /\ q \in 1..k /\ q # k /\ q # l
          BY <1>1, <1>2, <1>4, <1>6, <3>1
        <4>2. g[q] = f[q] BY <1>6, <1>7, <4>1
        <4>3. b[q] = w.msgs[q] /\ w.msgs[q] = r.msgs[q] /\ a[q] = r.msgs[q] /\ f[q] = a[q]
          BY <1>1, <1>2, <1>4, <1>6, <4>1
        <4> QED BY <4>2, <4>3
      <3>2. CASE q >= k
        <4> DEFINE s == q - (k - 1)
        <4>1. s \in 1..(l - k + 1) /\ s \in 1..Len(e) /\ q = Len(f) + s /\ k + s - 1 = q
          BY <1>1, <1>2, <1>4, <1>6, <1>7, <3>2
        <4> HIDE DEF s
        <4>2. g[Len(f) + s] = e[s] BY <1>6, <1>7, <4>1
        <4>3. e[s] = b[k + s - 1] BY <1>7, <4>1
        <4> HIDE DEF g
        <4> QED BY <4>1, <4>2, <4>3
      <3>3. q < k \/ q >= k BY <1>1, <1>2
      <3> QED BY <3>1, <3>2, <3>3
    <2> HIDE DEF g
    <2>4. g = b BY <1>2, <2>1, <2>2, <2>3
    <2> QED BY <2>4, Zenon DEF g
  <1>10. /\ Built(f) \in Seq(Norm) /\ Built(e) \in Seq(Norm)
         /\ Built(a) = Built(f) \o Built(<<piece>>) /\ Built(b) = Built(f) \o Built(e)
    <2>1. <<piece>> \in Seq(Norm) BY <1>5
    <2>2. Built(f \o <<piece>>) = Built(f) \o Built(<<piece>>) BY <1>6, <2>1, BuiltBoth
    <2>3. Built(f) \in Seq(Norm) /\ Built(e) \in Seq(Norm) /\ Built(f \o e) = Built(f) \o Built(e)
      BY <1>6, <1>7, BuiltBoth
    <2> QED BY <1>8, <1>9, <2>2, <2>3, Zenon
  <1>11. Built(<<piece>>) \in Seq(Norm) /\ Len(Built(<<piece>>)) = 1 BY <1>5, BuiltOne, BuildsOne
  <1>12. Front(Built(a)) = Built(f) BY <1>10, <1>11, FrontOfOneMore
  <1>13. IsPrefix(Built(f), Built(b)) BY <1>10, PrefixOfMore
  <1> QED BY <1>12, <1>13 DEF a, b

\* Two requests of one conversation, the second when it has gone on.
LEMMA BuiltFurther ==
    ASSUME client \in Dialects, upstream \in Upstreamed, NEW h, Conversation(h),
           NEW u \in 0..Len(h), Asks(SubSeq(h, 1, u))
    PROVE  LET g == SubSeq(h, 1, u)
           IN  /\ IsPrefix(Front(Built(Parse(g).msgs)), Built(Parse(h).msgs))
               /\ client = "anthropic" => Parse(h).system = Parse(g).system
  <1> DEFINE g == SubSeq(h, 1, u)
             len == Len(h)
             r == Parsing(h)[u]
             w == Parsing(h)[len]
  <1>1. Conversation(g) /\ Len(g) = u /\ h \in Seq(Said) /\ len \in Nat /\ u \in 0..len /\ len \in u..len
    BY Beginning DEF Conversation
  <1>2. Properly(h) /\ Properly(g) BY <1>1 DEF Conversation, Properly
  <1>3. r \in Form /\ w \in Form BY <1>1, <1>2, ParsedForms
  <1>4. Continues(r, w) BY <1>1, <1>2, ParsedContinue
  <1>5. Parsing(g)[u] = r
    <2>1. u \in 0..u BY <1>1
    <2> QED BY <1>1, <2>1, ParsedAlike
  <1>6. Parse(h) = (IF client = "anthropic" THEN PlaceTrailing(w) ELSE w)
        /\ Parse(g) = (IF client = "anthropic" THEN PlaceTrailing(r) ELSE r)
    <2> HIDE DEF g
    <2> QED BY <1>1, <1>5 DEF Parse
  <1>7. Asks(g) OBVIOUS
  <1> HIDE DEF g, r, w
  <1>8. PICK t \in Seq(Norm) : w.msgs = r.msgs \o t BY <1>4 DEF Continues
  <1>9. CASE client # "anthropic"
    <2>1. r.msgs \in Seq(Norm) BY <1>3 DEF Form
    <2>2. /\ Built(r.msgs) \in Seq(Norm) /\ Built(t) \in Seq(Norm)
          /\ Built(r.msgs \o t) = Built(r.msgs) \o Built(t)
      BY <2>1, BuiltBoth
    <2>3. IsPrefix(Front(Built(r.msgs)), Built(w.msgs)) BY <1>8, <2>2, PrefixOfMore
    <2> QED BY <1>6, <1>9, <2>3 DEF g
  <1>10. CASE client = "anthropic"
    <2>1. PICK j \in 1..Len(g) : g[j].role \in {"user", "tool"} /\ Between(g, j, u + 1)
      BY <1>1, <1>7 DEF Asks
    <2>2. r.seen /\ r.msgs # <<>> /\ r.msgs[Len(r.msgs)].role # "assistant"
      <3>1. u \in j..Len(g) BY <1>1, <2>1
      <3> QED BY <1>2, <1>5, <1>10, <2>1, <3>1, UserStands
    <2>3. IsPrefix(Front(Built(PlaceTrailing(r).msgs)), Built(PlaceTrailing(w).msgs))
      BY <1>3, <1>8, <2>2, PlacedBuild
    <2>4. w.msgs # <<>>
      <3>1. r.msgs \in Seq(Norm) BY <1>3 DEF Form
      <3> DEFINE rs == r.msgs
      <3>2. rs \in Seq(Norm) /\ rs # <<>> /\ w.msgs = rs \o t BY <1>8, <2>2, <3>1
      <3> HIDE DEF rs
      <3>3. rs \o t # <<>>
        <4>1. Len(rs \o t) = Len(rs) + Len(t) /\ Len(rs) > 0 /\ Len(t) \in Nat BY <3>2
        <4>2. rs \o t = <<>> => Len(rs \o t) = 0 OBVIOUS
        <4> QED BY <4>1, <4>2
      <3> QED BY <3>2, <3>3
    <2>5. PlaceTrailing(r).system = r.system /\ PlaceTrailing(w).system = w.system
      BY <1>3, <2>2, <2>4, TrailingKeeps
    <2>6. w.system = r.system BY <1>4, <1>10, <2>2 DEF Continues
    <2> QED BY <1>6, <1>10, <2>3, <2>5, <2>6 DEF g
  <1> QED BY <1>9, <1>10

\* A step that sends the conversation once more.
LEMMA SendKeepsPrefix ==
    ASSUME TalkInv, Send, Sent, req'.state = "sent"
    PROVE  /\ IsPrefix(Front(req.msgs), req'.msgs)
           /\ client = "anthropic" => req'.system = req.system
  <1> DEFINE g == SubSeq(hist, 1, upto)
  <1>1. req' = Request(hist) BY DEF Send
  <1>2. req'.msgs = Built(Parse(hist).msgs) /\ req'.system = Parse(hist).system
    <2>1. Request(hist) = IF Refuses(Parse(hist)) THEN Refused
              ELSE [state |-> "sent", system |-> Parse(hist).system, think |-> Think,
                    msgs |-> Built(Parse(hist).msgs)]
      BY DEF Request, Built
    <2>2. Refused.state # "sent" BY DEF Refused
    <2> QED BY <1>1, <2>1, <2>2
  <1>3. req.msgs = Built(Parse(g).msgs) /\ req.system = Parse(g).system BY ByDialect DEF TalkInv
  <1>4. /\ IsPrefix(Front(Built(Parse(g).msgs)), Built(Parse(hist).msgs))
        /\ client = "anthropic" => Parse(hist).system = Parse(g).system
    BY BuiltFurther DEF TalkInv
  <1> HIDE DEF g
  <1> QED BY <1>2, <1>3, <1>4

\* Whenever a conversation has gone on, all messages of the request before but its
\* last are the beginning of the next one, for every pair of dialects, and an
\* Anthropic client's system text stays as it was: reminders in the middle do not move
\* the history an upstream has in its prompt cache.
THEOREM PrefixIsKept == RequestSpec => PrefixKept
  <1>1. RequestSpec => []TalkInv BY TalkStarts, TalkKept, PTL DEF RequestSpec
  <1>2. TalkInv /\ [RequestNext]_requestVars =>
          [Send /\ Sent /\ req'.state = "sent" =>
             /\ IsPrefix(Front(req.msgs), req'.msgs)
             /\ client = "anthropic" => req'.system = req.system]_requestVars
    BY SendKeepsPrefix
  <1> QED BY <1>1, <1>2, PTL DEF RequestSpec, PrefixKept

-------------------------------------------------------------------------------
(* Rows of what is made of elements.                                         *)

\* Nothing is made of no element.
LEMMA FlatNone == \A g : Flat(g, <<>>) = <<>>
  <1>1. \A g : Each(g, <<>>) = <<>> BY DEF Each
  <1> QED BY <1>1, FlattenNone DEF Flat

\* Of one element its own row is made.
LEMMA FlatOne ==
    ASSUME NEW V, NEW W, NEW g, Makes(g, V, Seq(W)), NEW v \in V
    PROVE  Flat(g, <<v>>) = g[v] /\ Flat(g, <<>>) = <<>>
  <1> DEFINE e == g[v]
             W1 == Seq(W)
  <1>1. e \in Seq(W) BY DEF Makes
  <1>2. DOMAIN <<v>> = 1..1 /\ <<v>>[1] = v OBVIOUS
  <1>3. Flat(g, <<v>>) = FlattenSeq([i \in 1..1 |-> e])
    <2>1. Each(g, <<v>>) = [i \in 1..1 |-> e] BY <1>2 DEF Each
    <2> QED BY <2>1 DEF Flat
  <1> HIDE DEF e
  <1>4. [i \in 1..1 |-> e] = Append(<<>>, e) OBVIOUS
  <1>5. <<>> \in Seq(Seq(W))
    <2> HIDE DEF W1
    <2>1. <<>> \in Seq(W1) OBVIOUS
    <2> QED BY <2>1 DEF W1
  <1>6. FlattenSeq(Append(<<>>, e)) = FlattenSeq(<<>>) \o e BY <1>1, <1>5, FlattenMore
  <1>7. FlattenSeq(<<>>) \o e = e BY <1>1, FlattenNone
  <1>8. Flat(g, <<>>) = <<>> BY FlatNone
  <1> QED BY <1>3, <1>4, <1>6, <1>7, <1>8 DEF e

\* A sequence up to its place i, and one more.
LEMMA OneFurther ==
    ASSUME NEW V, NEW s \in Seq(V), NEW i \in 1..Len(s)
    PROVE  /\ SubSeq(s, 1, i) = SubSeq(s, 1, i - 1) \o <<s[i]>>
           /\ SubSeq(s, 1, i - 1) \in Seq(V) /\ <<s[i]>> \in Seq(V) /\ s[i] \in V
           /\ SubSeq(s, 1, i) \in Seq(V)
  <1> DEFINE a == SubSeq(s, 1, i - 1)
             b == SubSeq(s, 1, i)
             k == i - 1
             v == s[i]
  <1>1. k \in Nat /\ k <= Len(s) /\ Len(s) \in Nat /\ i \in Nat /\ i = k + 1 /\ v \in V OBVIOUS
  <1>2. b \in Seq(V) /\ Len(b) = i /\ \A j \in 1..i : b[j] = s[j] BY <1>1
  <1>3. a \in Seq(V) /\ Len(a) = k /\ \A j \in 1..k : a[j] = s[j]
    <2> HIDE DEF k
    <2>1. SubSeq(s, 1, k) \in Seq(V) /\ Len(SubSeq(s, 1, k)) = k
          /\ \A j \in 1..k : SubSeq(s, 1, k)[j] = s[j]
      BY <1>1
    <2> QED BY <2>1 DEF k
  <1> HIDE DEF a, b, k, v
  <1>4. a \o <<v>> = Append(a, v) BY <1>1, <1>3
  <1>5. b = Append(a, v)
    <2> DEFINE c == Append(a, v)
    <2>1. c \in Seq(V) /\ Len(c) = i /\ (\A j \in 1..k : c[j] = a[j]) /\ c[i] = v BY <1>1, <1>3
    <2> HIDE DEF c
    <2>2. \A j \in 1..i : c[j] = b[j]
      <3>1. \A j \in 1..i : j \in 1..k \/ j = i BY <1>1
      <3> QED BY <1>1, <1>2, <1>3, <2>1, <3>1 DEF v
    <2>3. b = c BY <1>2, <2>1, <2>2
    <2> QED BY <2>3, Zenon DEF c
  <1> QED BY <1>1, <1>2, <1>3, <1>4, <1>5 DEF a, b, v, k

\* What f makes of what g made is what k makes.
LEMMA FlatFlat ==
    ASSUME NEW V, NEW W, NEW U, NEW g, Makes(g, V, Seq(W)), NEW f, Makes(f, W, Seq(U)), NEW k,
           Makes(k, V, Seq(U)),
           \A v \in V : Flat(f, g[v]) = k[v], NEW s \in Seq(V)
    PROVE  Flat(f, Flat(g, s)) = Flat(k, s)
  <1> DEFINE len == Len(s)
             t(i) == SubSeq(s, 1, i)
             good == {i \in Nat : Flat(f, Flat(g, t(i))) = Flat(k, t(i))}
  <1>1. len \in Nat /\ t(0) = <<>> /\ t(len) = s OBVIOUS
  <1>2. \A i \in 1..len : t(i) = t(i - 1) \o <<s[i]>> /\ t(i - 1) \in Seq(V) /\ <<s[i]>> \in Seq(V)
                          /\ s[i] \in V
    BY OneFurther
  <1>8. Rows(g, V, W) /\ Rows(f, W, U) /\ Rows(k, V, U) BY FlatBoth
  <1>9. \A y \in V : Flat(g, <<y>>) = g[y] /\ Flat(k, <<y>>) = k[y] BY FlatOne, ZenonT(60)
  <1>3. Flat(g, <<>>) = <<>> /\ Flat(f, <<>>) = <<>> /\ Flat(k, <<>>) = <<>> BY FlatNone
  <1> HIDE DEF t, len
  <1>4. ASSUME NEW j \in 1..len, j - 1 \in good PROVE j \in good
    <2> DEFINE a == t(j - 1)
               b == <<s[j]>>
               v == s[j]
    <2>4. Flat(f, Flat(g, a)) = Flat(k, a) BY <1>4
    <2>5. t(j) = a \o b /\ a \in Seq(V) /\ b \in Seq(V) /\ v \in V /\ b = <<v>> BY <1>2
    <2> HIDE DEF a, b, v
    <2>6. Flat(g, a) \in Seq(W) /\ Flat(g, b) \in Seq(W) /\ Flat(g, a \o b) = Flat(g, a) \o Flat(g, b)
      BY <1>8, <2>5 DEF Rows
    <2> DEFINE ga == Flat(g, a)
               gb == Flat(g, b)
    <2>7. ga \in Seq(W) /\ gb \in Seq(W) /\ gb = g[v] /\ Flat(g, t(j)) = ga \o gb
      <3>1. Flat(g, <<v>>) = g[v] BY <1>9, <2>5
      <3> QED BY <2>5, <2>6, <3>1
    <2> HIDE DEF ga, gb
    <2>8. Flat(f, ga \o gb) = Flat(f, ga) \o Flat(f, gb) BY <1>8, <2>7 DEF Rows
    <2>9. Flat(k, a \o b) = Flat(k, a) \o Flat(k, b) BY <1>8, <2>5 DEF Rows
    <2>10. Flat(k, b) = k[v] BY <1>9, <2>5
    <2>11. Flat(f, gb) = k[v] BY <2>5, <2>7
    <2>12. Flat(f, ga) = Flat(k, a) BY <2>4 DEF ga
    <2>13. Flat(f, Flat(g, t(j))) = Flat(k, t(j))
      BY <2>5, <2>7, <2>8, <2>9, <2>10, <2>11, <2>12, Zenon
    <2> QED BY <2>13
  <1>5. 0 \in good BY <1>1, <1>3
  <1>6. len \in good
    <2>1. len \in Nat BY <1>1
    <2> HIDE DEF good
    <2> QED BY <2>1, <1>4, <1>5, Climb
  <1> QED BY <1>1, <1>6

\* Nothing made of every element.
LEMMA FlatNothing ==
    ASSUME NEW V, NEW W, NEW g, Makes(g, V, Seq(W)), NEW s \in Seq(V), \A v \in V : g[v] = <<>>
    PROVE  Flat(g, s) = <<>>
  <1> DEFINE len == Len(s)
             t(i) == SubSeq(s, 1, i)
             good == {i \in Nat : Flat(g, t(i)) = <<>>}
  <1>1. len \in Nat /\ t(0) = <<>> /\ t(len) = s OBVIOUS
  <1>2. \A i \in 1..len : t(i) = t(i - 1) \o <<s[i]>> /\ t(i - 1) \in Seq(V) /\ <<s[i]>> \in Seq(V)
                          /\ s[i] \in V
    BY OneFurther
  <1>8. Rows(g, V, W) /\ \A y \in V : Flat(g, <<y>>) = g[y] BY FlatBoth, FlatOne
  <1>3. Flat(g, <<>>) = <<>> BY FlatNone
  <1> HIDE DEF t, len
  <1>4. ASSUME NEW j \in 1..len, j - 1 \in good PROVE j \in good
    <2> DEFINE a == t(j - 1)
               b == <<s[j]>>
               v == s[j]
    <2>4. Flat(g, a) = <<>> BY <1>4
    <2>5. t(j) = a \o b /\ a \in Seq(V) /\ b \in Seq(V) /\ v \in V /\ b = <<v>> BY <1>2
    <2> HIDE DEF a, b, v
    <2>6. Flat(g, a \o b) = Flat(g, a) \o Flat(g, b) BY <1>8, <2>5 DEF Rows
    <2>7. Flat(g, <<v>>) = g[v] BY <1>8, <2>5
    <2>8. Flat(g, b) = <<>> BY <2>5, <2>7
    <2>9. <<>> \o <<>> = <<>> OBVIOUS
    <2>10. Flat(g, t(j)) = <<>> BY <2>4, <2>5, <2>6, <2>8, <2>9, Zenon
    <2> QED BY <2>10
  <1>5. 0 \in good BY <1>1, <1>3
  <1>6. len \in good
    <2>1. len \in Nat /\ 0 \in Nat /\ 0 + 1 = 1 /\ len \in 0..len BY <1>1
    <2> HIDE DEF good
    <2> QED BY <2>1, <1>4, <1>5, Climb
  <1> QED BY <1>1, <1>6

-------------------------------------------------------------------------------
(* The texts of messages.                                                    *)

TextOf == [v \in Norm |-> v.text]
Pick(T) == [v \in Int |-> IF v \in T THEN <<v>> ELSE <<>>]
BuildOf == [v \in Norm |-> BuildMsg(v)]

\* The texts of one message after another.
LEMMA TextRows ==
    /\ Makes(TextOf, Norm, Seq(Int))
    /\ \A a \in Seq(Norm) : AllText(a) = Flat(TextOf, a) /\ AllText(a) \in Seq(Int)
    /\ \A a, b \in Seq(Norm) : AllText(a \o b) = AllText(a) \o AllText(b)
    /\ \A v \in Norm : AllText(<<v>>) = v.text
    /\ AllText(<<>>) = <<>>
  <1>1. Makes(TextOf, Norm, Seq(Int))
    <2>1. \A v \in Norm : v.text \in Seq(Int) BY DEF Norm
    <2> QED BY <2>1 DEF TextOf, Makes
  <1>2. ASSUME NEW a \in Seq(Norm) PROVE AllText(a) = Flat(TextOf, a)
    <2>1. \A i \in DOMAIN a : a[i] \in Norm /\ TextOf[a[i]] = a[i].text BY DEF TextOf
    <2>2. Each(TextOf, a) = [i \in DOMAIN a |-> a[i].text] BY <2>1 DEF Each
    <2> QED BY <2>2 DEF AllText, Flat
  <1>3. Rows(TextOf, Norm, Int) BY <1>1, FlatBoth
  <1>4. \A v \in Norm : Flat(TextOf, <<v>>) = TextOf[v] BY <1>1, FlatOne
  <1>5. \A a, b \in Seq(Norm) : a \o b \in Seq(Norm) OBVIOUS
  <1>6. \A v \in Norm : <<v>> \in Seq(Norm) /\ TextOf[v] = v.text BY DEF TextOf
  <1>7. <<>> \in Seq(Norm) /\ Flat(TextOf, <<>>) = <<>> BY FlatNone
  <1>8. \A a \in Seq(Norm) : AllText(a) \in Seq(Int) BY <1>2, <1>3 DEF Rows
  <1>9. \A a, b \in Seq(Norm) : AllText(a \o b) = AllText(a) \o AllText(b)
    <2> SUFFICES ASSUME NEW a \in Seq(Norm), NEW b \in Seq(Norm)
                 PROVE  AllText(a \o b) = AllText(a) \o AllText(b)
      OBVIOUS
    <2>1. Flat(TextOf, a \o b) = Flat(TextOf, a) \o Flat(TextOf, b) BY <1>3 DEF Rows
    <2>2. AllText(a \o b) = Flat(TextOf, a \o b) BY <1>2, <1>5
    <2>3. AllText(a) = Flat(TextOf, a) /\ AllText(b) = Flat(TextOf, b) BY <1>2
    <2> QED BY <2>1, <2>2, <2>3, Zenon
  <1>10. \A v \in Norm : AllText(<<v>>) = v.text BY <1>2, <1>4, <1>6
  <1>11. AllText(<<>>) = <<>> BY <1>2, <1>7
  <1> QED BY <1>1, <1>2, <1>8, <1>9, <1>10, <1>11, Zenon

\* Messages without a text.
LEMMA SilentText ==
    ASSUME NEW ms \in Seq(Norm), \A i \in DOMAIN ms : ms[i].text = <<>>
    PROVE  AllText(ms) = <<>>
  <1> DEFINE O == {v \in Norm : v.text = <<>>}
             g == [v \in O |-> <<>>]
  <1>1. ms \in Seq(O)
    <2>1. \A i \in 1..Len(ms) : ms[i] \in O OBVIOUS
    <2> HIDE DEF O
    <2> QED BY <2>1
  <1>2. Makes(g, O, Seq(Int)) /\ \A v \in O : g[v] = <<>>
    <2>1. <<>> \in Seq(Int) OBVIOUS
    <2> QED BY <2>1 DEF Makes
  <1>3. Each(g, ms) = [i \in DOMAIN ms |-> ms[i].text]
    <2>1. \A i \in DOMAIN ms : g[ms[i]] = ms[i].text BY <1>2
    <2> HIDE DEF g
    <2> QED BY <2>1 DEF Each
  <1> HIDE DEF g, O
  <1>4. Flat(g, ms) = <<>> BY <1>1, <1>2, FlatNothing
  <1> QED BY <1>3, <1>4 DEF AllText, Flat

\* What is in T, part by part.
LEMMA OnlyRows ==
    ASSUME NEW T
    PROVE  /\ \A a \in Seq(Int) : Only(a, T) \in Seq(Int)
           /\ \A a, b \in Seq(Int) : Only(a \o b, T) = Only(a, T) \o Only(b, T)
           /\ Only(<<>>, T) = <<>>
  <1> DEFINE p == Pick(T)
  <1>1. Makes(p, Int, Seq(Int))
    <2>1. \A v \in Int : (IF v \in T THEN <<v>> ELSE <<>>) \in Seq(Int) OBVIOUS
    <2> QED BY <2>1 DEF Pick, Makes
  <1>2. ASSUME NEW a \in Seq(Int) PROVE Only(a, T) = Flat(p, a)
    <2>1. \A i \in DOMAIN a : a[i] \in Int /\ p[a[i]] = IF a[i] \in T THEN <<a[i]>> ELSE <<>>
      BY DEF Pick
    <2> HIDE DEF p
    <2>2. Each(p, a) = [i \in DOMAIN a |-> IF a[i] \in T THEN <<a[i]>> ELSE <<>>] BY <2>1 DEF Each
    <2> QED BY <2>2 DEF Only, Flat
  <1> HIDE DEF p
  <1>3. Rows(p, Int, Int) BY <1>1, FlatBoth
  <1>4. \A a, b \in Seq(Int) : a \o b \in Seq(Int) OBVIOUS
  <1>5. <<>> \in Seq(Int) /\ Flat(p, <<>>) = <<>> BY FlatNone
  <1>6. \A a \in Seq(Int) : Only(a, T) \in Seq(Int) BY <1>2, <1>3 DEF Rows
  <1>7. \A a, b \in Seq(Int) : Only(a \o b, T) = Only(a, T) \o Only(b, T)
    <2> SUFFICES ASSUME NEW a \in Seq(Int), NEW b \in Seq(Int)
                 PROVE  Only(a \o b, T) = Only(a, T) \o Only(b, T)
      OBVIOUS
    <2>1. Flat(p, a \o b) = Flat(p, a) \o Flat(p, b) BY <1>3 DEF Rows
    <2>2. Only(a \o b, T) = Flat(p, a \o b) BY <1>2, <1>4
    <2>3. Only(a, T) = Flat(p, a) /\ Only(b, T) = Flat(p, b) BY <1>2
    <2> QED BY <2>1, <2>2, <2>3, Zenon
  <1>8. Only(<<>>, T) = <<>> BY <1>2, <1>5
  <1> QED BY <1>6, <1>7, <1>8, Zenon

\* All of it, or nothing of it, is in T.
LEMMA OnlyAll ==
    ASSUME NEW T \in SUBSET Int, NEW s \in Seq(T)
    PROVE  Only(s, T) = s
  <1> DEFINE len == Len(s)
  <1>1. len \in Nat /\ DOMAIN s = 1..len /\ s \in [1..len -> T] /\ \A i \in 1..len : s[i] \in T
    OBVIOUS
  <1> HIDE DEF len
  <1>2. [i \in DOMAIN s |-> IF s[i] \in T THEN <<s[i]>> ELSE <<>>] = [i \in 1..len |-> <<s[i]>>]
    BY <1>1
  <1>3. FlattenSeq([i \in 1..len |-> <<s[i]>>]) = s BY <1>1, FlattenSingles
  <1> QED BY <1>2, <1>3 DEF Only

\* A row of elements outside T has none of T.
LEMMA OnlyNone ==
    ASSUME NEW T, NEW O \in SUBSET Int, O \cap T = {}, NEW s \in Seq(O)
    PROVE  Only(s, T) = <<>>
  <1> DEFINE g == [v \in O |-> <<>>]
  <1>1. Makes(g, O, Seq(Int))
    <2>1. <<>> \in Seq(Int) OBVIOUS
    <2> QED BY <2>1 DEF Makes
  <1>2. \A v \in O : g[v] = <<>> OBVIOUS
  <1>3. Each(g, s) = [i \in DOMAIN s |-> IF s[i] \in T THEN <<s[i]>> ELSE <<>>]
    <2>1. \A i \in DOMAIN s : s[i] \in O /\ s[i] \notin T /\ g[s[i]] = <<>> OBVIOUS
    <2> HIDE DEF g
    <2> QED BY <2>1 DEF Each
  <1> HIDE DEF g
  <1>4. Flat(g, s) = <<>> BY <1>1, <1>2, FlatNothing
  <1> QED BY <1>3, <1>4 DEF Only, Flat

\* The builders keep the text of a message, whatever they make of it.
LEMMA BuildsText ==
    ASSUME upstream \in Upstreamed, NEW m \in Norm
    PROVE  AllText(BuildMsg(m)) = m.text
  <1>1. m.text \in Seq(Int) /\ m.calls \in Seq(Nat) /\ DOMAIN m.calls = 1..Len(m.calls)
        /\ Len(m.calls) \in Nat
    BY DEF Norm
  <1>2. <<>> \in Seq({"good", "bad"}) /\ <<>> \in Seq(Nat) /\ <<>> \in Seq(Int) OBVIOUS
  <1>3. CASE upstream \in {"openai", "commandcode"}
             \/ (upstream = "responses" /\ m.role # "assistant")
    <2>1. BuildMsg(m) = <<m>>
      BY <1>3 DEF BuildMsg, BuildOpenAI, BuildCommandCode, BuildResponses
    <2> QED BY <2>1, TextRows
  <1>4. CASE upstream = "anthropic"
    <2> DEFINE b == [m EXCEPT !.images = <<>>, !.role = IF @ = "assistant" THEN @ ELSE "user"]
    <2>1. BuildMsg(m) = <<b>> BY <1>4 DEF BuildMsg, BuildAnthropic
    <2>2. b \in Norm /\ b.text = m.text BY <1>2 DEF Norm, Roles
    <2> HIDE DEF b
    <2> QED BY <2>1, <2>2, TextRows
  <1>5. CASE upstream = "ollama"
    <2> DEFINE b == [m EXCEPT !.images = <<>>, !.answer = 0]
    <2>1. BuildMsg(m) = <<b>> BY <1>5 DEF BuildMsg, BuildOllama
    <2>2. b \in Norm /\ b.text = m.text BY <1>2 DEF Norm
    <2> HIDE DEF b
    <2> QED BY <2>1, <2>2, TextRows
  <1>6. CASE upstream = "responses" /\ m.role = "assistant"
    <2> DEFINE y == [m EXCEPT !.calls = <<>>, !.images = <<>>]
               f(i) == Msg("call", <<>>, <<m.calls[i]>>, 0, <<>>)
               a == IF m.text # <<>> THEN <<y>> ELSE <<>>
               b == [i \in DOMAIN m.calls |-> f(i)]
    <2>1. BuildMsg(m) = a \o b BY <1>6 DEF BuildMsg, BuildResponses
    <2>2. y \in Norm /\ y.text = m.text BY <1>2 DEF Norm
    <2>3. \A i \in DOMAIN m.calls : f(i) \in Norm /\ f(i).text = <<>>
      <3>1. \A i \in DOMAIN m.calls : <<m.calls[i]>> \in Seq(Nat) BY <1>1
      <3> QED BY <1>2, <3>1 DEF Msg, Norm, Roles
    <2> HIDE DEF y, f
    <2>4. a \in Seq(Norm) /\ b \in Seq(Norm) /\ \A i \in DOMAIN b : b[i].text = <<>>
      BY <1>1, <2>2, <2>3
    <2>5. AllText(a) = m.text BY <2>2, TextRows
    <2> HIDE DEF a, b
    <2>6. AllText(b) = <<>> BY <2>4, SilentText
    <2>7. AllText(a \o b) = AllText(a) \o AllText(b) BY <2>4, TextRows
    <2>8. m.text \o <<>> = m.text BY <1>1
    <2> QED BY <2>1, <2>5, <2>6, <2>7, <2>8, Zenon
  <1> QED BY <1>3, <1>4, <1>5, <1>6 DEF Upstreamed

\* A conversation that a builder made has the text of the one it was made of.
LEMMA BuiltText ==
    ASSUME upstream \in Upstreamed, NEW ms \in Seq(Norm)
    PROVE  Built(ms) \in Seq(Norm) /\ AllText(Built(ms)) = AllText(ms)
  <1>1. Built(ms) \in Seq(Norm) BY BuiltBoth
  <1>2. Makes(BuildOf, Norm, Seq(Norm))
    <2>1. \A v \in Norm : BuildMsg(v) \in Seq(Norm) BY BuildsOne
    <2> QED BY <2>1 DEF BuildOf, Makes
  <1>3. Built(ms) = Flat(BuildOf, ms)
    <2>1. \A i \in DOMAIN ms : BuildOf[ms[i]] = BuildMsg(ms[i]) BY DEF BuildOf
    <2>2. Each(BuildOf, ms) = [i \in DOMAIN ms |-> BuildMsg(ms[i])] BY <2>1 DEF Each
    <2> QED BY <2>2 DEF Built, Flat
  <1>4. \A v \in Norm : Flat(TextOf, BuildOf[v]) = TextOf[v]
    <2> SUFFICES ASSUME NEW v \in Norm PROVE Flat(TextOf, BuildOf[v]) = TextOf[v] OBVIOUS
    <2>1. BuildOf[v] = BuildMsg(v) /\ TextOf[v] = v.text BY DEF BuildOf, TextOf
    <2>2. BuildMsg(v) \in Seq(Norm) BY BuildsOne
    <2>3. AllText(BuildMsg(v)) = v.text BY BuildsText
    <2>4. AllText(BuildMsg(v)) = Flat(TextOf, BuildMsg(v)) BY <2>2, TextRows
    <2> QED BY <2>1, <2>3, <2>4
  <1>5. Flat(TextOf, Flat(BuildOf, ms)) = Flat(TextOf, ms) BY <1>2, <1>4, TextRows, FlatFlat
  <1>6. AllText(Built(ms)) = Flat(TextOf, Built(ms)) /\ AllText(ms) = Flat(TextOf, ms)
    BY <1>1, TextRows
  <1> QED BY <1>1, <1>3, <1>5, <1>6

-------------------------------------------------------------------------------
(* Two kinds of texts in one row.                                            *)

\* Numbers of a smaller set are of the greater.
LEMMA SeqWider == ASSUME NEW B, NEW A \in SUBSET B, NEW u \in Seq(A) PROVE u \in Seq(B)
  <1>1. Len(u) \in Nat /\ DOMAIN u = 1..Len(u) /\ u = [i \in 1..Len(u) |-> u[i]]
        /\ \A i \in 1..Len(u) : u[i] \in A
    OBVIOUS
  <1>2. \A i \in 1..Len(u) : u[i] \in B BY <1>1
  <1> QED BY <1>1, <1>2

\* What is in T of two rows, one after the other.
LEMMA OnlyBoth ==
    ASSUME NEW T, NEW a \in Seq(Int), NEW b \in Seq(Int)
    PROVE  /\ a \o b \in Seq(Int) /\ Only(a \o b, T) = Only(a, T) \o Only(b, T)
           /\ Only(a, T) \in Seq(Int) /\ Only(b, T) \in Seq(Int)
  <1>1. a \o b \in Seq(Int) OBVIOUS
  <1>2. Only(a \o b, T) = Only(a, T) \o Only(b, T) BY OnlyRows, Zenon
  <1>3. Only(a, T) \in Seq(Int) /\ Only(b, T) \in Seq(Int) BY OnlyRows, Zenon
  <1> QED BY <1>1, <1>2, <1>3, Zenon

\* The elements of s in A are a, in their order, those in B are b, and there are no others.
Holds(s, a, b, A, B) == /\ s \in Seq(Int) /\ Only(s, A) = a /\ Only(s, B) = b
                        /\ Len(s) = Len(a) + Len(b)

\* Of the two kinds either may be named first.
LEMMA HoldsSame ==
    ASSUME NEW A, NEW B, NEW s, NEW a, NEW b, Holds(s, a, b, A, B)
    PROVE  Holds(s, b, a, B, A) /\ s \in Seq(Int) /\ a \in Seq(Int) /\ b \in Seq(Int)
  <1>1. s \in Seq(Int) /\ Only(s, A) = a /\ Only(s, B) = b /\ Len(s) = Len(a) + Len(b)
    BY DEF Holds
  <1>2. a \in Seq(Int) /\ b \in Seq(Int) BY <1>1, OnlyRows
  <1>3. Len(a) \in Nat /\ Len(b) \in Nat BY <1>2
  <1> QED BY <1>1, <1>2, <1>3 DEF Holds

\* No text in the row, none of either kind.
LEMMA HoldsNone == \A A, B : Holds(<<>>, <<>>, <<>>, A, B)
  <1>1. \A A : Only(<<>>, A) = <<>> BY OnlyRows
  <1>2. <<>> \in Seq(Int) /\ Len(<<>>) = 0 OBVIOUS
  <1> QED BY <1>1, <1>2 DEF Holds

\* Elements of A put where none of A come behind.
LEMMA HoldsMore ==
    ASSUME NEW A \in SUBSET Int, NEW B \in SUBSET Int, A \cap B = {}, NEW l \in Seq(Int),
           NEW z \in Seq(Int), NEW u \in Seq(A), Only(z, A) = <<>>,
           NEW a, NEW b, Holds(l \o z, a, b, A, B)
    PROVE  Holds((l \o u) \o z, a \o u, b, A, B)
  <1>1. u \in Seq(Int) /\ l \o u \in Seq(Int) /\ (l \o u) \o z \in Seq(Int)
    <2>1. u \in Seq(Int) BY SeqWider
    <2>2. l \o u \in Seq(Int) BY <2>1
    <2> QED BY <2>1, <2>2
  <1>2. Only(l \o z, A) = a /\ Only(l \o z, B) = b /\ Len(l \o z) = Len(a) + Len(b) BY DEF Holds
  <1>3. a \in Seq(Int) /\ b \in Seq(Int) BY HoldsSame
  <1>4. Only(u, A) = u BY OnlyAll
  <1>5. Only(u, B) = <<>>
    <2>1. B \cap A = {} OBVIOUS
    <2> QED BY <2>1, OnlyNone
  <1>6. Only((l \o u) \o z, A) = a \o u
    <2> DEFINE e == Only(l, A)
               lu == l \o u
    <2>1. Only(lu, A) = e \o u /\ e \in Seq(Int)
      <3>1. Only(lu, A) = e \o Only(u, A) /\ e \in Seq(Int) BY <1>1, OnlyBoth, Zenon
      <3> QED BY <1>4, <3>1, Zenon
    <2>2. lu \in Seq(Int) BY <1>1
    <2> HIDE DEF lu, e
    <2>3. Only(lu \o z, A) = Only(lu, A) \o Only(z, A) BY <2>2, OnlyBoth
    <2>4. Only(l \o z, A) = Only(l, A) \o Only(z, A) BY OnlyBoth
    <2>5. a = e \o <<>> /\ Only(lu \o z, A) = (e \o u) \o <<>> BY <1>2, <2>1, <2>3, <2>4, Zenon DEF e
    <2>6. e \o <<>> = e /\ e \o u \in Seq(Int) BY <1>1, <2>1
    <2>7. (e \o u) \o <<>> = e \o u BY <2>6
    <2> QED BY <2>5, <2>6, <2>7, Zenon DEF lu
  <1>7. Only((l \o u) \o z, B) = b
    <2> DEFINE e == Only(l, B)
               lu == l \o u
    <2>1. Only(lu, B) = e \o <<>> /\ e \in Seq(Int)
      <3>1. Only(lu, B) = e \o Only(u, B) /\ e \in Seq(Int) BY <1>1, OnlyBoth, Zenon
      <3> QED BY <1>5, <3>1, Zenon
    <2>2. lu \in Seq(Int) BY <1>1
    <2> HIDE DEF lu, e
    <2>3. Only(lu \o z, B) = Only(lu, B) \o Only(z, B) BY <2>2, OnlyBoth
    <2>4. Only(l \o z, B) = Only(l, B) \o Only(z, B) BY OnlyBoth
    <2>5. e \o <<>> = e BY <2>1
    <2> QED BY <1>2, <2>1, <2>3, <2>4, <2>5, Zenon DEF e, lu
  <1>8. Len((l \o u) \o z) = Len(a \o u) + Len(b)
    <2> DEFINE lu == l \o u
    <2>1. Len(lu) = Len(l) + Len(u) /\ lu \in Seq(Int) BY <1>1, Longer
    <2> HIDE DEF lu
    <2>2. Len(lu \o z) = Len(lu) + Len(z) BY <2>1, Longer
    <2>3. Len(l \o z) = Len(l) + Len(z) BY Longer
    <2>4. Len(a \o u) = Len(a) + Len(u) BY <1>1, <1>3, Longer
    <2>5. Len(l) \in Nat /\ Len(u) \in Nat /\ Len(z) \in Nat /\ Len(a) \in Nat /\ Len(b) \in Nat
      BY <1>1, <1>3
    <2> DEFINE k1 == Len(l)
               k2 == Len(u)
               k3 == Len(z)
               k4 == Len(a)
               k5 == Len(b)
    <2>6. Len(lu \o z) = (k1 + k2) + k3 /\ k1 + k3 = k4 + k5 /\ Len(a \o u) = k4 + k2
      BY <1>2, <2>1, <2>2, <2>3, <2>4, Zenon
    <2> HIDE DEF k1, k2, k3, k4, k5
    <2>7. (k1 + k2) + k3 = (k4 + k2) + k5 BY <2>5, <2>6, SMTT(60) DEF k1, k2, k3, k4, k5
    <2> QED BY <2>6, <2>7, Zenon DEF lu, k5
  <1> QED BY <1>1, <1>6, <1>7, <1>8 DEF Holds

\* The elements in a set are those that are among them.
LEMMA OnlyRange ==
    ASSUME NEW T, NEW s \in Seq(Int)
    PROVE  Only(s, Range(Only(s, T))) = Only(s, T)
  <1> DEFINE len == Len(s)
             u == Only(s, T)
  <1>1. len \in Nat /\ DOMAIN s = 1..len /\ \A i \in 1..len : s[i] \in Int OBVIOUS
  <1>2. u \in Seq(Int) BY OnlyRows
  <1>3. ASSUME NEW v \in Range(u) PROVE v \in T
    <2> DEFINE p == [k \in Int |-> IF k \in T THEN <<k>> ELSE <<>>]
    <2>1. Makes(p, Int, Seq(T))
      <3>1. \A k \in Int : (IF k \in T THEN <<k>> ELSE <<>>) \in Seq(T) OBVIOUS
      <3> QED BY <3>1 DEF Makes
    <2>2. Rows(p, Int, T) BY <2>1, FlatBoth
    <2>3. u = Flat(p, s)
      <3>1. \A i \in DOMAIN s : p[s[i]] = IF s[i] \in T THEN <<s[i]>> ELSE <<>> BY <1>1
      <3> HIDE DEF p
      <3>2. Each(p, s) = [i \in DOMAIN s |-> IF s[i] \in T THEN <<s[i]>> ELSE <<>>] BY <3>1 DEF Each
      <3> QED BY <3>2 DEF Only, Flat
    <2> HIDE DEF p, u
    <2>4. u \in Seq(T) BY <2>2, <2>3 DEF Rows
    <2>5. PICK i \in DOMAIN u : v = u[i] BY DEF Range
    <2> QED BY <2>4, <2>5
  <1>4. ASSUME NEW i \in 1..len, s[i] \in T PROVE s[i] \in Range(u)
    <2> DEFINE a == SubSeq(s, 1, i - 1)
               b == SubSeq(s, i + 1, len)
               v == s[i]
               c == SubSeq(s, 1, i)
    <2>1. c = a \o <<v>> /\ a \in Seq(Int) /\ <<v>> \in Seq(Int) /\ c \in Seq(Int) /\ v \in Int
      BY OneFurther
    <2>2. b \in Seq(Int) /\ s = c \o b
      <3>1. b \in Seq(Int) /\ Len(b) = len - i /\ \A j \in 1..(len - i) : b[j] = s[i + j]
        <4> DEFINE k == i + 1
        <4>1. k \in Nat /\ k >= 1 /\ k <= len + 1 /\ i = k - 1 /\ i \in Nat BY <1>1
        <4> HIDE DEF k, len
        <4>2. \A j \in k..len : s[j] \in Int BY <1>1, <4>1
        <4>3. SubSeq(s, k, len) = [j \in 1..(len - k + 1) |-> s[j + k - 1]]
          BY <1>1, <4>1
        <4>4. \A j \in 1..(len - k + 1) : j + k - 1 \in k..len /\ j + k - 1 = i + j
          BY <1>1, <4>1
        <4>5. len - k + 1 \in Nat /\ len - k + 1 = len - i BY <1>1, <4>1
        <4> DEFINE d == SubSeq(s, k, len)
        <4> HIDE DEF d
        <4>6. d = [j \in 1..(len - i) |-> s[i + j]] /\ len - i \in Nat
              /\ \A j \in 1..(len - i) : s[i + j] \in Int
          BY <4>2, <4>3, <4>4, <4>5 DEF d
        <4>7. d \in Seq(Int) /\ Len(d) = len - i /\ \A j \in 1..(len - i) : d[j] = s[i + j] BY <4>6
        <4> QED BY <4>7 DEF d, k
      <3>2. Len(c) = i /\ \A j \in 1..i : c[j] = s[j] BY <1>1
      <3> HIDE DEF b, c
      <3>3. c \o b \in Seq(Int) /\ Len(c \o b) = len
        <4>1. c \o b \in Seq(Int) /\ Len(c \o b) = Len(c) + Len(b) BY <2>1, <3>1, Longer
        <4> QED BY <1>1, <3>1, <3>2, <4>1
      <3>4. ASSUME NEW j \in 1..len PROVE (c \o b)[j] = s[j]
        <4>1. CASE j <= i
          <5>1. j \in 1..i /\ j \in 1..Len(c) BY <1>1, <3>2, <4>1
          <5>2. (c \o b)[j] = c[j] BY <2>1, <3>1, <5>1, Longer
          <5> QED BY <3>2, <5>1, <5>2
        <4>2. CASE j > i
          <5> DEFINE k == j - i
          <5>1. k \in 1..Len(b) /\ k \in 1..(len - i) /\ j = Len(c) + k /\ i + k = j
            BY <1>1, <3>1, <3>2, <4>2
          <5> HIDE DEF k
          <5>2. (c \o b)[Len(c) + k] = b[k] BY <2>1, <3>1, <5>1
          <5> QED BY <3>1, <5>1, <5>2
        <4>3. j <= i \/ j > i BY <1>1
        <4> QED BY <4>1, <4>2, <4>3
      <3> DEFINE d == c \o b
      <3>5. d \in Seq(Int) /\ Len(d) = len /\ \A j \in 1..len : d[j] = s[j] BY <3>3, <3>4
      <3> HIDE DEF d
      <3>6. d = s BY <1>1, <3>5
      <3> QED BY <3>1, <3>6 DEF d
    <2>3. Only(<<v>>, T) = <<v>>
      <3>1. DOMAIN <<v>> = 1..1 /\ <<v>>[1] = v OBVIOUS
      <3> DEFINE one == [k \in 1..1 |-> v]
      <3>2. one \in [1..1 -> Int] /\ \A k \in 1..1 : one[k] = v BY <2>1
      <3>3. FlattenSeq([k \in 1..1 |-> <<one[k]>>]) = one BY <3>2, FlattenSingles
      <3>4. one = <<v>> OBVIOUS
      <3>5. [k \in DOMAIN <<v>> |-> IF <<v>>[k] \in T THEN <<<<v>>[k]>> ELSE <<>>]
              = [k \in 1..1 |-> <<one[k]>>]
        BY <1>4, <3>1
      <3> HIDE DEF one
      <3> QED BY <3>3, <3>4, <3>5 DEF Only
    <2> DEFINE x1 == Only(a, T)
               x2 == Only(b, T)
    <2>4. u = (x1 \o <<v>>) \o x2 /\ x1 \in Seq(Int) /\ x2 \in Seq(Int)
      <3> HIDE DEF a, b, c
      <3>1. Only(c \o b, T) = Only(c, T) \o Only(b, T) BY <2>1, <2>2, OnlyRows
      <3>2. Only(a \o <<v>>, T) = Only(a, T) \o Only(<<v>>, T) BY <2>1, OnlyRows
      <3>3. Only(a, T) \in Seq(Int) /\ Only(b, T) \in Seq(Int) BY <2>1, <2>2, OnlyRows
      <3> QED BY <2>1, <2>2, <2>3, <3>1, <3>2, <3>3
    <2> HIDE DEF x1, x2, v, u
    <2>5. v \in Int BY <2>1
    <2> DEFINE y == x1 \o <<v>>
    <2>6. y \in Seq(Int) /\ Len(y) = Len(x1) + 1 /\ y[Len(x1) + 1] = v /\ Len(x1) \in Nat
      BY <2>4, <2>5
    <2> HIDE DEF y
    <2>7. u = y \o x2 BY <2>4 DEF y
    <2>8. Len(x1) + 1 \in DOMAIN u /\ u[Len(x1) + 1] = v
      <3>1. Len(x1) + 1 \in 1..Len(y) BY <2>6
      <3>2. Len(u) = Len(y) + Len(x2) /\ Len(x2) \in Nat /\ Len(y) \in Nat
        BY <2>4, <2>6, <2>7, Longer
      <3>3. u[Len(x1) + 1] = y[Len(x1) + 1] BY <2>4, <2>6, <2>7, <3>1, Longer
      <3>4. DOMAIN u = 1..Len(u) BY <1>2 DEF u
      <3> QED BY <2>6, <3>1, <3>2, <3>3, <3>4
    <2> QED BY <2>8 DEF Range, v
  <1> HIDE DEF u
  <1>5. [i \in DOMAIN s |-> IF s[i] \in Range(u) THEN <<s[i]>> ELSE <<>>]
          = [i \in DOMAIN s |-> IF s[i] \in T THEN <<s[i]>> ELSE <<>>]
    <2>1. \A i \in DOMAIN s : s[i] \in Range(u) <=> s[i] \in T BY <1>1, <1>3, <1>4
    <2> QED BY <2>1
  <1>6. Only(s, Range(u)) = Only(s, T) BY <1>5 DEF Only
  <1> QED BY <1>6 DEF u

-------------------------------------------------------------------------------
(* What a message adds to what was said.                                     *)

\* The texts of results are negative, what a message says of itself is not.
Low == {k \in Int : k <= 0}
Res(m) == FlattenSeq([j \in DOMAIN m.answers |-> ResultText(m.answers[j])])
What(m, system) == IF (m.role = "system") # system THEN <<>> ELSE Res(m) \o Words(m.text)
WhatOf(system) == [m \in Said |-> What(m, system)]

\* The results of a message, as the parser has them.
LEMMA ResSays ==
    ASSUME NEW m \in Said
    PROVE  /\ Res(m) \in Seq(Low) /\ Res(m) \in Seq(Int) /\ AllText(Results(m)) = Res(m)
           /\ m.answers = <<>> => Res(m) = <<>>
  <1> DEFINE g == [c \in Nat |-> <<-c>>]
  <1>1. m.answers \in Seq(Nat) /\ Len(m.answers) \in Nat /\ DOMAIN m.answers = 1..Len(m.answers)
        /\ \A j \in 1..Len(m.answers) : m.answers[j] \in Nat
    BY DEF Said
  <1>2. Makes(g, Nat, Seq(Low))
    <2>1. \A c \in Nat : -c \in Low BY DEF Low
    <2>2. \A c \in Nat : <<-c>> \in Seq(Low) BY <2>1
    <2> QED BY <2>2 DEF Makes
  <1>3. Res(m) = Flat(g, m.answers)
    <2>1. \A j \in DOMAIN m.answers : g[m.answers[j]] = ResultText(m.answers[j])
      BY <1>1 DEF ResultText
    <2> HIDE DEF g
    <2>2. Each(g, m.answers) = [j \in DOMAIN m.answers |-> ResultText(m.answers[j])]
      BY <2>1 DEF Each
    <2> QED BY <2>2 DEF Res, Flat
  <1> HIDE DEF g
  <1>4. Rows(g, Nat, Low) BY <1>2, FlatBoth
  <1>5. Res(m) \in Seq(Low) BY <1>1, <1>3, <1>4 DEF Rows
  <1>6. Res(m) \in Seq(Int)
    <2>1. Low \in SUBSET Int BY DEF Low
    <2> QED BY <1>5, <2>1, SeqWider
  <1>7. AllText(Results(m)) = Res(m)
    <2>1. DOMAIN Results(m) = DOMAIN m.answers
          /\ \A j \in DOMAIN m.answers : Results(m)[j].text = ResultText(m.answers[j])
      BY DEF Results, Msg
    <2>2. [j \in DOMAIN Results(m) |-> Results(m)[j].text]
            = [j \in DOMAIN m.answers |-> ResultText(m.answers[j])]
      BY <2>1
    <2> QED BY <2>2 DEF AllText, Res
  <1>8. ASSUME m.answers = <<>> PROVE Res(m) = <<>>
    <2>1. Flat(g, <<>>) = <<>> BY FlatNone
    <2> QED BY <1>3, <1>8, <2>1
  <1> QED BY <1>5, <1>6, <1>7, <1>8

\* A conversation's words, message by message.
LEMMA WhatRows ==
    ASSUME NEW system \in BOOLEAN
    PROVE  /\ \A a \in Seq(Said) : Uttered(a, system) \in Seq(Int)
           /\ \A a, b \in Seq(Said) : Uttered(a \o b, system) = Uttered(a, system) \o Uttered(b, system)
           /\ \A m \in Said : Uttered(<<m>>, system) = What(m, system) /\ What(m, system) \in Seq(Int)
           /\ Uttered(<<>>, system) = <<>>
  <1> DEFINE g == WhatOf(system)
  <1>1. \A m \in Said : What(m, system) \in Seq(Int)
    <2> SUFFICES ASSUME NEW m \in Said PROVE What(m, system) \in Seq(Int) OBVIOUS
    <2>1. Res(m) \in Seq(Int) /\ Words(m.text) \in Seq(Int) BY ResSays, WordsType DEF Said
    <2>2. Res(m) \o Words(m.text) \in Seq(Int) /\ <<>> \in Seq(Int) BY <2>1
    <2> QED BY <2>2 DEF What
  <1>2. Makes(g, Said, Seq(Int)) BY <1>1 DEF WhatOf, Makes
  <1>3. ASSUME NEW a \in Seq(Said) PROVE Uttered(a, system) = Flat(g, a)
    <2>1. \A i \in DOMAIN a : a[i] \in Said /\ g[a[i]] = What(a[i], system) BY DEF WhatOf
    <2> HIDE DEF g
    <2>2. Each(g, a) = [i \in DOMAIN a |-> What(a[i], system)] BY <2>1 DEF Each
    <2> QED BY <2>2 DEF Uttered, Flat, What, Res
  <1>4. \A m \in Said : g[m] = What(m, system) BY DEF WhatOf
  <1> HIDE DEF g
  <1>5. Rows(g, Said, Int) /\ \A m \in Said : Flat(g, <<m>>) = g[m] BY <1>2, FlatBoth, FlatOne
  <1>6. \A a, b \in Seq(Said) : a \o b \in Seq(Said) OBVIOUS
  <1>7. \A m \in Said : <<m>> \in Seq(Said) OBVIOUS
  <1>8. <<>> \in Seq(Said) /\ Flat(g, <<>>) = <<>> BY FlatNone
  <1>9. \A a \in Seq(Said) : Uttered(a, system) \in Seq(Int) BY <1>3, <1>5 DEF Rows
  <1>10. \A a, b \in Seq(Said) : Uttered(a \o b, system) = Uttered(a, system) \o Uttered(b, system)
    <2> SUFFICES ASSUME NEW a \in Seq(Said), NEW b \in Seq(Said)
                 PROVE  Uttered(a \o b, system) = Uttered(a, system) \o Uttered(b, system)
      OBVIOUS
    <2>1. Flat(g, a \o b) = Flat(g, a) \o Flat(g, b) BY <1>5 DEF Rows
    <2>2. Uttered(a \o b, system) = Flat(g, a \o b) BY <1>3, <1>6
    <2>3. Uttered(a, system) = Flat(g, a) /\ Uttered(b, system) = Flat(g, b) BY <1>3
    <2> QED BY <2>1, <2>2, <2>3, Zenon
  <1>11. \A m \in Said : Uttered(<<m>>, system) = What(m, system) BY <1>3, <1>4, <1>5, <1>7
  <1>12. Uttered(<<>>, system) = <<>> BY <1>3, <1>8
  <1> QED BY <1>1, <1>9, <1>10, <1>11, <1>12, Zenon

\* What a client that is not Anthropic's says in a turn becomes messages with just these texts.
LEMMA OthersSay ==
    ASSUME client \in Dialects, client # "anthropic", NEW r \in Form, NEW m \in Said, Proper(m),
           m.role # "system", m.role = "tool" => m.text = 0
    PROVE  \E t \in Seq(Norm) : Take(r, m) = Add(r, t) /\ AllText(t) = What(m, FALSE)
  <1>1. m.text \in Nat /\ m.calls \in Seq(Nat) /\ m.role \in {"user", "assistant", "tool"}
        /\ DOMAIN m.calls = 1..Len(m.calls) /\ Len(m.calls) \in Nat
        /\ DOMAIN m.answers = 1..Len(m.answers) /\ Len(m.answers) \in Nat
    <2>1. m.answers \in Seq(Nat) /\ m.calls \in Seq(Nat) BY DEF Said
    <2> QED BY <2>1 DEF Said
  <1>2. Words(m.text) \in Seq(Int) /\ Res(m) \in Seq(Int) /\ Results(m) \in Seq(Norm)
        /\ AllText(Results(m)) = Res(m) /\ Pictures(m) \in Seq({"good", "bad"})
    BY <1>1, WordsType, ResSays, ResultsType, PicturesType
  <1>3. What(m, FALSE) = Res(m) \o Words(m.text) BY DEF What
  <1>4. ASSUME m.role = "tool" PROVE What(m, FALSE) = Res(m)
    <2>1. Words(m.text) = <<>> BY <1>4 DEF Words
    <2>2. \A s \in Seq(Int) : s \o <<>> = s OBVIOUS
    <2> QED BY <1>2, <1>3, <2>1, <2>2, Zenon
  <1>5. ASSUME m.role # "tool" PROVE What(m, FALSE) = Words(m.text)
    <2>1. Res(m) = <<>> BY <1>5, ResSays DEF Proper
    <2>2. \A s \in Seq(Int) : <<>> \o s = s OBVIOUS
    <2> QED BY <1>2, <1>3, <2>1, <2>2, Zenon
  <1>6. CASE m.role = "tool" /\ client # "ollama"
    <2>1. Take(r, m) = Add(r, Results(m))
      BY <1>6 DEF Take, TakeOpenAI, TakeResponses, Dialects
    <2> QED BY <1>2, <1>4, <1>6, <2>1
  <1>7. CASE m.role = "tool" /\ client = "ollama"
    <2> DEFINE t == [i \in DOMAIN m.answers |-> [Results(m)[i] EXCEPT !.answer = 0]]
    <2>1. Take(r, m) = Add(r, t) BY <1>7 DEF Take, TakeOllama
    <2>2. \A i \in DOMAIN m.answers : /\ [Results(m)[i] EXCEPT !.answer = 0] \in Norm
                                      /\ [Results(m)[i] EXCEPT !.answer = 0].text = Results(m)[i].text
      <3>1. \A i \in DOMAIN m.answers : Results(m)[i] \in Norm BY <1>1, ResultsType
      <3> QED BY <3>1 DEF Norm
    <2>3. t \in Seq(Norm) BY <1>1, <2>2
    <2>4. [i \in DOMAIN t |-> t[i].text] = [i \in DOMAIN Results(m) |-> Results(m)[i].text]
      <3>1. DOMAIN Results(m) = DOMAIN m.answers BY DEF Results
      <3>2. DOMAIN t = DOMAIN m.answers /\ \A i \in DOMAIN t : t[i].text = Results(m)[i].text
        BY <2>2
      <3> HIDE DEF t
      <3> QED BY <3>1, <3>2
    <2> HIDE DEF t
    <2>5. AllText(t) = AllText(Results(m)) BY <2>4 DEF AllText
    <2> QED BY <1>2, <1>4, <1>7, <2>1, <2>3, <2>5
  <1>8. CASE m.role # "tool" /\ client # "responses"
    <2> DEFINE piece == Msg(m.role, Words(m.text), m.calls, 0,
                            IF client = "openai" THEN Pictures(m) ELSE <<>>)
    <2>1. Take(r, m) = Add(r, <<piece>>)
      <3>1. CASE client = "openai" BY <1>8, <3>1 DEF Take, TakeOpenAI
      <3>2. CASE client = "ollama" BY <1>8, <3>2 DEF Take, TakeOllama
      <3> QED BY <1>8, <3>1, <3>2 DEF Dialects
    <2>2. piece \in Norm /\ piece.text = Words(m.text)
      <3>1. (IF client = "openai" THEN Pictures(m) ELSE <<>>) \in Seq({"good", "bad"})
        <4>1. <<>> \in Seq({"good", "bad"}) OBVIOUS
        <4> QED BY <1>2, <4>1
      <3>2. m.role \in Roles /\ 0 \in Nat BY <1>1 DEF Roles
      <3> QED BY <1>1, <1>2, <3>1, <3>2 DEF Msg, Norm
    <2> HIDE DEF piece
    <2>3. <<piece>> \in Seq(Norm) /\ AllText(<<piece>>) = Words(m.text) BY <2>2, TextRows
    <2> QED BY <1>5, <1>8, <2>1, <2>3
  <1>9. CASE m.role # "tool" /\ client = "responses"
    <2> DEFINE f(i) == Msg("assistant", <<>>, <<m.calls[i]>>, 0, <<>>)
               piece == Msg(m.role, Words(m.text), <<>>, 0, <<>>)
               a == IF m.text # 0 THEN <<piece>> ELSE <<>>
               b == [i \in DOMAIN m.calls |-> f(i)]
    <2>1. Take(r, m) = Add(r, a \o b) BY <1>9 DEF Take, TakeResponses
    <2>2. piece \in Norm /\ piece.text = Words(m.text) BY <1>1, <1>2, <1>9 DEF Msg, Norm, Roles
    <2>3. \A i \in DOMAIN m.calls : f(i) \in Norm /\ f(i).text = <<>>
      <3>1. \A i \in DOMAIN m.calls : <<m.calls[i]>> \in Seq(Nat) BY <1>1
      <3> QED BY <3>1 DEF Msg, Norm, Roles
    <2>4. m.text = 0 => Words(m.text) = <<>> BY DEF Words
    <2> HIDE DEF piece, f
    <2>5. a \in Seq(Norm) /\ b \in Seq(Norm) /\ \A i \in DOMAIN b : b[i].text = <<>>
      BY <1>1, <2>2, <2>3
    <2>6. AllText(a) = Words(m.text)
      <3>1. CASE m.text # 0
        <4>1. AllText(<<piece>>) = piece.text BY <2>2, TextRows
        <4> QED BY <2>2, <3>1, <4>1
      <3>2. CASE m.text = 0
        <4>1. AllText(<<>>) = <<>> BY TextRows
        <4> QED BY <2>4, <3>2, <4>1
      <3> QED BY <3>1, <3>2
    <2> HIDE DEF a, b
    <2>7. AllText(b) = <<>> BY <2>5, SilentText
    <2>8. AllText(a \o b) = AllText(a) \o AllText(b) /\ a \o b \in Seq(Norm)
      <3>1. AllText(a \o b) = AllText(a) \o AllText(b) BY <2>5, TextRows, Zenon
      <3>2. a \o b \in Seq(Norm) BY <2>5
      <3> QED BY <3>1, <3>2
    <2>9. Words(m.text) \o <<>> = Words(m.text) BY <1>2
    <2>10. AllText(a \o b) = What(m, FALSE) BY <1>5, <1>9, <2>6, <2>7, <2>8, <2>9, Zenon
    <2> QED BY <2>1, <2>8, <2>10
  <1> QED BY <1>6, <1>7, <1>8, <1>9

-------------------------------------------------------------------------------
(* What was said is in what was parsed.                                      *)

\* Two kinds of texts, a for those of turns and results, b for those of system
\* messages; everything a normal form has, in its order; and what is in it after a
\* conversation of which the texts a are those in A and the texts b those in B.  No text
\* of a turn waits; an Anthropic conversation that has met no turn has only system text,
\* other dialects keep system text out of the messages.
Split(A, B) == A \in SUBSET Int /\ B \in SUBSET Int /\ A \cap B = {}
Spoken(r) == (r.system \o AllText(r.msgs)) \o r.pending
Kept(r, a, b, A, B) ==
    /\ r \in Form /\ Holds(Spoken(r), a, b, A, B) /\ Only(r.pending, A) = <<>>
    /\ client = "anthropic" /\ ~r.seen => r.msgs = <<>> /\ r.pending = <<>>
    /\ client # "anthropic" => r.pending = <<>> /\ Only(AllText(r.msgs), B) = <<>>

\* What such a form is made of.
LEMMA FormParts ==
    ASSUME NEW r \in Form
    PROVE  /\ r.system \in Seq(Int) /\ r.msgs \in Seq(Norm) /\ r.pending \in Seq(Int)
           /\ AllText(r.msgs) \in Seq(Int) /\ r.seen \in BOOLEAN
  <1>1. r.system \in Seq(Int) /\ r.msgs \in Seq(Norm) /\ r.pending \in Seq(Int) /\ r.seen \in BOOLEAN
    BY DEF Form
  <1> QED BY <1>1, TextRows

\* An empty row adds nothing at either end.
LEMMA NothingMore == \A s \in Seq(Int) : s \o <<>> = s /\ <<>> \o s = s OBVIOUS

\* Which are joined of three are joined first does not matter.
LEMMA ThreeInARow == \A d, e, f \in Seq(Int) : (d \o e) \o f = d \o (e \o f) OBVIOUS

\* The same of three named ones.
Triple(d, e, f) == (d \o e) \o f = d \o (e \o f)

\* Any three rows join either way.
LEMMA Triples == ASSUME NEW d \in Seq(Int), NEW e \in Seq(Int), NEW f \in Seq(Int)
                 PROVE  Triple(d, e, f)
  BY ThreeInARow, Zenon DEF Triple

\* Five in a row, joined from the left and from the right.
Joined(s, t, u, p, w) == (((s \o t) \o u) \o p) \o w = s \o (t \o (u \o (p \o w)))

\* Both ways of joining five rows give one row.
LEMMA FiveInARow ==
    ASSUME NEW s \in Seq(Int), NEW t \in Seq(Int), NEW u \in Seq(Int), NEW p \in Seq(Int),
           NEW w \in Seq(Int)
    PROVE  Joined(s, t, u, p, w)
  <1> DEFINE st == s \o t
             pw == p \o w
             upw == u \o pw
             stu == st \o u
  <1>2. st \in Seq(Int) /\ pw \in Seq(Int) OBVIOUS
  <1> HIDE DEF st, pw
  <1>3. stu \in Seq(Int) /\ upw \in Seq(Int) BY <1>2
  <1> HIDE DEF stu, upw
  <1>4. (stu \o p) \o w = stu \o pw
    <2>1. Triple(stu, p, w) BY <1>3, Triples
    <2> QED BY <2>1, Zenon DEF pw, Triple
  <1>5. stu \o pw = st \o upw
    <2>1. Triple(st, u, pw) BY <1>2, Triples
    <2> QED BY <2>1, Zenon DEF stu, upw, Triple
  <1>6. st \o upw = s \o (t \o upw)
    <2>1. Triple(s, t, upw) BY <1>3, Triples
    <2> QED BY <2>1, Zenon DEF st, Triple
  <1> QED BY <1>4, <1>5, <1>6, Zenon DEF st, pw, upw, stu, Joined

\* Elements of A at the end.
LEMMA HoldsEnd ==
    ASSUME NEW A, NEW B, Split(A, B), NEW s, NEW u \in Seq(A), NEW a, NEW b, Holds(s, a, b, A, B)
    PROVE  Holds(s \o u, a \o u, b, A, B)
  <1>1. s \in Seq(Int) /\ A \in SUBSET Int /\ B \in SUBSET Int /\ A \cap B = {} /\ u \in Seq(Int)
    BY HoldsSame, SeqWider DEF Split
  <1>2. Only(<<>>, A) = <<>> /\ <<>> \in Seq(Int) BY OnlyRows
  <1> DEFINE su == s \o u
  <1>3. su \in Seq(Int) BY <1>1
  <1> HIDE DEF su
  <1>4. s \o <<>> = s /\ su \o <<>> = su BY <1>1, <1>3
  <1>5. Holds(s \o <<>>, a, b, A, B) BY <1>4
  <1>6. Holds((s \o u) \o <<>>, a \o u, b, A, B) BY <1>1, <1>2, <1>5, HoldsMore
  <1> QED BY <1>4, <1>6, Zenon DEF su

\* System text hoisted.
LEMMA HoistKeeps ==
    ASSUME NEW A, NEW B, Split(A, B), NEW a, NEW b, NEW r, Kept(r, a, b, A, B),
           client = "anthropic" => ~r.seen,
           NEW m \in Said, Words(m.text) \in Seq(B)
    PROVE  Kept(Hoist(r, m), a, b \o Words(m.text), A, B)
  <1> DEFINE s == r.system
             t == AllText(r.msgs)
             w == Words(m.text)
             sw == s \o w
             h == Hoist(r, m)
  <1>1. r \in Form /\ Only(r.pending, A) = <<>> /\ Holds((s \o t) \o r.pending, a, b, A, B)
        /\ r.pending = <<>>
    BY DEF Kept, Spoken
  <1>2. s \in Seq(Int) /\ t \in Seq(Int) /\ w \in Seq(Int) /\ w \in Seq(B)
    BY <1>1, FormParts, WordsType DEF Said
  <1>3. Only(t, B) = <<>>
    <2>1. CASE client = "anthropic"
      <3>1. r.msgs = <<>> BY <2>1 DEF Kept
      <3>2. t = <<>> BY <3>1, TextRows
      <3> QED BY <3>2, OnlyRows
    <2>2. CASE client # "anthropic" BY <2>2 DEF Kept
    <2> QED BY <2>1, <2>2
  <1>4. h \in Form /\ h = [r EXCEPT !.system = sw] BY <1>1, Hoists DEF Hoist
  <1>5. h.system = sw /\ h.msgs = r.msgs /\ h.pending = <<>> /\ h.seen = r.seen
    <2> HIDE DEF sw, h
    <2> QED BY <1>1, <1>4 DEF Form
  <1> HIDE DEF s, t, w, h
  <1>6. s \o t \in Seq(Int) /\ sw \in Seq(Int) BY <1>2
  <1> HIDE DEF sw
  <1>7. sw \o t \in Seq(Int) BY <1>2, <1>6
  <1>8. Holds(s \o t, b, a, B, A)
    <2>1. (s \o t) \o <<>> = s \o t BY <1>6, NothingMore, Zenon
    <2>2. Holds(s \o t, a, b, A, B) BY <1>1, <2>1
    <2> QED BY <2>2, HoldsSame
  <1>9. Holds(sw \o t, b \o w, a, B, A)
    <2>1. A \in SUBSET Int /\ B \in SUBSET Int /\ B \cap A = {} BY DEF Split
    <2>2. Holds((s \o w) \o t, b \o w, a, B, A) BY <1>2, <1>3, <1>8, <2>1, HoldsMore
    <2> QED BY <2>2 DEF sw
  <1>10. Holds(sw \o t, a, b \o w, A, B) BY <1>9, HoldsSame
  <1>11. Spoken(h) = sw \o t
    <2>1. Spoken(h) = (sw \o t) \o <<>> BY <1>5 DEF Spoken, t
    <2> QED BY <1>7, <2>1, NothingMore, Zenon
  <1>12. AllText(h.msgs) = t /\ h.pending = r.pending BY <1>1, <1>5 DEF t
  <1> QED BY <1>1, <1>3, <1>4, <1>5, <1>10, <1>11, <1>12 DEF Kept, h, w

\* Messages added.
LEMMA AddKeeps ==
    ASSUME client # "anthropic", NEW A, NEW B, Split(A, B), NEW a, NEW b, NEW r, Kept(r, a, b, A, B),
           NEW ms \in Seq(Norm), AllText(ms) \in Seq(A)
    PROVE  Kept(Add(r, ms), a \o AllText(ms), b, A, B)
  <1> DEFINE s == r.system
             t == AllText(r.msgs)
             u == AllText(ms)
             mm == r.msgs \o ms
             h == Add(r, ms)
  <1>1. r \in Form /\ Only(r.pending, A) = <<>> /\ Holds((s \o t) \o r.pending, a, b, A, B)
        /\ r.pending = <<>> /\ Only(t, B) = <<>>
    BY DEF Kept, Spoken
  <1>2. s \in Seq(Int) /\ t \in Seq(Int) /\ u \in Seq(Int) /\ u \in Seq(A) /\ r.msgs \in Seq(Norm)
    BY <1>1, FormParts, TextRows
  <1>3. AllText(mm) = t \o u /\ mm \in Seq(Norm)
    <2>1. mm \in Seq(Norm) BY <1>2
    <2> QED BY <1>2, <2>1, TextRows, Zenon
  <1>4. h \in Form /\ h = [r EXCEPT !.msgs = mm] BY <1>1, AddsMore DEF Add
  <1>5. h.system = s /\ h.msgs = mm /\ h.pending = <<>>
    <2> HIDE DEF mm, h
    <2> QED BY <1>1, <1>4 DEF Form
  <1>6. Only(u, B) = <<>>
    <2>1. A \in SUBSET Int /\ A \cap B = {} BY DEF Split
    <2> HIDE DEF u
    <2> QED BY <1>2, <2>1, OnlyNone
  <1> HIDE DEF s, t, u, h, mm
  <1>7. s \o t \in Seq(Int) /\ t \o u \in Seq(Int) BY <1>2
  <1>8. Holds(s \o t, a, b, A, B)
    <2>1. (s \o t) \o <<>> = s \o t BY <1>7, NothingMore, Zenon
    <2> QED BY <1>1, <2>1
  <1>9. Holds((s \o t) \o u, a \o u, b, A, B) BY <1>2, <1>8, HoldsEnd
  <1>10. Spoken(h) = (s \o t) \o u
    <2>1. Spoken(h) = (s \o (t \o u)) \o <<>> BY <1>3, <1>5 DEF Spoken
    <2>2. (s \o t) \o u = s \o (t \o u) BY <1>2, ThreeInARow, Zenon
    <2>3. (s \o (t \o u)) \o <<>> = s \o (t \o u)
      <3>1. s \o (t \o u) \in Seq(Int)
        <4> DEFINE tu == t \o u
        <4>1. tu \in Seq(Int) BY <1>7
        <4> HIDE DEF tu
        <4>2. s \o tu \in Seq(Int) BY <1>2, <4>1
        <4> QED BY <4>2 DEF tu
      <3> QED BY <3>1, NothingMore, Zenon
    <2> QED BY <2>1, <2>2, <2>3, Zenon
  <1>11. Only(AllText(h.msgs), B) = <<>>
    <2>1. Only(t \o u, B) = Only(t, B) \o Only(u, B) BY <1>2, OnlyBoth
    <2>2. <<>> \o <<>> = <<>> OBVIOUS
    <2> QED BY <1>1, <1>3, <1>5, <1>6, <2>1, <2>2, Zenon
  <1> QED BY <1>1, <1>4, <1>5, <1>9, <1>10, <1>11 DEF Kept, h, u

\* A reminder that waits.
LEMMA RemindKeeps ==
    ASSUME client = "anthropic", NEW A, NEW B, Split(A, B), NEW a, NEW b, NEW r, Kept(r, a, b, A, B),
           r.seen, NEW m \in Said, Words(m.text) \in Seq(B)
    PROVE  Kept(Remind(r, m), a, b \o Words(m.text), A, B)
  <1> DEFINE st == r.system \o AllText(r.msgs)
             p == r.pending
             w == Words(m.text)
             pw == p \o w
             h == Remind(r, m)
  <1>1. r \in Form /\ Only(p, A) = <<>> /\ Holds(st \o p, a, b, A, B) BY DEF Kept, Spoken
  <1>2. st \in Seq(Int) /\ p \in Seq(Int) /\ w \in Seq(Int) /\ w \in Seq(B)
    <2>1. r.system \in Seq(Int) /\ AllText(r.msgs) \in Seq(Int) /\ p \in Seq(Int) BY <1>1, FormParts
    <2>2. w \in Seq(Int) BY WordsType DEF Said
    <2> QED BY <2>1, <2>2
  <1>3. pw \in Seq(Int) BY <1>2
  <1>4. h = [r EXCEPT !.pending = pw] BY DEF Remind
  <1>5. h \in Form /\ h.system = r.system /\ h.msgs = r.msgs /\ h.pending = pw /\ h.seen = r.seen
    <2> HIDE DEF pw, h
    <2> QED BY <1>1, <1>3, <1>4 DEF Form
  <1> HIDE DEF st, p, w, h
  <1>6. Holds((st \o p) \o w, a, b \o w, A, B)
    <2>1. Holds(st \o p, b, a, B, A) /\ Split(B, A) BY <1>1, HoldsSame DEF Split
    <2>2. Holds((st \o p) \o w, b \o w, a, B, A) BY <1>2, <2>1, HoldsEnd
    <2> QED BY <2>2, HoldsSame
  <1>7. (st \o p) \o w = st \o pw BY <1>2, Regroup, SMTT(60)
  <1>8. Spoken(h) = st \o pw BY <1>5 DEF Spoken, st
  <1>9. Only(pw, A) = <<>>
    <2>1. Only(p \o w, A) = Only(p, A) \o Only(w, A) BY <1>2, OnlyBoth
    <2>2. Only(w, A) = <<>>
      <3>1. B \in SUBSET Int /\ B \cap A = {} BY DEF Split
      <3> QED BY <1>2, <3>1, OnlyNone
    <2>3. <<>> \o <<>> = <<>> OBVIOUS
    <2> QED BY <1>1, <2>1, <2>2, <2>3, Zenon
  <1>10. Holds(Spoken(h), a, b \o w, A, B) BY <1>6, <1>7, <1>8, Zenon
  <1> HIDE DEF pw
  <1> QED BY <1>5, <1>9, <1>10 DEF Kept, h, w

\* A turn of an Anthropic client's: the results stand first, what waits goes before the
\* text of a user's message, and a message without anything in it is left out.
LEMMA AnthropicTurn ==
    ASSUME NEW r \in Form, NEW m \in Said, m.role # "system"
    PROVE  LET user == m.role \in {"user", "tool"}
               w == TakeAnthropic(r, m)
               text == IF user THEN r.pending \o Words(m.text) ELSE Words(m.text)
           IN  \E t \in Seq(Norm) : /\ AllText(t) = Res(m) \o text
                                    /\ w \in Form /\ w.system = r.system /\ w.msgs = r.msgs \o t
                                    /\ w.seen /\ w.pending = IF user THEN <<>> ELSE r.pending
  <1> DEFINE user == m.role \in {"user", "tool"}
             w == TakeAnthropic(r, m)
             text == IF user THEN r.pending \o Words(m.text) ELSE Words(m.text)
             msg == Msg(IF user THEN "user" ELSE "assistant", text, m.calls, 0, <<>>)
             last == IF text # <<>> \/ m.calls # <<>> THEN <<msg>> ELSE <<>>
             t == Results(m) \o last
             ms == r.msgs \o t
             pend == IF user THEN <<>> ELSE r.pending
  <1>1. r.msgs \in Seq(Norm) /\ r.system \in Seq(Int) /\ r.seen \in BOOLEAN /\ r.pending \in Seq(Int)
    BY DEF Form
  <1>2. m.text \in Nat /\ m.calls \in Seq(Nat) BY DEF Said
  <1>3. Words(m.text) \in Seq(Int) BY <1>2, WordsType
  <1>4. w = [r EXCEPT !.msgs = ms, !.seen = TRUE, !.pending = pend]
    BY <1>1 DEF TakeAnthropic, ResultsFirst, Add, Form
  <1>5. text \in Seq(Int) /\ pend \in Seq(Int)
    <2>1. r.pending \o Words(m.text) \in Seq(Int) /\ <<>> \in Seq(Int) BY <1>1, <1>3
    <2> QED BY <1>1, <1>3, <2>1
  <1> HIDE DEF text, pend
  <1>6. msg \in Norm /\ msg.text = text BY <1>2, <1>5 DEF Msg, Norm, Roles
  <1> HIDE DEF msg
  <1>7. last \in Seq(Norm) /\ AllText(last) = text
    <2>1. CASE last = <<msg>> BY <1>6, <2>1, TextRows
    <2>2. CASE last = <<>> /\ text = <<>> BY <2>2, TextRows
    <2> QED BY <2>1, <2>2
  <1> HIDE DEF last
  <1>8. Results(m) \in Seq(Norm) /\ AllText(Results(m)) = Res(m) BY ResultsType, ResSays
  <1>9. t \in Seq(Norm) /\ AllText(t) = Res(m) \o text
    <2>1. t \in Seq(Norm) BY <1>7, <1>8
    <2> QED BY <1>7, <1>8, <2>1, TextRows, Zenon
  <1> HIDE DEF t
  <1>10. ms \in Seq(Norm) BY <1>1, <1>9
  <1>11. w \in Form /\ w.system = r.system /\ w.msgs = ms /\ w.seen /\ w.pending = pend
    <2> HIDE DEF w, ms
    <2> QED BY <1>1, <1>4, <1>5, <1>10 DEF Form
  <1> QED BY <1>9, <1>11 DEF pend, text

\* It adds what the turn says, before or behind what waits.
LEMMA TurnKeeps ==
    ASSUME client = "anthropic", NEW A, NEW B, Split(A, B), NEW a, NEW b, NEW r, Kept(r, a, b, A, B),
           NEW m \in Said, Proper(m), m.role # "system", Words(m.text) \in Seq(A), Low \in SUBSET A
    PROVE  Kept(TakeAnthropic(r, m), a \o What(m, FALSE), b, A, B)
  <1> DEFINE s == r.system
             t == AllText(r.msgs)
             p == r.pending
             w == Words(m.text)
             u == Res(m)
             h == TakeAnthropic(r, m)
             st == s \o t
             z == IF m.role \in {"user", "tool"} THEN p \o w ELSE w
  <1>1. r \in Form /\ Only(p, A) = <<>> /\ Holds(st \o p, a, b, A, B) /\ A \in SUBSET Int /\ B \in SUBSET Int
        /\ A \cap B = {}
    BY DEF Kept, Spoken, Split
  <1>2. s \in Seq(Int) /\ t \in Seq(Int) /\ p \in Seq(Int) /\ w \in Seq(A) /\ u \in Seq(A)
        /\ w \in Seq(Int) /\ u \in Seq(Int) /\ r.msgs \in Seq(Norm)
    <2>1. u \in Seq(Low) BY ResSays
    <2>2. u \in Seq(A)
      <3> HIDE DEF u
      <3> QED BY <2>1, SeqWider
    <2> HIDE DEF u, w
    <2>3. w \in Seq(A) BY DEF w
    <2>4. w \in Seq(Int) /\ u \in Seq(Int) BY <1>1, <2>2, <2>3, SeqWider
    <2> QED BY <1>1, <2>2, <2>3, <2>4, FormParts
  <1>3. What(m, FALSE) = u \o w BY DEF What
  <1>4. a \in Seq(Int) /\ b \in Seq(Int) BY <1>1, HoldsSame
  <1>5. PICK d \in Seq(Norm) : /\ AllText(d) = u \o z
                               /\ h \in Form /\ h.system = r.system /\ h.msgs = r.msgs \o d
                               /\ h.seen /\ h.pending = IF m.role \in {"user", "tool"} THEN <<>> ELSE p
    <2> HIDE DEF u
    <2> QED BY <1>1, AnthropicTurn DEF u
  <1> DEFINE e == AllText(d)
  <1>6. AllText(h.msgs) = t \o e /\ e \in Seq(Int)
    <2>1. AllText(r.msgs \o d) = AllText(r.msgs) \o AllText(d) BY <1>2, TextRows, Zenon
    <2>2. AllText(d) \in Seq(Int) BY TextRows
    <2> QED BY <1>5, <2>1, <2>2
  <1>7. Spoken(h) = (s \o (t \o e)) \o h.pending BY <1>5, <1>6 DEF Spoken
  <1> HIDE DEF s, t, p, w, u, h, st, z, e
  <1>8. st \in Seq(Int) BY <1>2 DEF st
  <1>9. CASE m.role \in {"user", "tool"}
    <2>1. Holds((st \o u) \o p, a \o u, b, A, B) BY <1>1, <1>2, <1>8, HoldsMore
    <2>2. Holds(((st \o u) \o p) \o w, (a \o u) \o w, b, A, B) BY <1>2, <2>1, HoldsEnd
    <2>3. (a \o u) \o w = a \o (u \o w)
      <3>1. Triple(a, u, w) BY <1>2, <1>4, Triples
      <3> QED BY <3>1, Zenon DEF Triple
    <2>4. ((st \o u) \o p) \o w = s \o (t \o (u \o (p \o w)))
      <3>1. Joined(s, t, u, p, w) BY <1>2, FiveInARow
      <3> QED BY <3>1, Zenon DEF st, Joined
    <2>5. h.pending = <<>> /\ e = u \o (p \o w) BY <1>5, <1>9 DEF e, z
    <2>6. s \o (t \o e) \in Seq(Int)
      <3> DEFINE te == t \o e
      <3>1. te \in Seq(Int) BY <1>2, <1>6
      <3> HIDE DEF te
      <3>2. s \o te \in Seq(Int) BY <1>2, <3>1
      <3> QED BY <3>2 DEF te
    <2>7. Spoken(h) = s \o (t \o e) BY <1>7, <2>5, <2>6, NothingMore, Zenon
    <2>8. Spoken(h) = ((st \o u) \o p) \o w BY <2>4, <2>5, <2>7, Zenon
    <2>9. Holds(Spoken(h), a \o What(m, FALSE), b, A, B) BY <1>3, <2>2, <2>3, <2>8, Zenon
    <2>10. Only(<<>>, A) = <<>> BY OnlyRows
    <2> QED BY <1>5, <2>5, <2>9, <2>10 DEF Kept, h
  <1>10. CASE m.role \notin {"user", "tool"}
    <2>1. u = <<>>
      <3>1. m.answers = <<>> BY <1>10 DEF Proper
      <3> QED BY <3>1, ResSays DEF u
    <2>2. e = w /\ h.pending = p /\ What(m, FALSE) = w
      <3>1. <<>> \o w = w BY <1>2, NothingMore, Zenon
      <3>2. e = u \o z /\ z = w BY <1>5, <1>10 DEF e, z
      <3> QED BY <1>3, <1>5, <1>10, <2>1, <3>1, <3>2, Zenon
    <2>3. Holds((st \o w) \o p, a \o w, b, A, B) BY <1>1, <1>2, <1>8, HoldsMore
    <2>4. (s \o t) \o w = s \o (t \o w)
      <3>1. Triple(s, t, w) BY <1>2, Triples
      <3> QED BY <3>1, Zenon DEF Triple
    <2>5. Spoken(h) = (st \o w) \o p BY <1>7, <2>2, <2>4, Zenon DEF st
    <2>6. Holds(Spoken(h), a \o What(m, FALSE), b, A, B) BY <2>2, <2>3, <2>5, Zenon
    <2> QED BY <1>1, <1>5, <2>2, <2>6 DEF Kept, h
  <1> QED BY <1>9, <1>10

\* What still waits is placed.
LEMMA PlacedSays ==
    ASSUME NEW r \in Form
    PROVE  LET w == PlaceTrailing(r)
           IN  /\ w.msgs \in Seq(Norm) /\ w.system \in Seq(Int)
               /\ w.system \o AllText(w.msgs) = Spoken(r)
  <1> DEFINE w == PlaceTrailing(r)
             len == Len(r.msgs)
             piece == [r.msgs[len] EXCEPT !.text = @ \o r.pending]
             ms == [r.msgs EXCEPT ![len] = piece]
             s == r.system
             t == AllText(r.msgs)
             p == r.pending
             st == s \o t
  <1>1. s \in Seq(Int) /\ r.msgs \in Seq(Norm) /\ p \in Seq(Int) /\ t \in Seq(Int)
    BY FormParts
  <1>2. Spoken(r) = (s \o t) \o p BY DEF Spoken
  <1>3. len \in Nat /\ DOMAIN r = {"system", "msgs", "seen", "pending"} BY <1>1 DEF Form
  <1>4. CASE r.pending = <<>>
    <2>1. w = r BY <1>4 DEF PlaceTrailing
    <2> HIDE DEF st, w
    <2>2. st \in Seq(Int) BY <1>1 DEF st
    <2>3. st \o <<>> = st BY <2>2, NothingMore, Zenon
    <2>4. Spoken(r) = st BY <1>2, <1>4, <2>3 DEF st
    <2> QED BY <1>1, <2>1, <2>4 DEF st, w
  <1>5. CASE r.pending # <<>> /\ r.msgs = <<>>
    <2> DEFINE sp == s \o p
    <2>1. w = [r EXCEPT !.system = sp, !.pending = <<>>] BY <1>5 DEF PlaceTrailing
    <2>2. sp \in Seq(Int) BY <1>1
    <2> HIDE DEF sp
    <2>3. w.msgs = <<>> /\ w.system = sp BY <1>3, <1>5, <2>1
    <2>4. t = <<>> /\ AllText(<<>>) = <<>> BY <1>5, TextRows
    <2> HIDE DEF w, s, t, p
    <2>5. sp \o <<>> = sp /\ s \o <<>> = s BY <1>1, <2>2, NothingMore, Zenon
    <2>6. w.system \o AllText(w.msgs) = Spoken(r) BY <1>2, <2>3, <2>4, <2>5, Zenon DEF sp
    <2>7. <<>> \in Seq(Norm) OBVIOUS
    <2> QED BY <2>2, <2>3, <2>6, <2>7 DEF w
  <1>6. CASE r.pending # <<>> /\ r.msgs # <<>>
    <2>1. w = [r EXCEPT !.msgs = ms, !.pending = <<>>] BY <1>3, <1>6 DEF PlaceTrailing
    <2>2. len \in 1..len /\ r.msgs[len] \in Norm BY <1>1, <1>3, <1>6
    <2> DEFINE l == r.msgs[len]
               f == SubSeq(r.msgs, 1, len - 1)
               lp == l.text \o p
    <2>3. l.text \in Seq(Int) /\ lp \in Seq(Int) BY <1>1, <2>2 DEF Norm
    <2>4. piece \in Norm /\ piece.text = lp BY <2>2, <2>3 DEF Norm
    <2> HIDE DEF piece
    <2>5. ms \in Seq(Norm) /\ Len(ms) = len /\ ms[len] = piece /\ \A q \in 1..len : q # len => ms[q] = r.msgs[q]
      BY <1>1, <1>3, <2>2, <2>4
    <2>6. r.msgs = f \o <<l>> /\ f \in Seq(Norm) /\ <<l>> \in Seq(Norm)
      <3>1. SubSeq(r.msgs, 1, len) = f \o <<l>> /\ f \in Seq(Norm) /\ <<l>> \in Seq(Norm)
        BY <1>1, <2>2, OneFurther
      <3>2. SubSeq(r.msgs, 1, len) = r.msgs BY <1>1
      <3> QED BY <3>1, <3>2
    <2> HIDE DEF ms
    <2>7. ms = f \o <<piece>>
      <3>1. SubSeq(ms, 1, len) = SubSeq(ms, 1, len - 1) \o <<ms[len]>> BY <2>2, <2>5, OneFurther
      <3>2. SubSeq(ms, 1, len) = ms BY <2>5
      <3>3. SubSeq(ms, 1, len - 1) = f
        <4>1. len - 1 \in Nat /\ len - 1 <= len /\ \A q \in 1..(len - 1) : q \in 1..len /\ q # len
          BY <1>3, <2>2
        <4>2. SubSeq(ms, 1, len - 1) = [q \in 1..(len - 1) |-> ms[q]]
              /\ f = [q \in 1..(len - 1) |-> r.msgs[q]]
          BY <1>1, <2>5, <4>1
        <4> QED BY <2>5, <4>1, <4>2
      <3> QED BY <2>5, <3>1, <3>2, <3>3
    <2> DEFINE ft == AllText(f)
               lt == l.text
    <2>8. t = ft \o lt /\ ft \in Seq(Int)
      <3> HIDE DEF f, l
      <3>1. AllText(f \o <<l>>) = AllText(f) \o AllText(<<l>>) BY <2>6, TextRows, Zenon
      <3>2. AllText(<<l>>) = l.text BY <2>2, TextRows DEF l
      <3>3. AllText(f) \in Seq(Int) BY <2>6, TextRows
      <3> QED BY <2>6, <3>1, <3>2, <3>3
    <2>9. AllText(ms) = ft \o lp
      <3> HIDE DEF f, l, lp
      <3>1. <<piece>> \in Seq(Norm) BY <2>4
      <3>2. AllText(f \o <<piece>>) = AllText(f) \o AllText(<<piece>>) BY <2>6, <3>1, TextRows, Zenon
      <3>3. AllText(<<piece>>) = piece.text BY <2>4, TextRows
      <3> QED BY <2>4, <2>7, <3>2, <3>3
    <2>10. w.msgs = ms /\ w.system = s BY <1>3, <2>1
    <2>11. lt \in Seq(Int) /\ lp = lt \o p BY <2>3
    <2> HIDE DEF w, s, t, p, f, l, ft, lt, lp
    <2>12. (ft \o lt) \o p = ft \o (lt \o p)
      <3>1. Triple(ft, lt, p) BY <1>1, <2>8, <2>11, Triples
      <3> QED BY <3>1, Zenon DEF Triple
    <2>13. AllText(ms) = t \o p BY <2>8, <2>9, <2>11, <2>12, Zenon
    <2>14. (s \o t) \o p = s \o (t \o p)
      <3>1. Triple(s, t, p) BY <1>1, Triples
      <3> QED BY <3>1, Zenon DEF Triple
    <2>15. w.system \o AllText(w.msgs) = Spoken(r) BY <1>2, <2>10, <2>13, <2>14, Zenon
    <2> QED BY <1>1, <2>5, <2>10, <2>15 DEF w
  <1> QED BY <1>4, <1>5, <1>6

-------------------------------------------------------------------------------
(* Nothing is lost.                                                          *)

\* The texts of a conversation: a message's number, or none; only the user shows pictures,
\* and only an Anthropic client says something beside results.
Numbered(c, h) ==
    \A i \in 1..Len(h) : /\ h[i].text \in {0, i}
                         /\ h[i].role # "user" => h[i].image = "none"
                         /\ c # "anthropic" /\ h[i].role = "tool" => h[i].text = 0
TurnTexts(h) == Low \cup {i \in 1..Len(h) : h[i].role # "system"}
SystemTexts(h) == {i \in 1..Len(h) : h[i].role = "system"}

\* No text is of both kinds.
LEMMA TextsSplit ==
    ASSUME NEW h, Len(h) \in Nat
    PROVE  Split(TurnTexts(h), SystemTexts(h)) /\ Low \in SUBSET TurnTexts(h)
  <1>1. \A i \in 1..Len(h) : i \in Int /\ i > 0 /\ i \notin Low BY DEF Low
  <1>2. TurnTexts(h) \in SUBSET Int /\ SystemTexts(h) \in SUBSET Int BY <1>1 DEF TurnTexts, SystemTexts, Low
  <1>3. TurnTexts(h) \cap SystemTexts(h) = {} BY <1>1 DEF TurnTexts, SystemTexts
  <1> QED BY <1>2, <1>3 DEF Split, TurnTexts

\* Of a message, its own text.
LEMMA WordsOf ==
    ASSUME NEW c, NEW h, h \in Seq(Said), Numbered(c, h), NEW k \in 1..Len(h)
    PROVE  /\ h[k].role = "system" => Words(h[k].text) \in Seq(SystemTexts(h))
           /\ h[k].role # "system" => Words(h[k].text) \in Seq(TurnTexts(h))
  <1>1. Words(h[k].text) = <<>> \/ Words(h[k].text) = <<k>> BY DEF Numbered, Words
  <1>2. k \in SystemTexts(h) \/ h[k].role # "system" BY DEF SystemTexts
  <1>3. k \in TurnTexts(h) \/ h[k].role = "system" BY DEF TurnTexts
  <1>4. \A S : <<>> \in Seq(S) /\ (k \in S => <<k>> \in Seq(S)) OBVIOUS
  <1> QED BY <1>1, <1>2, <1>3, <1>4, Zenon

\* One message more, whoever it is from.
LEMMA TakeKeeps ==
    ASSUME client \in Dialects, NEW A, NEW B, Split(A, B), NEW a, NEW b, NEW r, Kept(r, a, b, A, B),
           NEW m \in Said, Proper(m), Low \in SUBSET A,
           m.role = "system" => Words(m.text) \in Seq(B),
           m.role # "system" => Words(m.text) \in Seq(A),
           client # "anthropic" /\ m.role = "tool" => m.text = 0
    PROVE  Kept(Take(r, m), a \o What(m, FALSE), b \o What(m, TRUE), A, B)
  <1>1. r \in Form /\ a \in Seq(Int) /\ b \in Seq(Int) BY HoldsSame DEF Kept
  <1>2. a \o <<>> = a /\ b \o <<>> = b BY <1>1, NothingMore, Zenon
  <1>3. CASE m.role = "system"
    <2>1. What(m, FALSE) = <<>> BY <1>3 DEF What
    <2>2. What(m, TRUE) = Words(m.text)
      <3>1. Res(m) = <<>> BY <1>3, ResSays DEF Proper
      <3>2. What(m, TRUE) = Res(m) \o Words(m.text) BY <1>3 DEF What
      <3>3. Words(m.text) \in Seq(Int) BY WordsType DEF Said
      <3> QED BY <3>1, <3>2, <3>3, NothingMore, Zenon
    <2>3. Words(m.text) \in Seq(B) BY <1>3
    <2>4. CASE client # "anthropic" \/ ~r.seen
      <3>1. Take(r, m) = Hoist(r, m)
        BY <1>3, <2>4 DEF Take, TakeOpenAI, TakeOllama, TakeResponses, TakeAnthropic, Remind, Dialects
      <3>2. Kept(Hoist(r, m), a, b \o Words(m.text), A, B)
        <4>1. client = "anthropic" => ~r.seen BY <2>4
        <4> QED BY <2>3, <4>1, HoistKeeps
      <3> QED BY <1>2, <2>1, <2>2, <3>1, <3>2, Zenon
    <2>5. CASE client = "anthropic" /\ r.seen
      <3>1. Take(r, m) = Remind(r, m) BY <1>3, <2>5 DEF Take, TakeAnthropic
      <3>2. Kept(Remind(r, m), a, b \o Words(m.text), A, B) BY <2>3, <2>5, RemindKeeps
      <3> QED BY <1>2, <2>1, <2>2, <3>1, <3>2, Zenon
    <2> QED BY <2>4, <2>5
  <1>4. CASE m.role # "system"
    <2>1. What(m, TRUE) = <<>> /\ What(m, FALSE) = Res(m) \o Words(m.text) BY <1>4 DEF What
    <2>2. Words(m.text) \in Seq(A) BY <1>4
    <2>3. CASE client = "anthropic"
      <3>1. Take(r, m) = TakeAnthropic(r, m) BY <2>3 DEF Take
      <3>2. Kept(TakeAnthropic(r, m), a \o What(m, FALSE), b, A, B) BY <1>4, <2>2, <2>3, TurnKeeps
      <3> QED BY <1>2, <2>1, <3>1, <3>2, Zenon
    <2>4. CASE client # "anthropic"
      <3>1. PICK t \in Seq(Norm) : Take(r, m) = Add(r, t) /\ AllText(t) = What(m, FALSE)
        BY <1>1, <1>4, <2>4, OthersSay
      <3>2. What(m, FALSE) \in Seq(A)
        <4>1. Res(m) \in Seq(Low) BY ResSays
        <4>2. Res(m) \in Seq(A) BY <4>1, SeqWider
        <4> DEFINE u == Res(m)
                   w == Words(m.text)
        <4> HIDE DEF u, w
        <4>3. u \in Seq(A) /\ w \in Seq(A) BY <2>2, <4>2 DEF u, w
        <4>4. u \o w \in Seq(A) BY <4>3
        <4> QED BY <2>1, <4>4 DEF u, w
      <3>3. AllText(t) \in Seq(A) BY <3>1, <3>2
      <3>4. Kept(Add(r, t), a \o AllText(t), b, A, B) BY <2>4, <3>3, AddKeeps
      <3> QED BY <1>2, <2>1, <3>1, <3>4, Zenon
    <2> QED BY <2>3, <2>4
  <1> QED BY <1>3, <1>4

\* So after any number of messages.
LEMMA ParsedKept ==
    ASSUME client \in Dialects, NEW h, Properly(h), Numbered(client, h)
    PROVE  \A i \in 0..Len(h) :
              Kept(Parsing(h)[i], Uttered(SubSeq(h, 1, i), FALSE), Uttered(SubSeq(h, 1, i), TRUE),
                   TurnTexts(h), SystemTexts(h))
  <1> DEFINE p == Parsing(h)
             len == Len(h)
             t(i) == SubSeq(h, 1, i)
             A == TurnTexts(h)
             B == SystemTexts(h)
             Right(i) == Kept(p[i], Uttered(t(i), FALSE), Uttered(t(i), TRUE), A, B)
             good == {i \in Nat : Right(i)}
  <1>1. len \in Nat /\ h \in Seq(Said) /\ \A i \in 1..len : h[i] \in Said /\ Proper(h[i])
    BY DEF Properly
  <1>2. p[0] = Empty /\ \A i \in 1..len : p[i] = Take(p[i - 1], h[i]) BY <1>1, ParsingParses
  <1>3. Split(A, B) /\ Low \in SUBSET A BY <1>1, TextsSplit
  <1>4. t(0) = <<>> BY <1>1
  <1>5. \A i \in 1..len : t(i) = t(i - 1) \o <<h[i]>> /\ t(i - 1) \in Seq(Said) /\ <<h[i]>> \in Seq(Said)
    BY <1>1, OneFurther
  <1>6. \A i \in 1..len : /\ h[i].role = "system" => Words(h[i].text) \in Seq(B)
                          /\ h[i].role # "system" => Words(h[i].text) \in Seq(A)
    BY <1>1, WordsOf
  <1>7. \A i \in 1..len : client # "anthropic" /\ h[i].role = "tool" => h[i].text = 0 BY DEF Numbered
  <1> HIDE DEF p, len, t, A, B
  <1>8. Right(0)
    <2>1. Empty \in Form /\ Empty.system = <<>> /\ Empty.msgs = <<>> /\ Empty.pending = <<>>
      BY DEF Empty, Form
    <2>2. AllText(<<>>) = <<>> BY TextRows
    <2>3. Spoken(Empty) = <<>>
      <3>1. Spoken(Empty) = (<<>> \o <<>>) \o <<>> BY <2>1, <2>2 DEF Spoken
      <3>2. <<>> \o <<>> = <<>> OBVIOUS
      <3> QED BY <3>1, <3>2, Zenon
    <2>4. Only(<<>>, A) = <<>> /\ Only(<<>>, B) = <<>> BY OnlyRows, Zenon
    <2>5. Uttered(t(0), FALSE) = <<>> /\ Uttered(t(0), TRUE) = <<>>
      <3>1. \A y \in BOOLEAN : Uttered(<<>>, y) = <<>> BY WhatRows
      <3> QED BY <1>4, <3>1
    <2>6. Holds(<<>>, <<>>, <<>>, A, B) BY HoldsNone
    <2> QED BY <1>2, <2>1, <2>2, <2>3, <2>4, <2>5, <2>6 DEF Kept
  <1>9. ASSUME NEW k \in 1..len, Right(k - 1) PROVE Right(k)
    <2> HIDE DEF Right
    <2> DEFINE g == t(k - 1)
               m == h[k]
               r == p[k - 1]
               a == Uttered(g, FALSE)
               b == Uttered(g, TRUE)
    <2>5. t(k) = g \o <<m>> /\ g \in Seq(Said) /\ <<m>> \in Seq(Said) /\ m \in Said /\ Proper(m)
          /\ p[k] = Take(r, m) /\ Kept(r, a, b, A, B)
      BY <1>1, <1>2, <1>5, <1>9 DEF Right
    <2>6. /\ m.role = "system" => Words(m.text) \in Seq(B)
          /\ m.role # "system" => Words(m.text) \in Seq(A)
          /\ client # "anthropic" /\ m.role = "tool" => m.text = 0
      BY <1>6, <1>7
    <2> HIDE DEF g, m, r
    <2>7. \A y \in BOOLEAN : Uttered(g \o <<m>>, y) = Uttered(g, y) \o What(m, y)
      <3> TAKE y \in BOOLEAN
      <3>1. Uttered(g \o <<m>>, y) = Uttered(g, y) \o Uttered(<<m>>, y) BY <2>5, WhatRows, Zenon
      <3>2. Uttered(<<m>>, y) = What(m, y) BY <2>5, WhatRows, Zenon
      <3> QED BY <3>1, <3>2, Zenon
    <2> HIDE DEF a, b
    <2>8. Kept(Take(r, m), a \o What(m, FALSE), b \o What(m, TRUE), A, B)
      BY <1>3, <2>5, <2>6, TakeKeeps
    <2>9. Uttered(t(k), FALSE) = a \o What(m, FALSE) /\ Uttered(t(k), TRUE) = b \o What(m, TRUE)
      BY <2>5, <2>7 DEF a, b
    <2> QED BY <2>5, <2>8, <2>9 DEF Right
  <1>10. \A i \in 0..len : Right(i)
    <2> HIDE DEF Right
    <2>0. len \in Nat BY <1>1
    <2>1. 0 \in good /\ \A k \in 1..len : k - 1 \in good => k \in good BY <1>8, <1>9
    <2>2. \A i \in 0..len : i \in good
      <3> HIDE DEF good
      <3> QED BY <2>0, <2>1, Climb
    <2> QED BY <2>2
  <1> QED BY <1>10 DEF p, len, t, A, B

\* The request has all of it, in its order.
LEMMA RequestSays ==
    ASSUME client \in Dialects, upstream \in Upstreamed, NEW h, Conversation(h), Numbered(client, h)
    PROVE  LET turns == Uttered(h, FALSE)
               reminders == Uttered(h, TRUE)
               all == Parse(h).system \o AllText(Built(Parse(h).msgs))
           IN  /\ Only(all, Range(turns)) = turns
               /\ Only(all, Range(reminders)) = reminders
               /\ Len(all) = Len(turns) + Len(reminders)
  <1> DEFINE len == Len(h)
             r == Parsing(h)[len]
             w == Parse(h)
             turns == Uttered(h, FALSE)
             reminders == Uttered(h, TRUE)
             all == w.system \o AllText(Built(w.msgs))
             A == TurnTexts(h)
             B == SystemTexts(h)
  <1>1. len \in Nat /\ Properly(h) /\ len \in 0..len /\ SubSeq(h, 1, len) = h
    BY DEF Conversation, Properly
  <1>2. Kept(r, turns, reminders, A, B)
    <2>1. \A i \in 0..len : Kept(Parsing(h)[i], Uttered(SubSeq(h, 1, i), FALSE),
                                 Uttered(SubSeq(h, 1, i), TRUE), A, B)
      BY <1>1, ParsedKept
    <2>2. Kept(r, Uttered(SubSeq(h, 1, len), FALSE), Uttered(SubSeq(h, 1, len), TRUE), A, B)
      BY <1>1, <2>1
    <2> QED BY <1>1, <2>2
  <1> HIDE DEF r, len, turns, reminders, A, B
  <1>3. r \in Form /\ Holds(Spoken(r), turns, reminders, A, B) BY <1>2 DEF Kept
  <1>4. w = IF client = "anthropic" THEN PlaceTrailing(r) ELSE r BY DEF Parse, r, len
  <1> HIDE DEF w
  <1>5. w.msgs \in Seq(Norm) /\ w.system \o AllText(w.msgs) = Spoken(r)
    <2>1. CASE client = "anthropic" BY <1>3, <1>4, <2>1, PlacedSays
    <2>2. CASE client # "anthropic"
      <3> DEFINE st == r.system \o AllText(r.msgs)
      <3>1. r.system \in Seq(Int) /\ AllText(r.msgs) \in Seq(Int) /\ r.msgs \in Seq(Norm)
        BY <1>3, FormParts
      <3>2. st \in Seq(Int) BY <3>1
      <3>3. r.pending = <<>> BY <1>2, <2>2 DEF Kept
      <3>4. Spoken(r) = st \o <<>> BY <3>3 DEF Spoken
      <3> HIDE DEF st
      <3>5. Spoken(r) = st BY <3>2, <3>4, NothingMore, Zenon
      <3> QED BY <1>4, <2>2, <3>1, <3>5 DEF st
    <2> QED BY <2>1, <2>2
  <1>6. AllText(Built(w.msgs)) = AllText(w.msgs) BY <1>5, BuiltText
  <1>7. all = Spoken(r) BY <1>5, <1>6
  <1> HIDE DEF all
  <1>8. all \in Seq(Int) /\ Only(all, A) = turns /\ Only(all, B) = reminders
        /\ Len(all) = Len(turns) + Len(reminders)
    BY <1>3, <1>7 DEF Holds
  <1>9. Only(all, Range(Only(all, A))) = Only(all, A) /\ Only(all, Range(Only(all, B))) = Only(all, B)
    BY <1>8, OnlyRange, Zenon
  <1>10. Only(all, Range(turns)) = turns /\ Only(all, Range(reminders)) = reminders
    BY <1>8, <1>9, Zenon
  <1> QED BY <1>8, <1>10 DEF all, w, turns, reminders

-------------------------------------------------------------------------------
(* The pictures.                                                             *)

\* Messages of which the assistant's show no pictures.
Plainly == {v \in Norm : v.role = "assistant" => v.images = <<>>}
Shown == {"good", "bad"}
ImagesOf == [v \in Norm |-> v.images]
PicturesOf == [m \in Said |-> Pictures(m)]
AllPictures(h) == FlattenSeq([i \in DOMAIN h |-> Pictures(h[i])])

\* The pictures of one message after another.
LEMMA PicturedRows ==
    /\ Makes(ImagesOf, Norm, Seq(Shown))
    /\ \A a \in Seq(Norm) : Pictured(a) = Flat(ImagesOf, a) /\ Pictured(a) \in Seq(Shown)
    /\ \A a, b \in Seq(Norm) : Pictured(a \o b) = Pictured(a) \o Pictured(b)
    /\ \A v \in Norm : Pictured(<<v>>) = v.images
    /\ Pictured(<<>>) = <<>>
  <1>1. Makes(ImagesOf, Norm, Seq(Shown))
    <2>1. \A v \in Norm : v.images \in Seq(Shown) BY DEF Norm, Shown
    <2> QED BY <2>1 DEF ImagesOf, Makes
  <1>2. ASSUME NEW a \in Seq(Norm) PROVE Pictured(a) = Flat(ImagesOf, a)
    <2>1. \A i \in DOMAIN a : a[i] \in Norm /\ ImagesOf[a[i]] = a[i].images BY DEF ImagesOf
    <2>2. Each(ImagesOf, a) = [i \in DOMAIN a |-> a[i].images] BY <2>1 DEF Each
    <2> QED BY <2>2 DEF Pictured, Flat
  <1>3. Rows(ImagesOf, Norm, Shown) BY <1>1, FlatBoth
  <1>4. \A v \in Norm : Flat(ImagesOf, <<v>>) = ImagesOf[v] BY <1>1, FlatOne
  <1>5. \A a, b \in Seq(Norm) : a \o b \in Seq(Norm) OBVIOUS
  <1>6. \A v \in Norm : <<v>> \in Seq(Norm) /\ ImagesOf[v] = v.images BY DEF ImagesOf
  <1>7. <<>> \in Seq(Norm) /\ Flat(ImagesOf, <<>>) = <<>> BY FlatNone
  <1>8. \A a \in Seq(Norm) : Pictured(a) \in Seq(Shown) BY <1>2, <1>3 DEF Rows
  <1>9. \A a, b \in Seq(Norm) : Pictured(a \o b) = Pictured(a) \o Pictured(b)
    <2> SUFFICES ASSUME NEW a \in Seq(Norm), NEW b \in Seq(Norm)
                 PROVE  Pictured(a \o b) = Pictured(a) \o Pictured(b)
      OBVIOUS
    <2>1. Flat(ImagesOf, a \o b) = Flat(ImagesOf, a) \o Flat(ImagesOf, b) BY <1>3 DEF Rows
    <2>2. Pictured(a \o b) = Flat(ImagesOf, a \o b) BY <1>2, <1>5
    <2>3. Pictured(a) = Flat(ImagesOf, a) /\ Pictured(b) = Flat(ImagesOf, b) BY <1>2
    <2> QED BY <2>1, <2>2, <2>3, Zenon
  <1>10. \A v \in Norm : Pictured(<<v>>) = v.images BY <1>2, <1>4, <1>6
  <1>11. Pictured(<<>>) = <<>> BY <1>2, <1>7
  <1> QED BY <1>1, <1>2, <1>8, <1>9, <1>10, <1>11, Zenon

\* Messages without pictures.
LEMMA NoPictures ==
    ASSUME NEW ms \in Seq(Norm), \A i \in DOMAIN ms : ms[i].images = <<>>
    PROVE  Pictured(ms) = <<>>
  <1> DEFINE O == {v \in Norm : v.images = <<>>}
             g == [v \in O |-> <<>>]
  <1>1. ms \in Seq(O)
    <2>1. \A i \in 1..Len(ms) : ms[i] \in O OBVIOUS
    <2> HIDE DEF O
    <2> QED BY <2>1
  <1>2. Makes(g, O, Seq(Shown)) /\ \A v \in O : g[v] = <<>>
    <2>1. <<>> \in Seq(Shown) OBVIOUS
    <2> QED BY <2>1 DEF Makes
  <1>3. Each(g, ms) = [i \in DOMAIN ms |-> ms[i].images]
    <2>1. \A i \in DOMAIN ms : g[ms[i]] = ms[i].images BY <1>2
    <2> HIDE DEF g
    <2> QED BY <2>1 DEF Each
  <1> HIDE DEF g, O
  <1>4. Flat(g, ms) = <<>> BY <1>1, <1>2, FlatNothing
  <1> QED BY <1>3, <1>4 DEF Pictured, Flat

\* What the client shows, message by message.
LEMMA ShownRows ==
    /\ \A a \in Seq(Said) : AllPictures(a) \in Seq(Shown)
    /\ \A a, b \in Seq(Said) : AllPictures(a \o b) = AllPictures(a) \o AllPictures(b)
    /\ \A m \in Said : AllPictures(<<m>>) = Pictures(m) /\ Pictures(m) \in Seq(Shown)
    /\ AllPictures(<<>>) = <<>>
  <1> DEFINE g == PicturesOf
  <1>1. \A m \in Said : Pictures(m) \in Seq(Shown) BY PicturesType DEF Shown
  <1>2. Makes(g, Said, Seq(Shown)) BY <1>1 DEF PicturesOf, Makes
  <1>3. ASSUME NEW a \in Seq(Said) PROVE AllPictures(a) = Flat(g, a)
    <2>1. \A i \in DOMAIN a : a[i] \in Said /\ g[a[i]] = Pictures(a[i]) BY DEF PicturesOf
    <2> HIDE DEF g
    <2>2. Each(g, a) = [i \in DOMAIN a |-> Pictures(a[i])] BY <2>1 DEF Each
    <2> QED BY <2>2 DEF AllPictures, Flat
  <1>4. \A m \in Said : g[m] = Pictures(m) BY DEF PicturesOf
  <1> HIDE DEF g
  <1>5. Rows(g, Said, Shown) /\ \A m \in Said : Flat(g, <<m>>) = g[m] BY <1>2, FlatBoth, FlatOne
  <1>6. \A a, b \in Seq(Said) : a \o b \in Seq(Said) OBVIOUS
  <1>7. \A m \in Said : <<m>> \in Seq(Said) OBVIOUS
  <1>8. <<>> \in Seq(Said) /\ Flat(g, <<>>) = <<>> BY FlatNone
  <1>9. \A a \in Seq(Said) : AllPictures(a) \in Seq(Shown) BY <1>3, <1>5 DEF Rows
  <1>10. \A a, b \in Seq(Said) : AllPictures(a \o b) = AllPictures(a) \o AllPictures(b)
    <2> SUFFICES ASSUME NEW a \in Seq(Said), NEW b \in Seq(Said)
                 PROVE  AllPictures(a \o b) = AllPictures(a) \o AllPictures(b)
      OBVIOUS
    <2>1. Flat(g, a \o b) = Flat(g, a) \o Flat(g, b) BY <1>5 DEF Rows
    <2>2. AllPictures(a \o b) = Flat(g, a \o b) BY <1>3, <1>6
    <2>3. AllPictures(a) = Flat(g, a) /\ AllPictures(b) = Flat(g, b) BY <1>3
    <2> QED BY <2>1, <2>2, <2>3, Zenon
  <1>11. \A m \in Said : AllPictures(<<m>>) = Pictures(m) BY <1>3, <1>4, <1>5, <1>7
  <1>12. AllPictures(<<>>) = <<>> BY <1>3, <1>8
  <1> QED BY <1>1, <1>9, <1>10, <1>11, <1>12, Zenon

\* An OpenAI message adds the pictures it shows.
LEMMA OpenAIShows ==
    ASSUME NEW r \in Form, r.msgs \in Seq(Plainly), NEW m \in Said, Proper(m),
           m.role # "user" => m.image = "none"
    PROVE  /\ TakeOpenAI(r, m).msgs \in Seq(Plainly)
           /\ Pictured(TakeOpenAI(r, m).msgs) = Pictured(r.msgs) \o Pictures(m)
  <1> DEFINE w == TakeOpenAI(r, m)
             mm == r.msgs
  <1>1. mm \in Seq(Norm) /\ Pictured(mm) \in Seq(Shown) /\ mm \in Seq(Plainly)
    <2>1. mm \in Seq(Norm) BY FormParts
    <2> QED BY <2>1, PicturedRows
  <1>2. m.role # "user" => Pictures(m) = <<>> BY DEF Pictures
  <1>3. \A s \in Seq(Shown) : s \o <<>> = s OBVIOUS
  <1>4. m.text \in Nat /\ m.calls \in Seq(Nat) /\ m.role \in {"user", "assistant", "tool", "system"}
    BY DEF Said
  <1>5. \A t \in Seq(Norm) : Add(r, t).msgs = mm \o t BY AddsMore
  <1>6. \A t \in Seq(Norm) : Pictured(mm \o t) = Pictured(mm) \o Pictured(t)
    BY <1>1, PicturedRows, Zenon
  <1>7. \A t \in Seq(Plainly) : t \in Seq(Norm) /\ mm \o t \in Seq(Plainly)
    <2>1. Plainly \in SUBSET Norm BY DEF Plainly
    <2>2. \A t \in Seq(Plainly) : t \in Seq(Norm) BY <2>1, SeqWider
    <2> HIDE DEF mm
    <2>3. \A t \in Seq(Plainly) : mm \o t \in Seq(Plainly) BY <1>1
    <2> QED BY <2>2, <2>3
  <1>8. CASE m.role = "system"
    <2>1. w.msgs = mm BY <1>8, Hoists DEF TakeOpenAI
    <2> QED BY <1>1, <1>2, <1>3, <1>8, <2>1, Zenon
  <1>9. CASE m.role = "tool"
    <2> DEFINE t == Results(m)
    <2>1. t \in Seq(Norm) /\ \A i \in DOMAIN t : t[i].images = <<>> /\ t[i].role = "tool"
      <3>1. t \in Seq(Norm) BY ResultsType
      <3> QED BY <3>1 DEF Results, Msg
    <2>2. t \in Seq(Plainly)
      <3> HIDE DEF t
      <3>1. \A i \in 1..Len(t) : t[i] \in Plainly BY <2>1 DEF Plainly
      <3> QED BY <2>1, <3>1
    <2>3. Pictured(t) = <<>>
      <3> HIDE DEF t
      <3> QED BY <2>1, NoPictures
    <2>4. w = Add(r, t) BY <1>9 DEF TakeOpenAI
    <2> HIDE DEF t, w, mm
    <2>5. w.msgs = mm \o t /\ w.msgs \in Seq(Plainly) BY <1>5, <1>7, <2>2, <2>4
    <2>6. Pictured(mm \o t) = Pictured(mm) \o <<>> BY <1>6, <2>1, <2>3, Zenon
    <2> QED BY <1>2, <1>9, <2>5, <2>6 DEF w, mm
  <1>10. CASE m.role \in {"user", "assistant"}
    <2> DEFINE piece == Msg(m.role, Words(m.text), m.calls, 0, Pictures(m))
               t == <<piece>>
    <2>1. piece \in Norm /\ piece.images = Pictures(m) /\ piece.role = m.role
      <3>1. Pictures(m) \in Seq({"good", "bad"}) /\ Words(m.text) \in Seq(Int)
        BY <1>4, PicturesType, WordsType
      <3>2. m.role \in Roles /\ 0 \in Nat BY <1>10 DEF Roles
      <3> QED BY <1>4, <3>1, <3>2 DEF Msg, Norm
    <2>2. w = Add(r, t) BY <1>10 DEF TakeOpenAI
    <2> HIDE DEF piece
    <2>3. piece \in Plainly
      <3>1. m.role = "assistant" => Pictures(m) = <<>> BY <1>2
      <3> QED BY <2>1, <3>1 DEF Plainly
    <2>4. t \in Seq(Plainly) BY <2>3
    <2>5. Pictured(t) = Pictures(m) BY <2>1, PicturedRows
    <2> HIDE DEF t, w, mm
    <2>6. t \in Seq(Norm) /\ w.msgs = mm \o t /\ w.msgs \in Seq(Plainly) BY <1>5, <1>7, <2>2, <2>4
    <2>7. Pictured(mm \o t) = Pictured(mm) \o Pictures(m) BY <1>6, <2>5, <2>6, Zenon
    <2> QED BY <2>6, <2>7 DEF w, mm
  <1> QED BY <1>4, <1>8, <1>9, <1>10

\* So after any number of messages of an OpenAI client.
LEMMA ParsedShows ==
    ASSUME client = "openai", NEW h, Properly(h), Numbered(client, h)
    PROVE  Parse(h).msgs \in Seq(Plainly) /\ Pictured(Parse(h).msgs) = AllPictures(h)
  <1> DEFINE p == Parsing(h)
             len == Len(h)
             t(i) == SubSeq(h, 1, i)
             Right(i) == p[i].msgs \in Seq(Plainly) /\ Pictured(p[i].msgs) = AllPictures(t(i))
             good == {i \in Nat : Right(i)}
  <1>1. len \in Nat /\ h \in Seq(Said) /\ \A i \in 1..len : h[i] \in Said /\ Proper(h[i])
    BY DEF Properly
  <1>2. p[0] = Empty /\ \A i \in 1..len : p[i] = Take(p[i - 1], h[i]) BY <1>1, ParsingParses
  <1>3. \A i \in 0..len : p[i] \in Form BY ParsedForms DEF Dialects
  <1>4. t(0) = <<>> /\ t(len) = h BY <1>1
  <1>5. \A i \in 1..len : t(i) = t(i - 1) \o <<h[i]>> /\ t(i - 1) \in Seq(Said) /\ <<h[i]>> \in Seq(Said)
    BY <1>1, OneFurther
  <1>6. \A i \in 1..len : h[i].role # "user" => h[i].image = "none" BY DEF Numbered
  <1>7. Parse(h) = p[len] BY DEF Parse
  <1> HIDE DEF p, len, t
  <1>8. Right(0)
    <2>1. Empty.msgs = <<>> /\ <<>> \in Seq(Plainly) BY DEF Empty
    <2> QED BY <1>2, <1>4, <2>1, PicturedRows, ShownRows
  <1>9. ASSUME NEW k \in 1..len, Right(k - 1) PROVE Right(k)
    <2> HIDE DEF Right
    <2> DEFINE g == t(k - 1)
               m == h[k]
               r == p[k - 1]
    <2>5. t(k) = g \o <<m>> /\ g \in Seq(Said) /\ <<m>> \in Seq(Said) /\ m \in Said /\ Proper(m)
          /\ p[k] = TakeOpenAI(r, m) /\ r \in Form /\ r.msgs \in Seq(Plainly)
          /\ Pictured(r.msgs) = AllPictures(g) /\ (m.role # "user" => m.image = "none")
      BY <1>1, <1>2, <1>3, <1>5, <1>6, <1>9, SMTT(60) DEF Right, Take
    <2> HIDE DEF g, m, r
    <2>6. p[k].msgs \in Seq(Plainly) /\ Pictured(p[k].msgs) = AllPictures(g) \o Pictures(m)
      BY <2>5, OpenAIShows
    <2>7. AllPictures(g \o <<m>>) = AllPictures(g) \o AllPictures(<<m>>) BY <2>5, ShownRows, Zenon
    <2>8. AllPictures(<<m>>) = Pictures(m) BY <2>5, ShownRows, Zenon
    <2>9. Pictured(p[k].msgs) = AllPictures(t(k)) BY <2>5, <2>6, <2>7, <2>8, Zenon
    <2> QED BY <2>6, <2>9 DEF Right
  <1>10. Right(len)
    <2> HIDE DEF Right
    <2>0. len \in Nat BY <1>1
    <2>1. 0 \in good /\ \A k \in 1..len : k - 1 \in good => k \in good BY <1>8, <1>9
    <2>2. len \in good
      <3> HIDE DEF good
      <3> QED BY <2>0, <2>1, Climb
    <2> QED BY <2>2
  <1> QED BY <1>4, <1>7, <1>10

\* Three builders keep them.
LEMMA BuiltShows ==
    ASSUME upstream \in {"openai", "responses", "commandcode"}, NEW ms \in Seq(Plainly)
    PROVE  Pictured(Built(ms)) = Pictured(ms)
  <1> DEFINE g == [v \in Plainly |-> BuildMsg(v)]
             k == [v \in Plainly |-> v.images]
  <1>1. Plainly \in SUBSET Norm BY DEF Plainly
  <1>2. ms \in Seq(Norm) BY <1>1, SeqWider
  <1>3. upstream \in Upstreamed BY DEF Upstreamed
  <1>4. ASSUME NEW v \in Plainly
        PROVE  BuildMsg(v) \in Seq(Norm) /\ Pictured(BuildMsg(v)) = v.images /\ v.images \in Seq(Shown)
    <2>1. v \in Norm /\ (v.role = "assistant" => v.images = <<>>) BY DEF Plainly
    <2>2. BuildMsg(v) \in Seq(Norm) BY <1>3, <2>1, BuildsOne
    <2>3. v.images \in Seq(Shown) /\ v.calls \in Seq(Nat) /\ v.text \in Seq(Int)
      BY <2>1 DEF Norm, Shown
    <2>4. CASE upstream # "responses" \/ v.role # "assistant"
      <3>1. BuildMsg(v) = <<v>>
        BY <2>4 DEF BuildMsg, BuildOpenAI, BuildCommandCode, BuildResponses
      <3> QED BY <2>1, <2>2, <2>3, <3>1, PicturedRows
    <2>5. CASE upstream = "responses" /\ v.role = "assistant"
      <3> DEFINE y == [v EXCEPT !.calls = <<>>, !.images = <<>>]
                 f(i) == Msg("call", <<>>, <<v.calls[i]>>, 0, <<>>)
                 a == IF v.text # <<>> THEN <<y>> ELSE <<>>
                 b == [i \in DOMAIN v.calls |-> f(i)]
      <3>1. BuildMsg(v) = a \o b BY <2>5 DEF BuildMsg, BuildResponses
      <3>2. <<>> \in Seq({"good", "bad"}) /\ <<>> \in Seq(Nat) /\ <<>> \in Seq(Int) OBVIOUS
      <3>3. y \in Norm /\ y.images = <<>> BY <2>1, <3>2 DEF Norm
      <3>4. DOMAIN v.calls = 1..Len(v.calls) /\ Len(v.calls) \in Nat BY <2>3
      <3>5. \A i \in DOMAIN v.calls : f(i) \in Norm /\ f(i).images = <<>>
        <4>1. \A i \in DOMAIN v.calls : <<v.calls[i]>> \in Seq(Nat) BY <2>3, <3>4
        <4> QED BY <3>2, <4>1 DEF Msg, Norm, Roles
      <3> HIDE DEF y, f
      <3>6. a \in Seq(Norm) /\ b \in Seq(Norm) /\ \A i \in DOMAIN b : b[i].images = <<>>
        BY <3>3, <3>4, <3>5
      <3>7. Pictured(a) = <<>>
        <4>1. CASE a = <<y>> BY <3>3, <4>1, PicturedRows
        <4>2. CASE a = <<>> BY <4>2, PicturedRows
        <4> QED BY <4>1, <4>2
      <3> HIDE DEF a, b
      <3>8. Pictured(b) = <<>> BY <3>6, NoPictures
      <3>9. Pictured(a \o b) = Pictured(a) \o Pictured(b) BY <3>6, PicturedRows, Zenon
      <3>10. <<>> \o <<>> = <<>> OBVIOUS
      <3>11. Pictured(a \o b) = <<>> BY <3>7, <3>8, <3>9, <3>10, Zenon
      <3> QED BY <2>1, <2>2, <2>3, <2>5, <3>1, <3>11
    <2> QED BY <2>4, <2>5
  <1>5. Makes(g, Plainly, Seq(Norm)) /\ Makes(k, Plainly, Seq(Shown)) BY <1>4 DEF Makes
  <1>6. Makes(ImagesOf, Norm, Seq(Shown)) BY PicturedRows
  <1>7. \A v \in Plainly : Flat(ImagesOf, g[v]) = k[v]
    <2> SUFFICES ASSUME NEW v \in Plainly PROVE Flat(ImagesOf, g[v]) = k[v] OBVIOUS
    <2>1. g[v] = BuildMsg(v) /\ k[v] = v.images OBVIOUS
    <2>2. Pictured(BuildMsg(v)) = Flat(ImagesOf, BuildMsg(v)) BY <1>4, PicturedRows
    <2> QED BY <1>4, <2>1, <2>2
  <1>8. Built(ms) = Flat(g, ms) /\ Flat(k, ms) = Pictured(ms)
    <2>1. \A i \in DOMAIN ms : g[ms[i]] = BuildMsg(ms[i]) /\ k[ms[i]] = ms[i].images OBVIOUS
    <2> HIDE DEF g, k
    <2>2. Each(g, ms) = [i \in DOMAIN ms |-> BuildMsg(ms[i])]
          /\ Each(k, ms) = [i \in DOMAIN ms |-> ms[i].images]
      BY <2>1 DEF Each
    <2> QED BY <2>2 DEF Built, Pictured, Flat
  <1> HIDE DEF g, k
  <1>9. Flat(ImagesOf, Flat(g, ms)) = Flat(k, ms) BY <1>5, <1>6, <1>7, FlatFlat
  <1>10. Pictured(Built(ms)) = Flat(ImagesOf, Built(ms))
    <2>1. Built(ms) \in Seq(Norm) BY <1>2, <1>3, BuiltBoth
    <2> QED BY <2>1, PicturedRows
  <1> QED BY <1>8, <1>9, <1>10

-------------------------------------------------------------------------------
(* Along the conversation.                                                   *)

\* The messages are numbered as the client holds them, too.
CarryInv == TalkInv /\ Numbered(client, hist)

\* The client's message m, at the end.
LEMMA NumberedGrows ==
    ASSUME hist \in Seq(Said), Numbered(client, hist), NEW m \in Said, Grow(m),
           m.text \in {0, Next1}, m.role # "user" => m.image = "none",
           client # "anthropic" /\ m.role = "tool" => m.text = 0
    PROVE  Numbered(client, hist)'
  <1>1. hist' = Append(hist, m) /\ client' = client BY DEF Grow
  <1> DEFINE h == Append(hist, m)
             len == Len(hist)
  <1>2. len \in Nat /\ Len(h) = len + 1 /\ h[len + 1] = m /\ \A i \in 1..len : h[i] = hist[i]
    OBVIOUS
  <1> HIDE DEF h
  <1>3. \A i \in 1..Len(h) : i \in 1..len \/ i = len + 1 BY <1>2
  <1>4. \A i \in 1..Len(h) : /\ h[i].text \in {0, i}
                             /\ h[i].role # "user" => h[i].image = "none"
                             /\ client # "anthropic" /\ h[i].role = "tool" => h[i].text = 0
    BY <1>2, <1>3 DEF Numbered, Next1
  <1>5. Numbered(client, h) BY <1>4 DEF Numbered
  <1> QED BY <1>1, <1>5 DEF Numbered, h

\* Every step keeps them so.
LEMMA CarryKept == CarryInv /\ [RequestNext]_requestVars => CarryInv'
  <1> SUFFICES ASSUME CarryInv, [RequestNext]_requestVars PROVE Numbered(client, hist)'
    BY TalkKept DEF CarryInv
  <1>1. hist \in Seq(Said) /\ Len(hist) \in Nat /\ Next1 \in Nat /\ Numbered(client, hist) /\ Open \in Seq(Nat)
    BY OpenType DEF CarryInv, TalkInv, Conversation, Next1
  <1>2. <<>> \in Seq(Nat) OBVIOUS
  <1>3. CASE UserSays
    <2>1. PICK image \in {"none", "good", "bad"} : Grow(Message("user", Next1, <<>>, <<>>, image))
      BY <1>3 DEF UserSays
    <2> DEFINE m == Message("user", Next1, <<>>, <<>>, image)
    <2>2. m \in Said /\ m.text = Next1 /\ m.role = "user" BY <1>1, <1>2 DEF Message, Said
    <2> HIDE DEF m
    <2>3. Grow(m) BY <2>1 DEF m
    <2> QED BY <1>1, <2>2, <2>3, NumberedGrows
  <1>4. CASE AssistantSays
    <2>1. PICK text \in {0, Next1}, calls \in {<<>>, <<Next1>>, <<Next1, 20 + Next1>>} :
             Grow(Message("assistant", text, calls, <<>>, "none"))
      BY <1>4 DEF AssistantSays
    <2> DEFINE m == Message("assistant", text, calls, <<>>, "none")
    <2>2. calls \in Seq(Nat) /\ text \in Nat
      <3>1. 20 + Next1 \in Nat BY <1>1
      <3>2. <<Next1>> \in Seq(Nat) /\ <<Next1, 20 + Next1>> \in Seq(Nat)
        <4> DEFINE piece == Next1
                   y == 20 + Next1
        <4>1. piece \in Nat /\ y \in Nat BY <1>1, <3>1
        <4> HIDE DEF piece, y
        <4>2. <<piece>> \in Seq(Nat) /\ <<piece, y>> \in Seq(Nat) BY <4>1
        <4> QED BY <4>2 DEF piece, y
      <3>3. \A z \in {<<>>, <<Next1>>, <<Next1, 20 + Next1>>} : z \in Seq(Nat)
        BY <1>2, <3>2, Zenon
      <3>4. calls \in Seq(Nat) BY <3>3, Zenon
      <3> QED BY <1>1, <3>4
    <2>3. m \in Said /\ m.text \in {0, Next1} /\ m.role = "assistant" /\ m.image = "none"
      BY <1>2, <2>2 DEF Message, Said
    <2> HIDE DEF m
    <2>4. Grow(m) BY <2>1 DEF m
    <2> QED BY <1>1, <2>3, <2>4, NumberedGrows
  <1>5. CASE ToolAnswers
    <2>1. PICK text \in IF client = "anthropic" THEN {0, Next1} ELSE {0} :
             Grow(Message("tool", text, <<>>, Open, "none"))
      BY <1>5 DEF ToolAnswers
    <2> DEFINE m == Message("tool", text, <<>>, Open, "none")
    <2>2. text \in Nat /\ text \in {0, Next1} /\ (client # "anthropic" => text = 0) BY <1>1
    <2>3. m \in Said /\ m.text = text /\ m.role = "tool" /\ m.image = "none"
      BY <1>1, <1>2, <2>2 DEF Message, Said
    <2> HIDE DEF m
    <2>4. Grow(m) BY <2>1 DEF m
    <2> QED BY <1>1, <2>2, <2>3, <2>4, NumberedGrows
  <1>6. CASE SystemSays
    <2> DEFINE m == Message("system", Next1, <<>>, <<>>, "none")
    <2>1. m \in Said /\ m.text = Next1 /\ m.role = "system" /\ m.image = "none"
      BY <1>1, <1>2 DEF Message, Said
    <2> HIDE DEF m
    <2>2. Grow(m) BY <1>6 DEF SystemSays, m
    <2> QED BY <1>1, <2>1, <2>2, NumberedGrows
  <1>7. CASE Send \/ UNCHANGED requestVars
    <2>1. hist' = hist /\ client' = client BY <1>7 DEF Send, requestVars
    <2> QED BY <1>1, <2>1 DEF Numbered
  <1> QED BY <1>3, <1>4, <1>5, <1>6, <1>7 DEF RequestNext

\* What is sent is what was said.
LEMMA CarriesAll == CarryInv => NothingLost
  <1> SUFFICES ASSUME CarryInv, Sent PROVE NothingLost BY DEF NothingLost
  <1> DEFINE h == SubSeq(hist, 1, upto)
  <1>1. Conversation(h) /\ req.msgs = Built(Parse(h).msgs) /\ req.system = Parse(h).system
        /\ client \in Dialects /\ upstream \in Upstreamed
    <2>1. Conversation(h) BY Beginning DEF CarryInv, TalkInv
    <2> QED BY <2>1, ByDialect DEF CarryInv, TalkInv
  <1>2. Numbered(client, h)
    <2>1. hist \in Seq(Said) /\ upto \in 0..Len(hist) /\ Len(hist) \in Nat /\ Numbered(client, hist)
      BY DEF CarryInv, TalkInv, Conversation
    <2>2. Len(h) = upto /\ \A i \in 1..upto : h[i] = hist[i] /\ i \in 1..Len(hist) BY <2>1
    <2> HIDE DEF h
    <2> QED BY <2>1, <2>2 DEF Numbered
  <1> HIDE DEF h
  <1> DEFINE turns == Uttered(h, FALSE)
             reminders == Uttered(h, TRUE)
             all == req.system \o AllText(req.msgs)
  <1>3. /\ Only(all, Range(turns)) = turns
        /\ Only(all, Range(reminders)) = reminders
        /\ Len(all) = Len(turns) + Len(reminders)
    <2>1. all = Parse(h).system \o AllText(Built(Parse(h).msgs)) BY <1>1
    <2> QED BY <1>1, <1>2, <2>1, RequestSays
  <1>4. ASSUME client = "openai", upstream \in {"openai", "responses", "commandcode"}
        PROVE  Pictured(req.msgs) = FlattenSeq([i \in DOMAIN h |-> Pictures(h[i])])
    <2>1. Properly(h) BY <1>1 DEF Conversation, Properly
    <2>2. Parse(h).msgs \in Seq(Plainly) /\ Pictured(Parse(h).msgs) = AllPictures(h)
      BY <1>2, <1>4, <2>1, ParsedShows
    <2>3. Pictured(Built(Parse(h).msgs)) = Pictured(Parse(h).msgs) BY <1>4, <2>2, BuiltShows
    <2> QED BY <1>1, <2>2, <2>3 DEF AllPictures
  <1> HIDE DEF turns, reminders, all
  <1> QED BY <1>3, <1>4 DEF NothingLost, turns, reminders, all, h

\* Every request that is sent has the turns' texts and results in the order they were
\* said, and every system text once, none lost and none twice: the four parsers of
\* internal/wire with the five builders, wherever system messages stand, whatever text
\* an Anthropic client's results carry; and of an OpenAI conversation the pictures, for
\* the upstreams that hold them.
THEOREM NothingIsLost == RequestSpec => []NothingLost
  <1>1. RequestInit => CarryInv
    <2> SUFFICES ASSUME RequestInit PROVE Numbered(client, hist) BY TalkStarts DEF CarryInv
    <2>1. hist = <<>> BY DEF RequestInit
    <2> QED BY <2>1 DEF Numbered
  <1>2. RequestSpec => []CarryInv BY <1>1, CarryKept, PTL DEF RequestSpec
  <1> QED BY <1>2, CarriesAll, PTL

-------------------------------------------------------------------------------
(* What a client has heard.                                                  *)

\* A frame of any client's stream, and the frames without those of a call.
RFrame == [kind : {"start", "stop", "signature", "text", "reason", "call", "added", "done"},
           at : Int, id : Nat, piece : Seq(Int)]
OfKind(kind) == [g \in RFrame |-> IF g.kind = kind THEN g.piece ELSE <<>>]
OfPlaces(S) == [g \in RFrame |-> IF g.kind = "call" /\ g.at \in S THEN g.piece ELSE <<>>]

\* The texts among the frames s, the places where call c has its fragments, and
\* what there is at some places.
ToldText(s) == Flat(OfKind("text"), s)
Owned(s, c) == {s[i].at : i \in {j \in 1..Len(s) : s[j].kind # "done" /\ s[j].id = c}}
AtPlaces(s, S) == Flat(OfPlaces(S), s)
ToldArgs(s, c) == AtPlaces(s, Owned(s, c))

\* A place is of one call, and every fragment is at the place of some call.
Owners(s) ==
    /\ s \in Seq(RFrame)
    /\ \A c, e \in CallId : Owned(s, c) \cap Owned(s, e) # {} => c = e
    /\ \A i \in 1..Len(s) : s[i].kind = "call" => \E c \in CallId : s[i].at \in Owned(s, c)

\* A frame has a row of pieces for whatever it is asked.
LEMMA FrameMakes ==
    /\ \A kind : Makes(OfKind(kind), RFrame, Seq(Int))
    /\ \A S : Makes(OfPlaces(S), RFrame, Seq(Int))
  <1>1. ASSUME NEW kind PROVE Makes(OfKind(kind), RFrame, Seq(Int))
    <2>1. ASSUME NEW g \in RFrame PROVE (IF g.kind = kind THEN g.piece ELSE <<>>) \in Seq(Int)
      BY DEF RFrame
    <2> QED BY <2>1 DEF OfKind, Makes
  <1>2. ASSUME NEW S PROVE Makes(OfPlaces(S), RFrame, Seq(Int))
    <2>1. ASSUME NEW g \in RFrame
          PROVE  (IF g.kind = "call" /\ g.at \in S THEN g.piece ELSE <<>>) \in Seq(Int)
      BY DEF RFrame
    <2> QED BY <2>1 DEF OfPlaces, Makes
  <1> QED BY <1>1, <1>2

\* What one says for the client and what the frames of one attempt say are the same.
LEMMA HeardTold ==
    ASSUME sent \in Seq(RFrame)
    PROVE  /\ Heard("text") = ToldText(sent)
           /\ \A c \in CallId : HeardArgs(c) = ToldArgs(sent, c)
  <1>1. DOMAIN sent = 1..Len(sent) /\ \A i \in 1..Len(sent) : sent[i] \in RFrame OBVIOUS
  <1>2. Heard("text") = ToldText(sent)
    <2>1. Each(OfKind("text"), sent)
            = [i \in DOMAIN sent |-> IF sent[i].kind = "text" THEN sent[i].piece ELSE <<>>]
      BY <1>1 DEF Each, OfKind
    <2> QED BY <2>1 DEF Heard, ToldText, Flat
  <1>3. ASSUME NEW c \in CallId PROVE HeardArgs(c) = ToldArgs(sent, c)
    <2>1. \A at : IsCall(c, at) <=> at \in Owned(sent, c)
      <3>1. Range(sent) = {sent[i] : i \in 1..Len(sent)} BY <1>1 DEF Range
      <3> QED BY <1>1, <3>1 DEF IsCall, Owned
    <2>2. Each(OfPlaces(Owned(sent, c)), sent)
            = [i \in DOMAIN sent |-> IF sent[i].kind = "call" /\ IsCall(c, sent[i].at)
                                       THEN sent[i].piece ELSE <<>>]
      BY <1>1, <2>1 DEF Each, OfPlaces
    <2> QED BY <2>2 DEF HeardArgs, ToldArgs, AtPlaces, Flat
  <1> QED BY <1>2, <1>3

\* The two ways to look at frames that come one after the other.
LEMMA ToldBoth ==
    ASSUME NEW s \in Seq(RFrame), NEW a \in Seq(RFrame)
    PROVE  /\ s \o a \in Seq(RFrame)
           /\ ToldText(s \o a) = ToldText(s) \o ToldText(a)
           /\ ToldText(s) \in Seq(Int) /\ ToldText(a) \in Seq(Int)
           /\ \A S : /\ AtPlaces(s \o a, S) = AtPlaces(s, S) \o AtPlaces(a, S)
                     /\ AtPlaces(s, S) \in Seq(Int) /\ AtPlaces(a, S) \in Seq(Int)
  <1>1. s \o a \in Seq(RFrame) OBVIOUS
  <1>2. Rows(OfKind("text"), RFrame, Int) /\ \A S : Rows(OfPlaces(S), RFrame, Int)
    BY FrameMakes, FlatBoth
  <1> QED BY <1>1, <1>2 DEF Rows, ToldText, AtPlaces

\* Whose places there are then.
LEMMA OwnedBoth ==
    ASSUME NEW s \in Seq(RFrame), NEW a \in Seq(RFrame), NEW c
    PROVE  Owned(s \o a, c) = Owned(s, c) \union Owned(a, c)
  <1> DEFINE t == s \o a
  <1>1. /\ Len(s) \in Nat /\ Len(a) \in Nat /\ Len(t) = Len(s) + Len(a)
        /\ \A i \in 1..Len(s) : t[i] = s[i]
        /\ \A i \in 1..Len(a) : t[Len(s) + i] = a[i]
    OBVIOUS
  <1> HIDE DEF t
  <1>2. ASSUME NEW at \in Owned(t, c) PROVE at \in Owned(s, c) \union Owned(a, c)
    <2>1. PICK i \in 1..Len(t) : t[i].kind # "done" /\ t[i].id = c /\ t[i].at = at BY DEF Owned
    <2>2. CASE i <= Len(s)
      <3>1. i \in 1..Len(s) /\ t[i] = s[i] BY <1>1, <2>1, <2>2
      <3> QED BY <2>1, <3>1 DEF Owned
    <2>3. CASE i > Len(s)
      <3>1. i - Len(s) \in 1..Len(a) /\ i = Len(s) + (i - Len(s)) BY <1>1, <2>1, <2>3
      <3>2. t[i] = a[i - Len(s)] BY <1>1, <3>1
      <3> QED BY <2>1, <3>1, <3>2 DEF Owned
    <2> QED BY <1>1, <2>1, <2>2, <2>3
  <1>3. ASSUME NEW at \in Owned(s, c) PROVE at \in Owned(t, c)
    <2>1. PICK i \in 1..Len(s) : s[i].kind # "done" /\ s[i].id = c /\ s[i].at = at BY DEF Owned
    <2>2. i \in 1..Len(t) /\ t[i] = s[i] BY <1>1
    <2> QED BY <2>1, <2>2 DEF Owned
  <1>4. ASSUME NEW at \in Owned(a, c) PROVE at \in Owned(t, c)
    <2>1. PICK i \in 1..Len(a) : a[i].kind # "done" /\ a[i].id = c /\ a[i].at = at BY DEF Owned
    <2>2. Len(s) + i \in 1..Len(t) /\ t[Len(s) + i] = a[i] BY <1>1
    <2> QED BY <2>1, <2>2 DEF Owned
  <1> QED BY <1>2, <1>3, <1>4 DEF t

\* One frame.
LEMMA ToldOne ==
    ASSUME NEW g \in RFrame
    PROVE  /\ <<g>> \in Seq(RFrame)
           /\ ToldText(<<g>>) = IF g.kind = "text" THEN g.piece ELSE <<>>
           /\ \A S : AtPlaces(<<g>>, S) = IF g.kind = "call" /\ g.at \in S THEN g.piece ELSE <<>>
           /\ \A c : Owned(<<g>>, c) = IF g.kind # "done" /\ g.id = c THEN {g.at} ELSE {}
  <1>1. <<g>> \in Seq(RFrame) /\ Len(<<g>>) = 1 /\ <<g>>[1] = g /\ 1..1 = {1} OBVIOUS
  <1>2. \A k : Flat(OfKind(k), <<g>>) = OfKind(k)[g] BY FrameMakes, FlatOne
  <1>3. \A S : Flat(OfPlaces(S), <<g>>) = OfPlaces(S)[g] BY FrameMakes, FlatOne
  <1>4. \A c : Owned(<<g>>, c) = IF g.kind # "done" /\ g.id = c THEN {g.at} ELSE {}
    <2>1. \A c : {j \in 1..Len(<<g>>) : <<g>>[j].kind # "done" /\ <<g>>[j].id = c}
                   = IF g.kind # "done" /\ g.id = c THEN {1} ELSE {}
      BY <1>1
    <2> QED BY <1>1, <2>1 DEF Owned
  <1> QED BY <1>1, <1>2, <1>3, <1>4 DEF ToldText, AtPlaces, OfKind, OfPlaces

\* No frame.
LEMMA ToldNone == /\ <<>> \in Seq(RFrame) /\ ToldText(<<>>) = <<>> /\ Owners(<<>>)
                  /\ \A S : AtPlaces(<<>>, S) = <<>>
                  /\ \A c : Owned(<<>>, c) = {} /\ ToldArgs(<<>>, c) = <<>>
  <1>1. <<>> \in Seq(RFrame) /\ Len(<<>>) = 0 /\ 1..0 = {} OBVIOUS
  <1>2. ToldText(<<>>) = <<>> /\ \A S : AtPlaces(<<>>, S) = <<>> BY FlatNone DEF ToldText, AtPlaces
  <1>3. \A c : Owned(<<>>, c) = {} BY <1>1 DEF Owned
  <1> QED BY <1>1, <1>2, <1>3 DEF Owners, ToldArgs

\* A place nobody else has adds nothing that was said before.
LEMMA PlaceOfOne ==
    ASSUME NEW s, Owners(s), NEW c \in CallId, NEW at, \A e \in CallId \ {c} : at \notin Owned(s, e)
    PROVE  AtPlaces(s, Owned(s, c) \union {at}) = ToldArgs(s, c)
  <1> DEFINE S == Owned(s, c)
             T == S \union {at}
  <1>1. s \in Seq(RFrame) /\ DOMAIN s = 1..Len(s) /\ \A i \in 1..Len(s) : s[i] \in RFrame
    BY DEF Owners
  <1>2. ASSUME NEW i \in 1..Len(s), s[i].kind = "call", s[i].at = at PROVE at \in S
    <2>1. PICK e \in CallId : s[i].at \in Owned(s, e) BY <1>2 DEF Owners
    <2> QED BY <1>2, <2>1
  <1> HIDE DEF S
  <1>3. \A i \in 1..Len(s) : OfPlaces(T)[s[i]] = OfPlaces(S)[s[i]]
    BY <1>1, <1>2 DEF OfPlaces
  <1>4. Each(OfPlaces(T), s) = Each(OfPlaces(S), s) BY <1>1, <1>3 DEF Each
  <1> HIDE DEF T
  <1>5. AtPlaces(s, T) = AtPlaces(s, S) BY <1>4 DEF AtPlaces, Flat
  <1> QED BY <1>5 DEF ToldArgs, S, T

\* A frame of call c, or of a text, at the end.
LEMMA FrameMore ==
    ASSUME NEW s, Owners(s), NEW g \in RFrame, NEW c \in CallId, g.id \in {0, c}, g.kind # "done",
           g.kind = "call" => g.id = c \/ g.at \in Owned(s, c),
           g.id = c => \A e \in CallId \ {c} : g.at \notin Owned(s, e)
    PROVE  /\ Owners(s \o <<g>>)
           /\ ToldText(s \o <<g>>) = IF g.kind = "text" THEN ToldText(s) \o g.piece ELSE ToldText(s)
           /\ Owned(s \o <<g>>, c) = IF g.id = c THEN Owned(s, c) \union {g.at} ELSE Owned(s, c)
           /\ ToldArgs(s \o <<g>>, c) = IF g.kind = "call" THEN ToldArgs(s, c) \o g.piece ELSE ToldArgs(s, c)
           /\ \A e \in CallId \ {c} : /\ Owned(s \o <<g>>, e) = Owned(s, e)
                                      /\ ToldArgs(s \o <<g>>, e) = ToldArgs(s, e)
  <1> DEFINE a == <<g>>
             t == s \o a
  <1>1. s \in Seq(RFrame) BY DEF Owners
  <1>2. /\ a \in Seq(RFrame) /\ ToldText(a) = IF g.kind = "text" THEN g.piece ELSE <<>>
        /\ \A S : AtPlaces(a, S) = IF g.kind = "call" /\ g.at \in S THEN g.piece ELSE <<>>
        /\ \A e : Owned(a, e) = IF g.id = e THEN {g.at} ELSE {}
    BY ToldOne
  <1> HIDE DEF a
  <1>3. /\ t \in Seq(RFrame) /\ ToldText(t) = ToldText(s) \o ToldText(a)
        /\ ToldText(s) \in Seq(Int)
        /\ \A S : AtPlaces(t, S) = AtPlaces(s, S) \o AtPlaces(a, S) /\ AtPlaces(s, S) \in Seq(Int)
    BY <1>1, <1>2, ToldBoth, ZenonT(60)
  <1>4. \A e : Owned(t, e) = Owned(s, e) \union Owned(a, e) BY <1>1, <1>2, OwnedBoth
  <1>5. \A e \in CallId : e # 0 BY DEF CallId
  <1>0. Len(s) \in Nat /\ Len(t) = Len(s) + 1 /\ t[Len(s) + 1] = g /\ \A i \in 1..Len(s) : t[i] = s[i]
    BY <1>1 DEF a
  <1> HIDE DEF t
  <1>6. Owned(t, c) = IF g.id = c THEN Owned(s, c) \union {g.at} ELSE Owned(s, c)
    BY <1>2, <1>4
  <1>7. \A e \in CallId \ {c} : Owned(t, e) = Owned(s, e) BY <1>2, <1>4, <1>5
  <1>8. Owners(t)
    <2>1. ASSUME NEW d \in CallId, NEW e \in CallId, Owned(t, d) \cap Owned(t, e) # {} PROVE d = e
      BY <1>6, <1>7, <2>1 DEF Owners
    <2>2. ASSUME NEW i \in 1..Len(t), t[i].kind = "call" PROVE \E e \in CallId : t[i].at \in Owned(t, e)
      <3>1. CASE i = Len(s) + 1 BY <1>0, <1>6, <2>2, <3>1
      <3>2. CASE i # Len(s) + 1
        <4>1. i \in 1..Len(s) /\ t[i] = s[i] BY <1>0, <3>2
        <4>2. PICK e \in CallId : s[i].at \in Owned(s, e) BY <2>2, <4>1 DEF Owners
        <4>3. s[i].at \in Owned(t, e) BY <1>4, <4>2
        <4> QED BY <4>1, <4>3
      <3> QED BY <3>1, <3>2
    <2> QED BY <1>3, <2>1, <2>2 DEF Owners
  <1>9. ToldText(t) = IF g.kind = "text" THEN ToldText(s) \o g.piece ELSE ToldText(s)
    <2>1. ToldText(s) \o <<>> = ToldText(s) BY <1>3
    <2> QED BY <1>2, <1>3, <2>1
  <1>10. ToldArgs(t, c) = IF g.kind = "call" THEN ToldArgs(s, c) \o g.piece ELSE ToldArgs(s, c)
    <2> DEFINE S == Owned(t, c)
    <2>1. AtPlaces(s, S) = ToldArgs(s, c)
      <3>1. CASE g.id = c
        <4>1. S = Owned(s, c) \union {g.at} BY <1>6, <3>1
        <4>2. AtPlaces(s, Owned(s, c) \union {g.at}) = ToldArgs(s, c) BY <3>1, PlaceOfOne
        <4> QED BY <4>1, <4>2
      <3>2. CASE g.id # c BY <1>6, <3>2 DEF ToldArgs
      <3> QED BY <3>1, <3>2
    <2>2. g.kind = "call" => g.at \in S BY <1>6
    <2> HIDE DEF S
    <2>3. AtPlaces(t, S) = AtPlaces(s, S) \o AtPlaces(a, S) /\ AtPlaces(s, S) \in Seq(Int) BY <1>3
    <2>4. AtPlaces(a, S) = IF g.kind = "call" THEN g.piece ELSE <<>> BY <1>2, <2>2
    <2>5. AtPlaces(s, S) \o <<>> = AtPlaces(s, S) BY <2>3
    <2>6. AtPlaces(t, S) = IF g.kind = "call" THEN ToldArgs(s, c) \o g.piece ELSE ToldArgs(s, c)
      BY <2>1, <2>3, <2>4, <2>5
    <2> QED BY <2>6 DEF ToldArgs, S
  <1>11. ASSUME NEW e \in CallId \ {c} PROVE ToldArgs(t, e) = ToldArgs(s, e)
    <2> DEFINE S == Owned(s, e)
    <2>1. Owned(t, e) = S BY <1>7
    <2>2. g.kind = "call" => g.at \notin S BY DEF Owners
    <2> HIDE DEF S
    <2>3. AtPlaces(t, S) = AtPlaces(s, S) \o AtPlaces(a, S) /\ AtPlaces(s, S) \in Seq(Int) BY <1>3
    <2>4. AtPlaces(a, S) = <<>> BY <1>2, <2>2
    <2>5. AtPlaces(s, S) \o <<>> = AtPlaces(s, S) BY <2>3
    <2>6. AtPlaces(t, S) = AtPlaces(s, S) BY <2>3, <2>4, <2>5
    <2> QED BY <2>1, <2>6 DEF ToldArgs, S
  <1>12. /\ Owners(t)
         /\ ToldText(t) = IF g.kind = "text" THEN ToldText(s) \o g.piece ELSE ToldText(s)
         /\ Owned(t, c) = IF g.id = c THEN Owned(s, c) \union {g.at} ELSE Owned(s, c)
         /\ ToldArgs(t, c) = IF g.kind = "call" THEN ToldArgs(s, c) \o g.piece ELSE ToldArgs(s, c)
         /\ \A e \in CallId \ {c} : Owned(t, e) = Owned(s, e) /\ ToldArgs(t, e) = ToldArgs(s, e)
    BY <1>6, <1>7, <1>8, <1>9, <1>10, <1>11
  <1> QED BY <1>12 DEF t, a

-------------------------------------------------------------------------------
\* Frames that are of no call, and the text they say.
Silent(a) == a \in Seq(RFrame) /\ \A i \in 1..Len(a) : a[i].id = 0 /\ a[i].kind # "call"
Sounds(a, t) == Silent(a) /\ ToldText(a) = t

\* A frame of no call says its text.
LEMMA SoundsOne ==
    ASSUME NEW g \in RFrame, g.id = 0, g.kind # "call"
    PROVE  Sounds(<<g>>, IF g.kind = "text" THEN g.piece ELSE <<>>)
  <1>1. <<g>> \in Seq(RFrame) /\ Len(<<g>>) = 1 /\ <<g>>[1] = g /\ 1..1 = {1} OBVIOUS
  <1>2. Silent(<<g>>) BY <1>1 DEF Silent
  <1> QED BY <1>2, ToldOne DEF Sounds

\* No frame says nothing.
LEMMA SoundsNone == Sounds(<<>>, <<>>)
  BY ToldNone DEF Sounds, Silent

\* What is said one after the other.
LEMMA SoundsBoth ==
    ASSUME NEW a, NEW b, NEW t, NEW u, Sounds(a, t), Sounds(b, u)
    PROVE  Sounds(a \o b, t \o u) /\ t \in Seq(Int) /\ u \in Seq(Int)
  <1>1. a \in Seq(RFrame) /\ b \in Seq(RFrame) /\ ToldText(a) = t /\ ToldText(b) = u
    BY DEF Sounds, Silent
  <1>2. ToldText(a \o b) = t \o u /\ t \in Seq(Int) /\ u \in Seq(Int) /\ a \o b \in Seq(RFrame)
    BY <1>1, ToldBoth
  <1>3. Len(a) \in Nat /\ Len(b) \in Nat /\ Len(a \o b) = Len(a) + Len(b)
        /\ (\A i \in 1..Len(a) : (a \o b)[i] = a[i])
        /\ \A i \in 1..Len(b) : (a \o b)[Len(a) + i] = b[i]
    BY <1>1
  <1> DEFINE c == a \o b
  <1> HIDE DEF c
  <1>4. ASSUME NEW i \in 1..Len(c) PROVE c[i].id = 0 /\ c[i].kind # "call"
    <2>1. CASE i <= Len(a)
      <3>1. i \in 1..Len(a) /\ c[i] = a[i] BY <1>3, <2>1 DEF c
      <3> QED BY <3>1 DEF Sounds, Silent
    <2>2. CASE i > Len(a)
      <3>1. i - Len(a) \in 1..Len(b) /\ i = Len(a) + (i - Len(a)) BY <1>3, <2>2 DEF c
      <3>2. c[i] = b[i - Len(a)] BY <1>3, <3>1 DEF c
      <3> QED BY <3>1, <3>2 DEF Sounds, Silent
    <2> QED BY <1>3, <2>1, <2>2 DEF c
  <1>5. Silent(c) BY <1>2, <1>4 DEF Silent, c
  <1> QED BY <1>2, <1>5 DEF Sounds, c

\* They leave the calls alone.
LEMMA SilentAfter ==
    ASSUME NEW s, Owners(s), NEW a, NEW t, Sounds(a, t)
    PROVE  /\ Owners(s \o a) /\ ToldText(s \o a) = ToldText(s) \o t
           /\ \A c \in CallId : Owned(s \o a, c) = Owned(s, c) /\ ToldArgs(s \o a, c) = ToldArgs(s, c)
  <1> DEFINE u == s \o a
  <1>1. s \in Seq(RFrame) /\ a \in Seq(RFrame) /\ ToldText(a) = t BY DEF Owners, Sounds, Silent
  <1>2. /\ u \in Seq(RFrame) /\ ToldText(u) = ToldText(s) \o t
        /\ \A S : AtPlaces(u, S) = AtPlaces(s, S) \o AtPlaces(a, S) /\ AtPlaces(s, S) \in Seq(Int)
    BY <1>1, ToldBoth, ZenonT(60)
  <1>3. \A S : AtPlaces(a, S) = <<>>
    <2> SUFFICES ASSUME NEW S PROVE AtPlaces(a, S) = <<>> OBVIOUS
    <2> DEFINE g == [v \in RFrame |-> <<>>]
    <2>1. \A v \in RFrame : g[v] = <<>> OBVIOUS
    <2>2. Makes(g, RFrame, Seq(Int))
      <3>1. g \in [RFrame -> Seq(Int)] OBVIOUS
      <3> QED BY <3>1 DEF Makes
    <2>3. DOMAIN a = 1..Len(a) /\ \A i \in 1..Len(a) : a[i] \in RFrame /\ a[i].kind # "call"
      BY <1>1 DEF Sounds, Silent
    <2>4. Each(OfPlaces(S), a) = Each(g, a) BY <2>1, <2>3 DEF Each, OfPlaces
    <2> HIDE DEF g
    <2>5. Flat(g, a) = <<>> BY <1>1, <2>1, <2>2, FlatNothing
    <2> QED BY <2>4, <2>5 DEF AtPlaces, Flat
  <1>4. \A c \in CallId : Owned(a, c) = {} BY DEF Sounds, Silent, Owned, CallId
  <1>5. \A c : Owned(u, c) = Owned(s, c) \union Owned(a, c) BY <1>1, OwnedBoth
  <1>6. \A c \in CallId : Owned(u, c) = Owned(s, c) BY <1>4, <1>5
  <1>7. Len(s) \in Nat /\ Len(a) \in Nat /\ Len(u) = Len(s) + Len(a)
        /\ (\A i \in 1..Len(s) : u[i] = s[i])
        /\ \A i \in 1..Len(a) : u[Len(s) + i] = a[i]
    BY <1>1
  <1> HIDE DEF u
  <1>8. ASSUME NEW c \in CallId PROVE ToldArgs(u, c) = ToldArgs(s, c)
    <2> DEFINE S == Owned(s, c)
    <2>1. Owned(u, c) = S BY <1>6
    <2> HIDE DEF S
    <2>2. AtPlaces(u, S) = AtPlaces(s, S) \o <<>> /\ AtPlaces(s, S) \in Seq(Int) BY <1>2, <1>3
    <2>3. AtPlaces(u, S) = AtPlaces(s, S) BY <2>2
    <2> QED BY <2>1, <2>3 DEF ToldArgs, S
  <1>9. Owners(u)
    <2>1. \A c, e \in CallId : Owned(u, c) \cap Owned(u, e) # {} => c = e BY <1>6 DEF Owners
    <2>2. ASSUME NEW i \in 1..Len(u), u[i].kind = "call" PROVE \E e \in CallId : u[i].at \in Owned(u, e)
      <3>1. CASE i <= Len(s)
        <4>1. i \in 1..Len(s) /\ u[i] = s[i] BY <1>7, <3>1
        <4>2. PICK e \in CallId : s[i].at \in Owned(s, e) BY <2>2, <4>1 DEF Owners
        <4> QED BY <1>6, <4>1, <4>2
      <3>2. CASE i > Len(s)
        <4>1. i - Len(s) \in 1..Len(a) /\ i = Len(s) + (i - Len(s)) BY <1>7, <3>2
        <4>2. u[i] = a[i - Len(s)] BY <1>7, <4>1
        <4> QED BY <2>2, <4>1, <4>2 DEF Sounds, Silent
      <3> QED BY <1>7, <3>1, <3>2
    <2> QED BY <1>2, <2>1, <2>2 DEF Owners
  <1> QED BY <1>2, <1>6, <1>8, <1>9 DEF u

\* The first k of the frames q are calls of their own, told after the frames s.
Apart(q) ==
    /\ q \in Seq(RFrame)
    /\ \A i \in 1..Len(q) : q[i].kind = "call" /\ q[i].id \in CallId
    /\ \A i, j \in 1..Len(q) : q[i].id = q[j].id \/ q[i].at = q[j].at => i = j
AllTold(s, t, q, k) ==
    /\ Owners(t) /\ ToldText(t) = ToldText(s)
    /\ \A j \in 1..k : Owned(t, q[j].id) = {q[j].at} /\ ToldArgs(t, q[j].id) = q[j].piece
    /\ \A c \in CallId : (\A j \in 1..k : q[j].id # c) => Owned(t, c) = {} /\ ToldArgs(t, c) = <<>>

\* One call of its own more.
LEMMA CallMore ==
    ASSUME NEW s, NEW t, NEW q, NEW k \in Nat, Apart(q), k + 1 <= Len(q), AllTold(s, t, q, k)
    PROVE  AllTold(s, t \o <<q[k + 1]>>, q, k + 1)
  <1> DEFINE g == q[k + 1]
             c == g.id
             u == t \o <<g>>
  <1>1. k + 1 \in 1..Len(q) /\ \A j \in 1..k : j \in 1..Len(q) /\ j # k + 1
    BY DEF Apart
  <1>2. g \in RFrame /\ g.kind = "call" /\ c \in CallId BY <1>1 DEF Apart
  <1>3. \A j \in 1..k : q[j].id # c /\ q[j].at # g.at BY <1>1 DEF Apart
  <1>4. Owned(t, c) = {} /\ ToldArgs(t, c) = <<>> BY <1>2, <1>3 DEF AllTold
  <1>5. \A e \in CallId \ {c} : g.at \notin Owned(t, e)
    <2> SUFFICES ASSUME NEW e \in CallId \ {c} PROVE g.at \notin Owned(t, e) OBVIOUS
    <2>1. CASE \A j \in 1..k : q[j].id # e BY <2>1 DEF AllTold
    <2>2. ASSUME NEW j \in 1..k, q[j].id = e PROVE g.at \notin Owned(t, e)
      <3>1. Owned(t, q[j].id) = {q[j].at} BY DEF AllTold
      <3> QED BY <1>3, <2>2, <3>1
    <2> QED BY <2>1, <2>2
  <1>6. Owners(t) /\ ToldText(t) = ToldText(s) BY DEF AllTold
  <1>0. g.piece \in Seq(Int) BY <1>2 DEF RFrame
  <1> HIDE DEF g
  <1>7. /\ Owners(u) /\ ToldText(u) = ToldText(t)
        /\ Owned(u, c) = Owned(t, c) \union {g.at}
        /\ ToldArgs(u, c) = ToldArgs(t, c) \o g.piece
        /\ \A e \in CallId \ {c} : Owned(u, e) = Owned(t, e) /\ ToldArgs(u, e) = ToldArgs(t, e)
    BY <1>2, <1>5, <1>6, FrameMore
  <1> HIDE DEF u, c
  <1>8. Owned(u, c) = {g.at} /\ ToldArgs(u, c) = g.piece
    <2>1. <<>> \o g.piece = g.piece BY <1>0
    <2> QED BY <1>4, <1>7, <2>1
  <1>9. ASSUME NEW j \in 1..(k + 1) PROVE Owned(u, q[j].id) = {q[j].at} /\ ToldArgs(u, q[j].id) = q[j].piece
    <2>1. CASE j = k + 1 BY <1>8, <2>1 DEF g, c
    <2>2. CASE j # k + 1
      <3>1. j \in 1..k /\ q[j].id # c BY <1>3, <2>2
      <3>2. q[j].id \in CallId BY <1>1, <3>1 DEF Apart
      <3>3. Owned(t, q[j].id) = {q[j].at} /\ ToldArgs(t, q[j].id) = q[j].piece BY <3>1 DEF AllTold
      <3> QED BY <1>7, <3>1, <3>2, <3>3
    <2> QED BY <2>1, <2>2
  <1>10. ASSUME NEW e \in CallId, \A j \in 1..(k + 1) : q[j].id # e
         PROVE  Owned(u, e) = {} /\ ToldArgs(u, e) = <<>>
    <2>1. e # c BY <1>10 DEF c, g
    <2>2. \A j \in 1..k : q[j].id # e BY <1>10
    <2>3. Owned(t, e) = {} /\ ToldArgs(t, e) = <<>> BY <2>2 DEF AllTold
    <2> QED BY <1>7, <2>1, <2>3
  <1>11. AllTold(s, u, q, k + 1) BY <1>6, <1>7, <1>9, <1>10 DEF AllTold
  <1> QED BY <1>11 DEF u, g

\* Calls of their own are heard as they are told.
LEMMA CallsMore ==
    ASSUME NEW s, Owners(s), \A c \in CallId : Owned(s, c) = {} /\ ToldArgs(s, c) = <<>>,
           NEW q, Apart(q)
    PROVE  AllTold(s, s \o q, q, Len(q))
  <1> DEFINE len == Len(q)
             t(i) == SubSeq(q, 1, i)
             good == {i \in Nat : AllTold(s, s \o t(i), q, i)}
  <1>1. len \in Nat /\ t(0) = <<>> /\ t(len) = q /\ s \in Seq(RFrame) /\ q \in Seq(RFrame)
        /\ s \o <<>> = s
    BY DEF Apart, Owners
  <1>2. \A i \in 1..len : t(i) = t(i - 1) \o <<q[i]>> /\ t(i - 1) \in Seq(RFrame) /\ <<q[i]>> \in Seq(RFrame)
    BY <1>1, OneFurther
  <1>3. AllTold(s, s \o t(0), q, 0)
    <2>1. \A j : j \notin 1..0 OBVIOUS
    <2>2. s \o t(0) = s BY <1>1
    <2> HIDE DEF t
    <2> QED BY <2>1, <2>2 DEF AllTold
  <1> HIDE DEF t, len
  <1>4. ASSUME NEW j \in 1..len, j - 1 \in good PROVE j \in good
    <2> DEFINE k == j - 1
    <2>3. k \in Nat /\ j = k + 1 /\ j <= Len(q) BY <1>1 DEF len
    <2>4. AllTold(s, s \o t(k), q, k) BY <1>4
    <2>5. t(j) = t(k) \o <<q[j]>> /\ t(k) \in Seq(RFrame) /\ <<q[j]>> \in Seq(RFrame) BY <1>2
    <2> HIDE DEF k
    <2>6. AllTold(s, (s \o t(k)) \o <<q[k + 1]>>, q, k + 1)
      <3> DEFINE u == s \o t(k)
      <3>1. AllTold(s, u, q, k) BY <2>4
      <3> HIDE DEF u
      <3>2. AllTold(s, u \o <<q[k + 1]>>, q, k + 1) BY <2>3, <3>1, CallMore
      <3> QED BY <3>2 DEF u
    <2> DEFINE a == t(k)
               b == <<q[j]>>
    <2>7. (s \o a) \o b = s \o (a \o b)
      <3> HIDE DEF a, b
      <3>1. a \in Seq(RFrame) /\ b \in Seq(RFrame) BY <2>5 DEF a, b
      <3> QED BY <1>1, <3>1, Regroup, SMTT(60)
    <2>8. (s \o t(k)) \o <<q[k + 1]>> = s \o t(j) BY <2>3, <2>5, <2>7
    <2>9. AllTold(s, s \o t(j), q, j) BY <2>3, <2>6, <2>8
    <2> QED BY <2>9
  <1>5. 0 \in good BY <1>3
  <1>6. len \in good
    <2>1. len \in Nat BY <1>1
    <2> HIDE DEF good
    <2> QED BY <2>1, <1>4, <1>5, Climb
  <1> QED BY <1>1, <1>6 DEF len

-------------------------------------------------------------------------------
(* What each writer keeps: the text so far, the arguments args of each call, *)
(* and the calls K whose id the client or the writer has.                    *)

\* The calls' places in the frames are these at most, and the fragments there args.
OpenAIKeeps(s, text, args, K) ==
    /\ Owners(s) /\ ToldText(s) = text
    /\ \A c \in CallId : Owned(s, c) \subseteq {IndexOf(c)} /\ ToldArgs(s, c) = args[c]
    /\ \A c \in K : IndexOf(c) \in Owned(s, c)

\* One piece more of call c.
More(args, c, piece) == [e \in CallId |-> IF e = c THEN args[e] \o piece ELSE args[e]]

\* WriteOpenAIStream on a text or a thought.
LEMMA OpenAIText ==
    ASSUME NEW s, NEW text, NEW args, NEW K \in SUBSET CallId, OpenAIKeeps(s, text, args, K),
           NEW kind \in {"text", "reason"}, NEW piece \in Seq(Int)
    PROVE  OpenAIKeeps(s \o WriteOpenAI(Delta(kind, None, 0, piece)).add,
                       IF kind = "text" THEN text \o piece ELSE text, args, K)
  <1> DEFINE g == Frame(kind, None, 0, piece)
             t == s \o <<g>>
             u == IF kind = "text" THEN piece ELSE <<>>
  <1>1. WriteOpenAI(Delta(kind, None, 0, piece)).add = <<g>>
    BY DEF WriteOpenAI, Wrote, Delta, Frame
  <1>2. g \in RFrame /\ g.id = 0 /\ g.kind = kind /\ g.piece = piece
    BY DEF Frame, Delta, RFrame, None
  <1> HIDE DEF g
  <1>3. Sounds(<<g>>, u) BY <1>2, SoundsOne
  <1>4. Owners(s) /\ ToldText(s) = text BY DEF OpenAIKeeps
  <1>5. /\ Owners(t) /\ ToldText(t) = text \o u
        /\ \A c \in CallId : Owned(t, c) = Owned(s, c) /\ ToldArgs(t, c) = ToldArgs(s, c)
    <2> HIDE DEF u
    <2> QED BY <1>3, <1>4, SilentAfter
  <1>6. text \in Seq(Int)
    <2>1. s \in Seq(RFrame) BY <1>4 DEF Owners
    <2> QED BY <1>4, <2>1, ToldBoth
  <1>7. text \o u = IF kind = "text" THEN text \o piece ELSE text BY <1>6
  <1> HIDE DEF t, u
  <1>8. \A c \in CallId : Owned(t, c) \subseteq {IndexOf(c)} /\ ToldArgs(t, c) = args[c]
    BY <1>5 DEF OpenAIKeeps
  <1>9. \A c \in K : IndexOf(c) \in Owned(s, c) BY DEF OpenAIKeeps
  <1>10. \A c \in K : IndexOf(c) \in Owned(t, c) BY <1>5, <1>9
  <1>11. OpenAIKeeps(t, text \o u, args, K) BY <1>5, <1>8, <1>10 DEF OpenAIKeeps
  <1> QED BY <1>1, <1>7, <1>11 DEF t

\* WriteOpenAIStream on a call.
LEMMA OpenAICall ==
    ASSUME NEW s, NEW text, NEW args, NEW K \in SUBSET CallId, OpenAIKeeps(s, text, args, K),
           NEW c \in CallId, NEW id \in {0, c}, id = 0 => c \in K, NEW piece \in Seq(Int)
    PROVE  OpenAIKeeps(s \o WriteOpenAI(CallDelta(IndexOf(c), id, piece)).add, text,
                       More(args, c, piece), K \union {c})
  <1> DEFINE at == IndexOf(c)
             g == Frame("call", at, id, piece)
             t == s \o <<g>>
  <1>1. WriteOpenAI(CallDelta(at, id, piece)).add = <<g>>
    BY DEF WriteOpenAI, Wrote, CallDelta, Delta, Frame
  <1>2. at \in Int /\ c \in Nat /\ c # 0 /\ \A e \in CallId : IndexOf(e) = at => e = c
    BY IndexIsIndex DEF Index
  <1> HIDE DEF at
  <1>3. g \in RFrame /\ g.id = id /\ g.kind = "call" /\ g.at = at /\ g.piece = piece
    BY <1>2 DEF Frame, Delta, RFrame
  <1> HIDE DEF g
  <1>4. Owners(s) /\ ToldText(s) = text /\ \A e \in CallId : Owned(s, e) \subseteq {IndexOf(e)}
    BY DEF OpenAIKeeps
  <1>5. \A e \in CallId \ {c} : at \notin Owned(s, e) BY <1>2, <1>4
  <1>6. id = 0 => at \in Owned(s, c) BY DEF OpenAIKeeps, at
  <1>7. /\ Owners(t) /\ ToldText(t) = text
        /\ Owned(t, c) = IF id = c THEN Owned(s, c) \union {at} ELSE Owned(s, c)
        /\ ToldArgs(t, c) = ToldArgs(s, c) \o piece
        /\ \A e \in CallId \ {c} : Owned(t, e) = Owned(s, e) /\ ToldArgs(t, e) = ToldArgs(s, e)
    <2>1. Owners(s) /\ ToldText(s) = text BY <1>4
    <2>2. CASE id = c
      <3>1. g \in RFrame /\ g.id = c /\ g.kind = "call" /\ \A e \in CallId \ {c} : g.at \notin Owned(s, e)
        BY <1>3, <1>5, <2>2
      <3>2. /\ Owners(t) /\ ToldText(t) = ToldText(s) /\ Owned(t, c) = Owned(s, c) \union {g.at}
            /\ ToldArgs(t, c) = ToldArgs(s, c) \o g.piece
            /\ \A e \in CallId \ {c} : Owned(t, e) = Owned(s, e) /\ ToldArgs(t, e) = ToldArgs(s, e)
        BY <2>1, <3>1, FrameMore
      <3> QED BY <1>3, <2>1, <2>2, <3>2
    <2>3. CASE id # c
      <3>1. g.id = 0 /\ g.id # c /\ at \in Owned(s, c) BY <1>3, <1>6, <2>3
      <3> QED BY <1>3, <2>1, <2>3, <3>1, FrameMore
    <2> QED BY <2>2, <2>3
  <1> HIDE DEF t
  <1>8. \A e \in CallId : Owned(t, e) \subseteq {IndexOf(e)} BY <1>4, <1>7 DEF at
  <1>9. ASSUME NEW e \in CallId PROVE ToldArgs(t, e) = More(args, c, piece)[e]
    <2>1. ToldArgs(s, e) = args[e] BY DEF OpenAIKeeps
    <2> QED BY <1>7, <2>1 DEF More
  <1>10. ASSUME NEW e \in K \union {c} PROVE IndexOf(e) \in Owned(t, e)
    <2>1. CASE e = c BY <1>6, <1>7, <2>1 DEF at
    <2>2. CASE e # c
      <3>1. e \in CallId \ {c} /\ IndexOf(e) \in Owned(s, e) BY <2>2 DEF OpenAIKeeps
      <3> QED BY <1>7, <3>1
    <2> QED BY <2>1, <2>2
  <1>11. OpenAIKeeps(t, text, More(args, c, piece), K \union {c})
    BY <1>7, <1>8, <1>9, <1>10 DEF OpenAIKeeps
  <1> QED BY <1>1, <1>11 DEF t, at

\* What the Anthropic writer's frames say of a text, besides their blocks.
LEMMA ClosingSays ==
    ASSUME NEW y, AWriter(y)
    PROVE  Sounds(CloseBlock(y).add, <<>>) /\ CloseBlock(y).x.block = y.block
  <1> DEFINE stop == Frame("stop", y.block, 0, <<>>)
             sig == Frame("signature", y.block, 0, <<>>)
             z == [y EXCEPT !.open = "none", !.cur = None]
  <1>1. CASE y.open = "none"
    <2>1. CloseBlock(y) = Wrote(y, <<>>) BY <1>1 DEF CloseBlock
    <2> QED BY <2>1, SoundsNone DEF Wrote
  <1>2. CASE y.open # "none"
    <2>1. stop \in RFrame /\ sig \in RFrame /\ stop.kind = "stop" /\ sig.kind = "signature"
          /\ stop.id = 0 /\ sig.id = 0
      <3>1. y.block \in Int BY DEF AWriter
      <3> QED BY <3>1 DEF Frame, Delta, RFrame
    <2>2. z.block = y.block BY DEF AWriter
    <2>3. CloseBlock(y).x = z
          /\ CloseBlock(y).add = (IF y.open = "think" THEN <<sig>> ELSE <<>>) \o <<stop>>
      BY <1>2 DEF CloseBlock, Wrote
    <2> HIDE DEF stop, sig, z
    <2>4. Sounds(<<stop>>, <<>>) /\ Sounds(<<sig>>, <<>>)
      <3>1. Sounds(<<stop>>, IF stop.kind = "text" THEN stop.piece ELSE <<>>) BY <2>1, SoundsOne
      <3>2. Sounds(<<sig>>, IF sig.kind = "text" THEN sig.piece ELSE <<>>) BY <2>1, SoundsOne
      <3> QED BY <2>1, <3>1, <3>2
    <2>5. Sounds(<<sig>> \o <<stop>>, <<>> \o <<>>) BY <2>4, SoundsBoth
    <2>6. <<>> \o <<>> = <<>> /\ <<>> \o <<stop>> = <<stop>> OBVIOUS
    <2> QED BY <2>2, <2>3, <2>4, <2>5, <2>6
  <1> QED BY <1>1, <1>2

\* The frame that opens a block.
LEMMA OpeningSays ==
    ASSUME NEW y, AWriter(y), NEW kind \in {"text", "think", "call"}, NEW at,
           IF kind = "call" THEN at \in Index ELSE at = None
    PROVE  LET w == OpenBlock(y, kind, at)
           IN  /\ w.x.block = y.block + 1
               /\ \E g \in RFrame :
                    /\ w.add = <<g>> /\ g.kind = "start" /\ g.at = y.block + 1
                    /\ g.id = IF kind = "call" THEN y.ids[at] ELSE 0
               /\ kind # "call" => Sounds(w.add, <<>>)
  <1> DEFINE g == Frame("start", y.block + 1, IF kind = "call" THEN y.ids[at] ELSE 0, <<>>)
             z == [y EXCEPT !.block = @ + 1, !.open = kind, !.cur = at]
  <1>1. g \in RFrame /\ g.kind = "start" /\ g.at = y.block + 1
        /\ g.id = IF kind = "call" THEN y.ids[at] ELSE 0
    <2>1. y.block \in Int /\ (kind = "call" => y.ids[at] \in Nat) BY DEF AWriter
    <2> QED BY <2>1 DEF Frame, Delta, RFrame
  <1>2. z.block = y.block + 1 BY DEF AWriter
  <1>3. OpenBlock(y, kind, at).x = z /\ OpenBlock(y, kind, at).add = <<g>> BY DEF OpenBlock, Wrote
  <1> HIDE DEF g, z
  <1>4. kind # "call" => Sounds(<<g>>, <<>>)
    <2> SUFFICES ASSUME kind # "call" PROVE Sounds(<<g>>, <<>>) OBVIOUS
    <2>1. Sounds(<<g>>, IF g.kind = "text" THEN g.piece ELSE <<>>) BY <1>1, SoundsOne
    <2> QED BY <1>1, <2>1
  <1> QED BY <1>1, <1>2, <1>3, <1>4

\* emitText says its piece, emitThinking no text.
LEMMA EmittingSays ==
    ASSUME NEW y, AWriter(y), NEW kind \in {"text", "think"}, NEW frame \in {"text", "reason"},
           NEW piece \in Seq(Int)
    PROVE  /\ Sounds(Emit(y, kind, frame, piece).add, IF frame = "text" THEN piece ELSE <<>>)
           /\ Emit(y, kind, frame, piece).x.block >= y.block
  <1> DEFINE closed == CloseBlock(y)
             o == OpenBlock(closed.x, kind, None)
             opened == IF y.open = kind THEN Wrote(y, <<>>) ELSE AndThen(closed, o)
             g == Frame(frame, opened.x.block, 0, piece)
             last == Wrote(opened.x, <<g>>)
             spoken == IF frame = "text" THEN piece ELSE <<>>
  <1>0. y.block \in Int BY DEF AWriter
  <1>1. Emit(y, kind, frame, piece) = AndThen(opened, last) BY DEF Emit
  <1>2. Sounds(opened.add, <<>>) /\ opened.x.block >= y.block /\ opened.x.block \in Int
    <2>1. CASE y.open = kind
      <3>1. opened.x = y /\ opened.add = <<>> BY <2>1 DEF Wrote
      <3> QED BY <1>0, <3>1, SoundsNone
    <2>2. CASE y.open # kind
      <3>1. opened.x = o.x /\ opened.add = closed.add \o o.add BY <2>2 DEF AndThen
      <3>2. Sounds(closed.add, <<>>) /\ closed.x.block = y.block BY ClosingSays
      <3>3. AWriter(closed.x)
        <4>1. Good(y, closed) BY Closing
        <4> QED BY <4>1 DEF Good
      <3> HIDE DEF opened, closed
      <3>4. o.x.block = closed.x.block + 1 /\ Sounds(o.add, <<>>)
        <4>1. kind # "call" OBVIOUS
        <4> QED BY <3>3, <4>1, OpeningSays
      <3> HIDE DEF o
      <3>5. Sounds(closed.add \o o.add, <<>> \o <<>>) BY <3>2, <3>4, SoundsBoth
      <3>6. <<>> \o <<>> = <<>> OBVIOUS
      <3> QED BY <1>0, <3>1, <3>2, <3>4, <3>5, <3>6
    <2> QED BY <2>1, <2>2
  <1> HIDE DEF opened
  <1>3. Sounds(<<g>>, spoken)
    <2>1. g \in RFrame /\ g.id = 0 /\ g.kind = frame /\ g.piece = piece /\ frame # "call"
      BY <1>2 DEF Frame, Delta, RFrame
    <2> HIDE DEF g
    <2>2. Sounds(<<g>>, IF g.kind = "text" THEN g.piece ELSE <<>>) BY <2>1, SoundsOne
    <2> QED BY <2>1, <2>2
  <1>4. AndThen(opened, last).x = opened.x /\ AndThen(opened, last).add = opened.add \o <<g>>
    BY DEF AndThen, Wrote
  <1> HIDE DEF g, last, spoken
  <1>5. Sounds(opened.add \o <<g>>, <<>> \o spoken) /\ spoken \in Seq(Int) BY <1>2, <1>3, SoundsBoth
  <1>6. <<>> \o spoken = spoken BY <1>5
  <1>7. Sounds(AndThen(opened, last).add, spoken) /\ AndThen(opened, last).x.block >= y.block
    BY <1>2, <1>4, <1>5, <1>6
  <1> QED BY <1>1, <1>7 DEF spoken

\* closeBlock says the text that was held back, and holds none.
LEMMA FlushingSays ==
    ASSUME NEW y, AWriter(y)
    PROVE  /\ Sounds(EmitHeld(y).add, y.held) /\ EmitHeld(y).x.held = <<>>
           /\ EmitHeld(y).x.block >= y.block
  <1> DEFINE closed == CloseBlock(y)
             z == [closed.x EXCEPT !.held = <<>>]
             held == Emit(z, "text", "text", y.held)
             shut == CloseBlock(held.x)
  <1>0. y.block \in Int /\ y.held \in Seq(Int) BY DEF AWriter
  <1>1. Good(y, closed) /\ closed.x.held = y.held BY Closing
  <1>2. Sounds(closed.add, <<>>) /\ closed.x.block = y.block BY ClosingSays
  <1>3. CASE y.held = <<>>
    <2>1. EmitHeld(y) = closed BY <1>3 DEF EmitHeld
    <2> QED BY <1>0, <1>1, <1>2, <1>3, <2>1
  <1>4. CASE y.held # <<>>
    <2>1. EmitHeld(y) = AndThen(closed, AndThen(held, shut)) BY <1>4 DEF EmitHeld
    <2>2. EmitHeld(y).x = shut.x /\ EmitHeld(y).add = closed.add \o (held.add \o shut.add)
      <3> HIDE DEF closed, held, shut
      <3> DEFINE u == AndThen(held, shut)
      <3>1. u.x = shut.x /\ u.add = held.add \o shut.add BY Then
      <3>2. EmitHeld(y) = AndThen(closed, u) BY <2>1
      <3> HIDE DEF u
      <3>3. AndThen(closed, u).x = u.x /\ AndThen(closed, u).add = closed.add \o u.add BY Then
      <3> QED BY <3>1, <3>2, <3>3
    <2>3. AWriter(closed.x) BY <1>1 DEF Good
    <2> HIDE DEF closed
    <2>4. AWriter(z) /\ z.block = closed.x.block /\ z.held = <<>> BY <2>3 DEF AWriter
    <2> HIDE DEF z
    <2>5. Sounds(held.add, y.held) /\ held.x.block >= z.block /\ Good(z, held) /\ held.x.held = z.held
      BY <1>0, <2>4, EmittingSays, Emitting
    <2> HIDE DEF held
    <2>6. AWriter(held.x) BY <2>5 DEF Good
    <2>7. Sounds(shut.add, <<>>) /\ shut.x.block = held.x.block /\ shut.x.held = held.x.held
      BY <2>6, ClosingSays, Closing
    <2> HIDE DEF shut
    <2>8. Sounds(held.add \o shut.add, y.held \o <<>>) BY <2>5, <2>7, SoundsBoth
    <2>9. Sounds(closed.add \o (held.add \o shut.add), <<>> \o (y.held \o <<>>))
      BY <1>2, <2>8, SoundsBoth
    <2>10. <<>> \o (y.held \o <<>>) = y.held BY <1>0
    <2> QED BY <1>0, <1>2, <2>2, <2>4, <2>5, <2>7, <2>9, <2>10
  <1> QED BY <1>3, <1>4

\* The text is what the frames say and what is held back; a call has no block yet
\* to come, and the one the writer is in has the block that is open.
AnthropicKeeps(y, s, text, args, K) ==
    /\ AWriter(y) /\ Owners(s) /\ ToldText(s) \o y.held = text
    /\ y.cur = None => y.held = <<>>
    /\ \A c \in CallId : ToldArgs(s, c) = args[c] /\ \A at \in Owned(s, c) : at <= y.block
    /\ \A c \in CallId : y.ids[IndexOf(c)] \in {0, c}
    /\ \A c \in K : y.ids[IndexOf(c)] = c
    /\ y.cur # None => \E c \in K : y.cur = IndexOf(c) /\ y.block \in Owned(s, c)

\* Its parts, typed.
LEMMA AnthropicParts ==
    ASSUME NEW y, NEW s, NEW text, NEW args, NEW K \in SUBSET CallId, AnthropicKeeps(y, s, text, args, K)
    PROVE  /\ AWriter(y) /\ y.block \in Int /\ y.held \in Seq(Int) /\ y.ids \in [Index -> Nat]
           /\ Owners(s) /\ s \in Seq(RFrame) /\ ToldText(s) \in Seq(Int) /\ text \in Seq(Int)
           /\ \A c \in CallId : Owned(s, c) \in SUBSET Int
  <1>1. AWriter(y) /\ Owners(s) /\ ToldText(s) \o y.held = text BY DEF AnthropicKeeps
  <1>2. y.block \in Int /\ y.held \in Seq(Int) /\ y.ids \in [Index -> Nat] /\ s \in Seq(RFrame)
    BY <1>1 DEF AWriter, Owners
  <1>3. ToldText(s) \in Seq(Int) BY <1>2, ToldBoth
  <1>4. text \in Seq(Int)
    <2> DEFINE b == ToldText(s)
               h == y.held
    <2>1. b \in Seq(Int) /\ h \in Seq(Int) BY <1>2, <1>3
    <2>2. b \o h = text BY <1>1
    <2> HIDE DEF b, h
    <2>3. b \o h \in Seq(Int) BY <2>1
    <2> QED BY <2>2, <2>3, Zenon
  <1>5. \A c : Owned(s, c) \in SUBSET Int
    <2>1. \A i \in 1..Len(s) : s[i] \in RFrame BY <1>2
    <2>2. \A g \in RFrame : g.at \in Int BY DEF RFrame
    <2> QED BY <2>1, <2>2 DEF Owned
  <1> QED BY <1>1, <1>2, <1>3, <1>4, <1>5

\* Frames of no call, after which the writer is in none.
LEMMA AnthropicSays ==
    ASSUME NEW y, NEW s, NEW text, NEW args, NEW K \in SUBSET CallId, AnthropicKeeps(y, s, text, args, K),
           NEW z, AWriter(z), z.ids = y.ids, z.block >= y.block, z.cur = None, z.held = <<>>,
           NEW a, NEW t, Sounds(a, t)
    PROVE  AnthropicKeeps(z, s \o a, ToldText(s) \o t, args, K)
  <1> DEFINE u == s \o a
             b == ToldText(s) \o t
  <1>1. y.block \in Int /\ z.block \in Int /\ Owners(s) /\ ToldText(s) \in Seq(Int)
        /\ \A c \in CallId : Owned(s, c) \in SUBSET Int
    BY AnthropicParts DEF AWriter
  <1>2. /\ Owners(u) /\ ToldText(u) = b
        /\ \A c \in CallId : Owned(u, c) = Owned(s, c) /\ ToldArgs(u, c) = ToldArgs(s, c)
    BY <1>1, SilentAfter
  <1>3. b \o <<>> = b
    <2>1. t \in Seq(Int) BY SoundsNone, SoundsBoth
    <2> QED BY <1>1, <2>1
  <1> HIDE DEF u, b
  <1>4. \A c \in CallId : ToldArgs(u, c) = args[c] /\ \A at \in Owned(u, c) : at <= z.block
    <2> SUFFICES ASSUME NEW c \in CallId
                 PROVE  ToldArgs(u, c) = args[c] /\ \A at \in Owned(u, c) : at <= z.block
      OBVIOUS
    <2>1. ToldArgs(s, c) = args[c] /\ \A at \in Owned(s, c) : at <= y.block BY DEF AnthropicKeeps
    <2> QED BY <1>1, <1>2, <2>1
  <1>5. /\ \A c \in CallId : z.ids[IndexOf(c)] \in {0, c}
        /\ \A c \in K : z.ids[IndexOf(c)] = c
    BY DEF AnthropicKeeps
  <1>6. AnthropicKeeps(z, u, b, args, K) BY <1>2, <1>3, <1>4, <1>5 DEF AnthropicKeeps
  <1> QED BY <1>6 DEF u, b

\* WriteAnthropicStream on a text or a thought.
LEMMA AnthropicText ==
    ASSUME NEW s, NEW text, NEW args, NEW K \in SUBSET CallId, AnthropicKeeps(x, s, text, args, K),
           NEW kind \in {"text", "reason"}, NEW piece \in Seq(Int)
    PROVE  LET w == WriteAnthropic(Delta(kind, None, 0, piece))
           IN  AnthropicKeeps(w.x, s \o w.add, IF kind = "text" THEN text \o piece ELSE text, args, K)
  <1> DEFINE d == Delta(kind, None, 0, piece)
             t == IF kind = "text" THEN piece ELSE <<>>
             more == IF kind = "text" THEN text \o piece ELSE text
  <1>1. d.kind = kind /\ d.piece = piece BY DEF Delta
  <1>2. /\ AWriter(x) /\ x.block \in Int /\ x.held \in Seq(Int) /\ Owners(s) /\ s \in Seq(RFrame)
        /\ ToldText(s) \in Seq(Int) /\ text \in Seq(Int)
    BY AnthropicParts
  <1>3. ToldText(s) \o x.held = text /\ (x.cur = None => x.held = <<>>) BY DEF AnthropicKeeps
  <1>4. s \o <<>> = s BY <1>2
  <1> HIDE DEF d
  <1>5. CASE x.cur # None /\ kind = "text"
    <2> DEFINE z == [x EXCEPT !.held = @ \o piece]
    <2>1. WriteAnthropic(d) = Wrote(z, <<>>)
      <3>1. WriteAnthropic(d) = HoldOrEmit(x, piece) BY <1>1, <1>5 DEF WriteAnthropic
      <3> QED BY <1>5, <3>1 DEF HoldOrEmit
    <2>2. WriteAnthropic(d).x = z /\ WriteAnthropic(d).add = <<>> BY <2>1 DEF Wrote
    <2>3. /\ AWriter(z) /\ z.cur = x.cur /\ z.block = x.block /\ z.ids = x.ids /\ z.held = x.held \o piece
      BY <1>2, SMTT(60) DEF AWriter
    <2> HIDE DEF z
    <2>4. ToldText(s) \o z.held = text \o piece
      <3> DEFINE b == ToldText(s)
                 h == x.held
      <3>1. b \in Seq(Int) /\ h \in Seq(Int) /\ b \o h = text BY <1>2, <1>3
      <3>2. z.held = h \o piece BY <2>3
      <3> HIDE DEF b, h
      <3>3. Triple(b, h, piece) BY <3>1, Triples
      <3>4. b \o z.held = text \o piece BY <3>1, <3>2, <3>3, Zenon DEF Triple
      <3> QED BY <3>4 DEF b
    <2>5. AnthropicKeeps(z, s, text \o piece, args, K)
      BY <1>5, <2>3, <2>4 DEF AnthropicKeeps
    <2> QED BY <1>4, <1>5, <2>2, <2>5 DEF d
  <1>6. CASE x.cur # None /\ kind = "reason"
    <2>1. WriteAnthropic(d) = Wrote(x, <<>>) BY <1>1, <1>6 DEF WriteAnthropic
    <2>2. WriteAnthropic(d).x = x /\ WriteAnthropic(d).add = <<>> BY <2>1 DEF Wrote
    <2> QED BY <1>4, <1>6, <2>2 DEF d
  <1>7. CASE x.cur = None
    <2> DEFINE k == IF kind = "text" THEN "text" ELSE "think"
               w == Emit(x, k, kind, piece)
    <2>1. WriteAnthropic(d) = w
      <3>1. kind = "text" => WriteAnthropic(d) = HoldOrEmit(x, piece) BY <1>1 DEF WriteAnthropic
      <3>2. kind = "reason" => WriteAnthropic(d) = Emit(x, "think", "reason", piece)
        BY <1>1, <1>7 DEF WriteAnthropic
      <3> QED BY <1>7, <3>1, <3>2 DEF HoldOrEmit
    <2>2. k \in {"text", "think"} OBVIOUS
    <2> HIDE DEF k
    <2>3. Sounds(w.add, t) /\ w.x.block >= x.block BY <1>2, <2>2, EmittingSays
    <2>4. Good(x, w) /\ w.x.cur = None /\ w.x.held = x.held BY <1>2, <2>2, Emitting
    <2>5. AWriter(w.x) /\ w.x.ids = x.ids /\ w.x.held = <<>> BY <1>3, <1>7, <2>4 DEF Good
    <2> HIDE DEF w, t
    <2>6. AnthropicKeeps(w.x, s \o w.add, ToldText(s) \o t, args, K)
      BY <2>3, <2>4, <2>5, AnthropicSays
    <2>7. ToldText(s) \o t = IF kind = "text" THEN text \o piece ELSE text
      <3> DEFINE b == ToldText(s)
      <3>1. b \in Seq(Int) /\ b \o <<>> = text BY <1>2, <1>3, <1>7
      <3> HIDE DEF b
      <3>2. b = text BY <3>1
      <3>3. b \o t = IF kind = "text" THEN text \o piece ELSE text BY <1>2, <3>2 DEF t
      <3> QED BY <3>3 DEF b
    <2> QED BY <2>1, <2>6, <2>7 DEF d
  <1> QED BY <1>5, <1>6, <1>7

\* A call that says its id is known.
LEMMA AnthropicKnows ==
    ASSUME NEW s, NEW text, NEW args, NEW K \in SUBSET CallId, AnthropicKeeps(x, s, text, args, K),
           NEW c \in CallId, NEW id \in {0, c}, id = 0 => c \in K, NEW piece
    PROVE  AnthropicKeeps(Identify(x, CallDelta(IndexOf(c), id, piece)), s, text, args, K \union {c})
  <1> DEFINE at == IndexOf(c)
             d == CallDelta(at, id, piece)
             z == [x EXCEPT !.ids[at] = id]
  <1>1. d.at = at /\ d.id = id BY DEF CallDelta, Delta
  <1>2. at \in Index /\ c # 0 /\ c \in Nat /\ \A e \in CallId : IndexOf(e) = at => e = c
    BY IndexIsIndex
  <1>3. AWriter(x) /\ x.ids \in [Index -> Nat] BY AnthropicParts
  <1>4. CASE id = 0
    <2>1. Identify(x, d) = x BY <1>1, <1>4 DEF Identify
    <2>2. K \union {c} = K BY <1>4
    <2> QED BY <2>1, <2>2
  <1>5. CASE id = c
    <2>1. Identify(x, d) = z BY <1>1, <1>2, <1>5 DEF Identify
    <2>2. /\ AWriter(z) /\ z.ids = [x.ids EXCEPT ![at] = c] /\ z.held = x.held /\ z.cur = x.cur
          /\ z.block = x.block
      <3> HIDE DEF at
      <3> QED BY <1>2, <1>3, <1>5 DEF AWriter
    <2> HIDE DEF z
    <2>3. \A e \in CallId : z.ids[IndexOf(e)] = IF e = c THEN c ELSE x.ids[IndexOf(e)]
      <3>1. \A e \in CallId : IndexOf(e) \in Index BY IndexIsIndex
      <3> HIDE DEF at
      <3>2. IndexOf(c) = at BY DEF at
      <3> QED BY <1>2, <1>3, <2>2, <3>1, <3>2
    <2>4. AnthropicKeeps(z, s, text, args, K \union {c})
      <3>1. \A e \in CallId : x.ids[IndexOf(e)] \in {0, e} BY DEF AnthropicKeeps
      <3>2. \A e \in K : x.ids[IndexOf(e)] = e BY DEF AnthropicKeeps
      <3>3. \A e \in CallId : z.ids[IndexOf(e)] \in {0, e} BY <2>3, <3>1
      <3>4. \A e \in K \union {c} : z.ids[IndexOf(e)] = e BY <2>3, <3>2
      <3>5. x.cur # None => \E e \in K : x.cur = IndexOf(e) /\ x.block \in Owned(s, e)
        BY DEF AnthropicKeeps
      <3>6. z.cur # None => \E e \in K \union {c} : z.cur = IndexOf(e) /\ z.block \in Owned(s, e)
        BY <2>2, <3>5
      <3>7. /\ ToldText(s) \o x.held = text /\ (x.cur = None => x.held = <<>>)
            /\ Owners(s)
            /\ \A e \in CallId : ToldArgs(s, e) = args[e] /\ \A p \in Owned(s, e) : p <= x.block
        BY DEF AnthropicKeeps
      <3> QED BY <2>2, <3>3, <3>4, <3>6, <3>7 DEF AnthropicKeeps
    <2> QED BY <2>1, <2>4
  <1> QED BY <1>4, <1>5

\* Going over to a call: what was held back is said, and its block is a new one.
LEMMA AnthropicSwitches ==
    ASSUME NEW y, NEW s, NEW text, NEW args, NEW K \in SUBSET CallId, AnthropicKeeps(y, s, text, args, K),
           NEW c \in K
    PROVE  LET w == SwitchCall(y, IndexOf(c))
           IN  AnthropicKeeps(w.x, s \o w.add, text, args, K) /\ w.x.cur = IndexOf(c)
  <1> DEFINE at == IndexOf(c)
             flushed == EmitHeld(y)
             f == flushed.x
             r == s \o flushed.add
             o == OpenBlock(f, "call", at)
  <1>1. at \in Index /\ at # None /\ c # 0 /\ c \in Nat /\ c \in CallId
        /\ \A e \in CallId : IndexOf(e) = at => e = c
    BY IndexIsIndex
  <1>2. AWriter(y) /\ y.block \in Int /\ s \in Seq(RFrame) BY AnthropicParts
  <1>3. CASE y.cur = at
    <2>1. SwitchCall(y, at) = Wrote(y, <<>>) BY <1>3 DEF SwitchCall
    <2>2. SwitchCall(y, at).x = y /\ SwitchCall(y, at).add = <<>> BY <2>1 DEF Wrote
    <2>3. s \o <<>> = s BY <1>2
    <2> QED BY <1>3, <2>2, <2>3
  <1>4. CASE y.cur # at
    <2>1. SwitchCall(y, at) = AndThen(flushed, o) BY <1>4 DEF SwitchCall
    <2>2. Sounds(flushed.add, y.held) /\ f.held = <<>> /\ f.block >= y.block BY <1>2, FlushingSays
    <2>3. Good(y, flushed) /\ f.open = "none" /\ f.cur = None BY <1>2, Flushing
    <2>4. AWriter(f) /\ f.ids = y.ids BY <2>3 DEF Good
    <2>5. SwitchCall(y, at).x = o.x /\ SwitchCall(y, at).add = flushed.add \o o.add BY <2>1, Then
    <2>6. AnthropicKeeps(f, r, text, args, K)
      <3>1. ToldText(s) \o y.held = text BY DEF AnthropicKeeps
      <3> HIDE DEF flushed
      <3>2. AnthropicKeeps(f, s \o flushed.add, ToldText(s) \o y.held, args, K)
        BY <2>2, <2>3, <2>4, AnthropicSays
      <3> QED BY <3>1, <3>2
    <2>0. flushed.add \in Seq(RFrame) BY <2>2 DEF Sounds, Silent
    <2> HIDE DEF flushed
    <2>7. o.x.block = f.block + 1 /\ \E g \in RFrame :
             o.add = <<g>> /\ g.kind = "start" /\ g.at = f.block + 1 /\ g.id = f.ids[at]
      <3> HIDE DEF at
      <3>1. "call" \in {"text", "think", "call"} OBVIOUS
      <3>2. /\ o.x.block = f.block + 1
            /\ \E g \in RFrame : /\ o.add = <<g>> /\ g.kind = "start" /\ g.at = f.block + 1
                                 /\ g.id = IF "call" = "call" THEN f.ids[at] ELSE 0
        BY <1>1, <2>4, <3>1, OpeningSays
      <3> QED BY <3>2
    <2>8. Good(f, o) /\ o.x.cur = at /\ o.x.held = f.held
      <3> HIDE DEF at
      <3>1. "call" \in {"text", "think", "call"} OBVIOUS
      <3> QED BY <1>1, <2>3, <2>4, <3>1, Opening
    <2>9. AWriter(o.x) /\ o.x.ids = f.ids BY <2>8 DEF Good
    <2>10. PICK g \in RFrame : o.add = <<g>> /\ g.kind = "start" /\ g.at = f.block + 1 /\ g.id = f.ids[at]
      BY <2>7
    <2>11. g.id = c BY <2>6, <2>10 DEF AnthropicKeeps
    <2>12. /\ Owners(r) /\ f.block \in Int /\ ToldText(r) = text /\ text \in Seq(Int)
           /\ \A e \in CallId : Owned(r, e) \in SUBSET Int
      <3>1. Owners(r) /\ f.block \in Int /\ ToldText(r) \in Seq(Int) /\ text \in Seq(Int)
            /\ \A e \in CallId : Owned(r, e) \in SUBSET Int
        BY <2>6, AnthropicParts
      <3>2. ToldText(r) \o <<>> = text BY <2>2, <2>6 DEF AnthropicKeeps
      <3> DEFINE b == ToldText(r)
      <3>3. b \in Seq(Int) /\ b \o <<>> = text BY <3>1, <3>2
      <3> HIDE DEF b
      <3>4. b = text BY <3>3
      <3> QED BY <3>1, <3>4 DEF b
    <2>13. \A e \in CallId : ToldArgs(r, e) = args[e] /\ \A p \in Owned(r, e) : p <= f.block
      BY <2>6 DEF AnthropicKeeps
    <2>14. \A e \in CallId \ {c} : g.at \notin Owned(r, e)
      <3> SUFFICES ASSUME NEW e \in CallId \ {c}, g.at \in Owned(r, e) PROVE FALSE OBVIOUS
      <3>1. g.at <= f.block BY <2>13
      <3> QED BY <2>10, <2>12, <3>1
    <2> DEFINE u == r \o <<g>>
    <2>15. /\ Owners(u) /\ ToldText(u) = text
           /\ Owned(u, c) = Owned(r, c) \union {g.at}
           /\ \A e \in CallId : ToldArgs(u, e) = ToldArgs(r, e)
           /\ \A e \in CallId \ {c} : Owned(u, e) = Owned(r, e)
      <3> HIDE DEF r
      <3>1. g.id \in {0, c} /\ g.kind # "done" /\ g.kind # "call" /\ g.kind # "text" BY <2>10, <2>11
      <3>2. /\ Owners(u) /\ ToldText(u) = ToldText(r)
            /\ Owned(u, c) = Owned(r, c) \union {g.at}
            /\ ToldArgs(u, c) = ToldArgs(r, c)
            /\ \A e \in CallId \ {c} : Owned(u, e) = Owned(r, e) /\ ToldArgs(u, e) = ToldArgs(r, e)
        BY <1>1, <2>11, <2>12, <2>14, <3>1, FrameMore
      <3> QED BY <2>12, <3>2
    <2>16. s \o (flushed.add \o o.add) = u
      <3> DEFINE a == flushed.add
                 b == <<g>>
      <3>1. a \in Seq(RFrame) /\ b \in Seq(RFrame) /\ o.add = b /\ u = (s \o a) \o b BY <2>0, <2>10
      <3> HIDE DEF a, b, u
      <3>2. (s \o a) \o b = s \o (a \o b) BY <1>2, <3>1, Regroup, SMTT(60)
      <3> QED BY <3>1, <3>2 DEF a
    <2> HIDE DEF u, r
    <2>17. AnthropicKeeps(o.x, u, text, args, K)
      <3>1. ToldText(u) \o o.x.held = text
        <4>1. text \o <<>> = text BY <2>12
        <4> QED BY <2>2, <2>8, <2>15, <4>1
      <3>2. \A e \in CallId : ToldArgs(u, e) = args[e] /\ \A p \in Owned(u, e) : p <= o.x.block
        <4> SUFFICES ASSUME NEW e \in CallId
                     PROVE  ToldArgs(u, e) = args[e] /\ \A p \in Owned(u, e) : p <= o.x.block
          OBVIOUS
        <4>1. Owned(u, e) \subseteq Owned(r, e) \union {f.block + 1} BY <2>10, <2>15
        <4>2. \A p \in Owned(r, e) : p \in Int /\ p <= f.block BY <2>12, <2>13
        <4>3. \A p \in Owned(u, e) : p <= f.block + 1 BY <2>12, <4>1, <4>2
        <4> QED BY <2>7, <2>13, <2>15, <4>3
      <3>3. /\ \A e \in CallId : o.x.ids[IndexOf(e)] \in {0, e}
            /\ \A e \in K : o.x.ids[IndexOf(e)] = e
        BY <2>6, <2>9 DEF AnthropicKeeps
      <3>4. o.x.cur = IndexOf(c) /\ o.x.block \in Owned(u, c) BY <2>7, <2>8, <2>10, <2>15
      <3>5. o.x.held = <<>> BY <2>2, <2>8
      <3> QED BY <2>9, <2>15, <3>1, <3>2, <3>3, <3>4, <3>5 DEF AnthropicKeeps
    <2> QED BY <2>5, <2>8, <2>16, <2>17
  <1> QED BY <1>3, <1>4

\* A fragment in the block of its call.
LEMMA AnthropicPiece ==
    ASSUME NEW y, NEW s, NEW text, NEW args, NEW K \in SUBSET CallId, AnthropicKeeps(y, s, text, args, K),
           NEW c \in K, y.cur = IndexOf(c), NEW piece \in Seq(Int)
    PROVE  AnthropicKeeps(y, s \o <<Frame("call", y.block, 0, piece)>>, text, More(args, c, piece), K)
  <1> DEFINE g == Frame("call", y.block, 0, piece)
             u == s \o <<g>>
  <1>1. IndexOf(c) # None /\ c # 0 /\ c \in Nat /\ c \in CallId
        /\ \A e \in CallId : IndexOf(e) = IndexOf(c) => e = c
    BY IndexIsIndex
  <1>2. AWriter(y) /\ y.block \in Int /\ Owners(s) BY AnthropicParts
  <1>3. g \in RFrame /\ g.id = 0 /\ g.kind = "call" /\ g.at = y.block /\ g.piece = piece
    BY <1>2 DEF Frame, Delta, RFrame
  <1>4. y.block \in Owned(s, c)
    <2>1. \E e \in K : y.cur = IndexOf(e) /\ y.block \in Owned(s, e) BY <1>1 DEF AnthropicKeeps
    <2> QED BY <1>1, <2>1
  <1> HIDE DEF g
  <1>5. /\ Owners(u) /\ ToldText(u) = ToldText(s)
        /\ Owned(u, c) = Owned(s, c)
        /\ ToldArgs(u, c) = ToldArgs(s, c) \o piece
        /\ \A e \in CallId \ {c} : Owned(u, e) = Owned(s, e) /\ ToldArgs(u, e) = ToldArgs(s, e)
    BY <1>1, <1>2, <1>3, <1>4, FrameMore
  <1> HIDE DEF u
  <1>6. \A e \in CallId : Owned(u, e) = Owned(s, e) BY <1>5
  <1>7. \A e \in CallId : ToldArgs(s, e) = args[e] /\ \A p \in Owned(s, e) : p <= y.block
    BY DEF AnthropicKeeps
  <1>8. \A e \in CallId : ToldArgs(u, e) = More(args, c, piece)[e] /\ \A p \in Owned(u, e) : p <= y.block
    BY <1>5, <1>6, <1>7 DEF More
  <1>9. y.cur # None => \E e \in K : y.cur = IndexOf(e) /\ y.block \in Owned(u, e)
    BY <1>1, <1>4, <1>6
  <1>10. AnthropicKeeps(y, u, text, More(args, c, piece), K)
    BY <1>5, <1>8, <1>9 DEF AnthropicKeeps
  <1> QED BY <1>10 DEF u, g

\* A call without a fragment more says no more.
LEMMA MoreNothing ==
    ASSUME NEW args, NEW c \in CallId, \A e \in CallId : args[e] \in Seq(Int)
    PROVE  \A e \in CallId : More(args, c, <<>>)[e] = args[e]
  <1>1. \A t \in Seq(Int) : t \o <<>> = t OBVIOUS
  <1> QED BY <1>1 DEF More

\* WriteAnthropicStream on a call.
LEMMA AnthropicCall ==
    ASSUME NEW s, NEW text, NEW args, NEW K \in SUBSET CallId, AnthropicKeeps(x, s, text, args, K),
           NEW c \in CallId, NEW id \in {0, c}, id = 0 => c \in K, NEW piece \in Seq(Int)
    PROVE  LET w == WriteAnthropic(CallDelta(IndexOf(c), id, piece))
           IN  AnthropicKeeps(w.x, s \o w.add, text, More(args, c, piece), K \union {c})
  <1> DEFINE at == IndexOf(c)
             d == CallDelta(at, id, piece)
             y == Identify(x, d)
             sw == SwitchCall(y, at)
             g == Frame("call", sw.x.block, 0, piece)
             frames == IF piece = <<>> THEN <<>> ELSE <<g>>
             L == K \union {c}
             r == s \o sw.add
  <1>1. d.kind = "call" /\ d.at = at /\ d.piece = piece BY DEF CallDelta, Delta
  <1>2. WriteAnthropic(d) = AndThen(sw, Wrote(sw.x, frames))
    <2> HIDE DEF d
    <2> QED BY <1>1 DEF WriteAnthropic
  <1>3. WriteAnthropic(d).x = sw.x /\ WriteAnthropic(d).add = sw.add \o frames
    <2> HIDE DEF sw, frames
    <2> QED BY <1>2 DEF AndThen, Wrote
  <1>4. AnthropicKeeps(y, s, text, args, L) /\ L \in SUBSET CallId /\ c \in L BY AnthropicKnows
  <1> HIDE DEF y, L
  <1>5. AnthropicKeeps(sw.x, r, text, args, L) /\ sw.x.cur = at BY <1>4, AnthropicSwitches
  <1>6. s \in Seq(RFrame) /\ sw.x.block \in Int
    <2>1. s \in Seq(RFrame) BY <1>4, AnthropicParts
    <2>2. sw.x.block \in Int BY <1>4, <1>5, AnthropicParts
    <2> QED BY <2>1, <2>2
  <1>0. sw.add \in Seq(RFrame)
    <2>1. AWriter(y) /\ at \in Index BY <1>4, AnthropicParts, IndexIsIndex
    <2>2. sw.add \in Seq(AFrame)
      <3> HIDE DEF at
      <3> QED BY <2>1, Switching DEF Good
    <2>3. AFrame \in SUBSET RFrame BY DEF AFrame, RFrame
    <2> HIDE DEF sw
    <2> QED BY <2>2, <2>3, SeqWider
  <1>7. CASE piece = <<>>
    <2>1. sw.add \o frames = sw.add BY <1>0, <1>7
    <2>2. \A e \in CallId : args[e] \in Seq(Int)
      <3>1. \A e \in CallId : args[e] = AtPlaces(s, Owned(s, e)) BY DEF AnthropicKeeps, ToldArgs
      <3>2. \A S : AtPlaces(s, S) \in Seq(Int) BY <1>6, ToldBoth
      <3> QED BY <3>1, <3>2
    <2>3. \A e \in CallId : More(args, c, <<>>)[e] = args[e] BY <2>2, MoreNothing
    <2> HIDE DEF sw, frames, at
    <2>4. AnthropicKeeps(sw.x, r, text, More(args, c, piece), L)
      BY <1>5, <1>7, <2>3 DEF AnthropicKeeps
    <2> QED BY <1>3, <2>1, <2>4 DEF d, at, L
  <1>8. CASE piece # <<>>
    <2>1. frames = <<g>> BY <1>8
    <2> HIDE DEF sw
    <2>2. AnthropicKeeps(sw.x, r \o <<g>>, text, More(args, c, piece), L)
      BY <1>4, <1>5, AnthropicPiece
    <2>3. r \o <<g>> = s \o (sw.add \o frames)
      <3> DEFINE a == sw.add
                 b == <<g>>
      <3>1. a \in Seq(RFrame) /\ b \in Seq(RFrame) /\ frames = b
        <4>1. g \in RFrame BY <1>6 DEF Frame, Delta, RFrame
        <4> QED BY <1>0, <2>1, <4>1
      <3> HIDE DEF a, b, frames
      <3>2. (s \o a) \o b = s \o (a \o b) BY <1>6, <3>1, Regroup
      <3> QED BY <3>1, <3>2 DEF a, b
    <2> HIDE DEF g, frames
    <2> QED BY <1>3, <2>2, <2>3 DEF d, at, L
  <1> QED BY <1>7, <1>8

\* The Responses writer's bookkeeping, which the Ollama writer's is a part of.
RWriter(y) ==
    /\ DOMAIN y = {"block", "open", "cur", "held", "ids", "outIdx", "msgOpen", "msgIdx", "fullText",
                   "order", "itemAt", "args"}
    /\ y.ids \in [Index -> Nat] /\ y.itemAt \in [Index -> Int] /\ y.args \in [Index -> Seq(Int)]
    /\ y.order \in Seq(Index) /\ y.outIdx \in Nat /\ y.msgIdx \in Nat
    /\ y.fullText \in Seq(Int) /\ y.msgOpen \in BOOLEAN

\* Every item has a number of its own, and a call no place but its item's.
ResponsesKeeps(y, s, text, args, K) ==
    /\ RWriter(y) /\ Owners(s) /\ ToldText(s) = text
    /\ \A i \in Index : y.itemAt[i] # None =>
          0 <= y.itemAt[i] /\ y.itemAt[i] < y.outIdx
          /\ \A j \in Index : y.itemAt[j] = y.itemAt[i] => j = i
    /\ \A c \in CallId : ToldArgs(s, c) = args[c]
                         /\ Owned(s, c) \subseteq {y.itemAt[IndexOf(c)]} \ {None}
    /\ \A c \in K : y.itemAt[IndexOf(c)] \in Owned(s, c)

\* The message item, opened and closed.
LEMMA MessageSays ==
    ASSUME NEW y, RWriter(y), NEW w \in {OpenMsg(y), CloseMsg(y)}
    PROVE  Sounds(w.add, <<>>) /\ RWriter(w.x) /\ w.x.itemAt = y.itemAt /\ w.x.outIdx >= y.outIdx
           /\ w.x.args = y.args /\ w.x.ids = y.ids /\ w.x.order = y.order
  <1>1. y.outIdx \in Nat /\ y.msgIdx \in Nat /\ y.fullText \in Seq(Int) BY DEF RWriter
  <1>2. CASE w = Wrote(y, <<>>)
    <2>1. w.x = y /\ w.add = <<>> BY <1>2 DEF Wrote
    <2> QED BY <1>1, <2>1, SoundsNone
  <1>3. CASE w = OpenMsg(y) /\ ~y.msgOpen
    <2> DEFINE z == [y EXCEPT !.msgOpen = TRUE, !.msgIdx = y.outIdx, !.outIdx = @ + 1]
               g == Frame("added", y.outIdx, 0, <<>>)
    <2>1. w.x = z /\ w.add = <<g>> BY <1>3 DEF OpenMsg, Wrote
    <2>2. RWriter(z) /\ z.itemAt = y.itemAt /\ z.outIdx = y.outIdx + 1
          /\ z.args = y.args /\ z.ids = y.ids /\ z.order = y.order
      BY <1>1 DEF RWriter
    <2>3. g \in RFrame /\ g.kind = "added" /\ g.id = 0 BY <1>1 DEF Frame, Delta, RFrame
    <2> HIDE DEF z, g
    <2>4. Sounds(<<g>>, IF g.kind = "text" THEN g.piece ELSE <<>>) BY <2>3, SoundsOne
    <2>5. Sounds(<<g>>, <<>>) BY <2>3, <2>4
    <2> QED BY <1>1, <2>1, <2>2, <2>5
  <1>4. CASE w = CloseMsg(y) /\ y.msgOpen
    <2> DEFINE z == [y EXCEPT !.msgOpen = FALSE]
               g == Frame("done", y.msgIdx, 0, y.fullText)
    <2>1. w.x = z /\ w.add = <<g>> BY <1>4 DEF CloseMsg, Wrote
    <2>2. RWriter(z) /\ z.itemAt = y.itemAt /\ z.outIdx = y.outIdx
          /\ z.args = y.args /\ z.ids = y.ids /\ z.order = y.order
      BY <1>1 DEF RWriter
    <2>3. g \in RFrame /\ g.kind = "done" /\ g.id = 0 BY <1>1 DEF Frame, Delta, RFrame
    <2> HIDE DEF z, g
    <2>4. Sounds(<<g>>, IF g.kind = "text" THEN g.piece ELSE <<>>) BY <2>3, SoundsOne
    <2>5. Sounds(<<g>>, <<>>) BY <2>3, <2>4
    <2> QED BY <1>1, <2>1, <2>2, <2>5
  <1> QED BY <1>2, <1>3, <1>4 DEF OpenMsg, CloseMsg

\* Frames of no call.
LEMMA ResponsesSays ==
    ASSUME NEW y, NEW s, NEW text, NEW args, NEW K \in SUBSET CallId, ResponsesKeeps(y, s, text, args, K),
           NEW z, RWriter(z), z.itemAt = y.itemAt, z.outIdx >= y.outIdx,
           NEW a, NEW t, Sounds(a, t)
    PROVE  ResponsesKeeps(z, s \o a, text \o t, args, K)
  <1> DEFINE u == s \o a
             b == text \o t
  <1>1. Owners(s) /\ ToldText(s) = text /\ y.outIdx \in Nat /\ z.outIdx \in Nat
        /\ y.itemAt \in [Index -> Int]
    BY DEF ResponsesKeeps, RWriter
  <1>2. /\ Owners(u) /\ ToldText(u) = b
        /\ \A c \in CallId : Owned(u, c) = Owned(s, c) /\ ToldArgs(u, c) = ToldArgs(s, c)
    BY <1>1, SilentAfter
  <1> HIDE DEF u, b
  <1>3. \A i \in Index : z.itemAt[i] # None =>
          0 <= z.itemAt[i] /\ z.itemAt[i] < z.outIdx
          /\ \A j \in Index : z.itemAt[j] = z.itemAt[i] => j = i
    <2> SUFFICES ASSUME NEW i \in Index, z.itemAt[i] # None
                 PROVE  0 <= z.itemAt[i] /\ z.itemAt[i] < z.outIdx
                        /\ \A j \in Index : z.itemAt[j] = z.itemAt[i] => j = i
      OBVIOUS
    <2>1. 0 <= y.itemAt[i] /\ y.itemAt[i] < y.outIdx
          /\ \A j \in Index : y.itemAt[j] = y.itemAt[i] => j = i
      BY DEF ResponsesKeeps
    <2>2. y.itemAt[i] \in Int BY <1>1
    <2> QED BY <1>1, <2>1, <2>2
  <1>4. \A c \in CallId : ToldArgs(u, c) = args[c]
                          /\ Owned(u, c) \subseteq {z.itemAt[IndexOf(c)]} \ {None}
    BY <1>2 DEF ResponsesKeeps
  <1>5. \A c \in K : z.itemAt[IndexOf(c)] \in Owned(u, c)
    <2>1. \A c \in K : y.itemAt[IndexOf(c)] \in Owned(s, c) /\ c \in CallId BY DEF ResponsesKeeps
    <2> QED BY <1>2, <2>1
  <1>6. ResponsesKeeps(z, u, b, args, K) BY <1>2, <1>3, <1>4, <1>5 DEF ResponsesKeeps
  <1> QED BY <1>6 DEF u, b

\* Its parts, typed.
LEMMA ResponsesParts ==
    ASSUME NEW y, NEW s, NEW text, NEW args, NEW K, ResponsesKeeps(y, s, text, args, K)
    PROVE  RWriter(y) /\ Owners(s) /\ s \in Seq(RFrame) /\ text \in Seq(Int) /\ s \o <<>> = s
           /\ text \o <<>> = text /\ \A c \in CallId : args[c] \in Seq(Int)
  <1>1. RWriter(y) /\ Owners(s) /\ ToldText(s) = text /\ s \in Seq(RFrame)
    BY DEF ResponsesKeeps, Owners
  <1>2. text \in Seq(Int) /\ \A S : AtPlaces(s, S) \in Seq(Int) BY <1>1, ToldBoth
  <1>3. \A c \in CallId : args[c] = AtPlaces(s, Owned(s, c)) BY DEF ResponsesKeeps, ToldArgs
  <1> QED BY <1>1, <1>2, <1>3

\* WriteResponsesStream on a text or a thought.
LEMMA ResponsesText ==
    ASSUME NEW s, NEW text, NEW args, NEW K \in SUBSET CallId, ResponsesKeeps(x, s, text, args, K),
           NEW kind \in {"text", "reason"}, NEW piece \in Seq(Int)
    PROVE  LET w == WriteResponses(Delta(kind, None, 0, piece))
           IN  ResponsesKeeps(w.x, s \o w.add, IF kind = "text" THEN text \o piece ELSE text, args, K)
  <1> DEFINE d == Delta(kind, None, 0, piece)
             m == OpenMsg(x)
             z == [m.x EXCEPT !.fullText = @ \o piece]
             g == Frame("text", m.x.msgIdx, 0, piece)
  <1>1. d.kind = kind /\ d.piece = piece BY DEF Delta
  <1>2. RWriter(x) /\ s \in Seq(RFrame) /\ s \o <<>> = s /\ text \in Seq(Int) BY ResponsesParts
  <1> HIDE DEF d
  <1>3. CASE kind = "reason"
    <2>1. WriteResponses(d) = Wrote(x, <<>>) BY <1>1, <1>3 DEF WriteResponses
    <2>2. WriteResponses(d).x = x /\ WriteResponses(d).add = <<>> BY <2>1 DEF Wrote
    <2> QED BY <1>2, <1>3, <2>2 DEF d
  <1>4. CASE kind = "text"
    <2>1. WriteResponses(d) = AndThen(m, Wrote(z, <<g>>))
      BY <1>1, <1>4 DEF WriteResponses
    <2>2. WriteResponses(d).x = z /\ WriteResponses(d).add = m.add \o <<g>>
      <3> HIDE DEF m, z, g
      <3> QED BY <2>1 DEF AndThen, Wrote
    <2>3. Sounds(m.add, <<>>) /\ RWriter(m.x) /\ m.x.itemAt = x.itemAt /\ m.x.outIdx >= x.outIdx
      BY <1>2, MessageSays
    <2> HIDE DEF m
    <2>4. RWriter(z) /\ z.itemAt = m.x.itemAt /\ z.outIdx = m.x.outIdx BY <2>3 DEF RWriter
    <2>5. g \in RFrame /\ g.kind = "text" /\ g.id = 0 /\ g.piece = piece
      BY <2>3 DEF RWriter, Frame, Delta, RFrame
    <2> HIDE DEF z, g
    <2>6. Sounds(<<g>>, IF g.kind = "text" THEN g.piece ELSE <<>>) BY <2>5, SoundsOne
    <2>7. Sounds(<<g>>, piece) BY <2>5, <2>6
    <2>0. <<>> \o piece = piece OBVIOUS
    <2>8. Sounds(m.add \o <<g>>, <<>> \o piece) BY <2>3, <2>7, SoundsBoth
    <2> DEFINE a == m.add \o <<g>>
    <2>9. Sounds(a, piece) BY <2>0, <2>8
    <2> HIDE DEF a
    <2>10. ResponsesKeeps(z, s \o a, text \o piece, args, K)
      BY <2>3, <2>4, <2>9, ResponsesSays
    <2> QED BY <1>4, <2>2, <2>10 DEF a, d
  <1> QED BY <1>3, <1>4

\* An item for the call, with its id.
LEMMA ResponsesItem ==
    ASSUME NEW y, NEW s, NEW text, NEW args, NEW K \in SUBSET CallId, ResponsesKeeps(y, s, text, args, K),
           NEW c \in CallId, NEW id \in {0, c}, NEW piece
    PROVE  LET z == Identify(ItemOf(y, IndexOf(c)), CallDelta(IndexOf(c), id, piece))
           IN  /\ ResponsesKeeps(z, s, text, args, K) /\ z.itemAt[IndexOf(c)] \in Int \ {None}
               /\ id # 0 => z.ids[IndexOf(c)] = c
  <1> DEFINE at == IndexOf(c)
             d == CallDelta(at, id, piece)
             v == ItemOf(y, at)
             z == Identify(v, d)
  <1>1. d.at = at /\ d.id = id BY DEF CallDelta, Delta
  <1>2. at \in Index /\ c # 0 /\ c \in Nat /\ \A e \in CallId : IndexOf(e) = at => e = c
    BY IndexIsIndex
  <1>3. RWriter(y) BY DEF ResponsesKeeps
  <1>4. y.itemAt \in [Index -> Int] /\ y.outIdx \in Nat /\ y.ids \in [Index -> Nat] BY <1>3 DEF RWriter
  <1>10. \A e \in CallId : IndexOf(e) \in Index BY IndexIsIndex
  <1> HIDE DEF at, d
  <1>5. /\ RWriter(v) /\ v.ids = y.ids
        /\ \/ v.itemAt = y.itemAt /\ v.outIdx = y.outIdx /\ y.itemAt[at] # None
           \/ /\ v.itemAt = [y.itemAt EXCEPT ![at] = y.outIdx] /\ v.outIdx = y.outIdx + 1
              /\ y.itemAt[at] = None
    BY <1>2, <1>3, <1>4 DEF ItemOf, RWriter
  <1> HIDE DEF v
  <1>6. /\ RWriter(z) /\ z.itemAt = v.itemAt /\ z.outIdx = v.outIdx
        /\ id # 0 => z.ids[at] = c
    BY <1>1, <1>2, <1>5 DEF Identify, RWriter
  <1> HIDE DEF z
  <1>7. z.itemAt[at] \in Int \ {None}
    <2>1. \A k \in Nat : k # None /\ k \in Int BY DEF None
    <2> QED BY <1>2, <1>4, <1>5, <1>6, <2>1
  <1>8. ResponsesKeeps(z, s, text, args, K)
    <2>1. \A i \in Index : y.itemAt[i] # None =>
            0 <= y.itemAt[i] /\ y.itemAt[i] < y.outIdx
            /\ \A j \in Index : y.itemAt[j] = y.itemAt[i] => j = i
      BY DEF ResponsesKeeps
    <2>2. /\ Owners(s) /\ ToldText(s) = text
          /\ \A e \in CallId : ToldArgs(s, e) = args[e] /\ Owned(s, e) \subseteq {y.itemAt[IndexOf(e)]} \ {None}
          /\ \A e \in K : y.itemAt[IndexOf(e)] \in Owned(s, e)
      BY DEF ResponsesKeeps
    <2>3. CASE z.itemAt = y.itemAt /\ z.outIdx = y.outIdx
      BY <1>6, <2>1, <2>2, <2>3 DEF ResponsesKeeps
    <2>4. CASE /\ z.itemAt = [y.itemAt EXCEPT ![at] = y.outIdx] /\ z.outIdx = y.outIdx + 1
               /\ y.itemAt[at] = None
      <3>1. \A i \in Index : z.itemAt[i] = IF i = at THEN y.outIdx ELSE y.itemAt[i] BY <1>4, <2>4
      <3>2. \A i \in Index : y.itemAt[i] \in Int /\ (y.itemAt[i] # None => 0 <= y.itemAt[i] /\ y.itemAt[i] < y.outIdx)
        BY <1>4, <2>1
      <3>3. \A i \in Index : y.itemAt[i] # y.outIdx BY <1>4, <3>2 DEF None
      <3>4. \A i \in Index : z.itemAt[i] # None =>
              0 <= z.itemAt[i] /\ z.itemAt[i] < z.outIdx
              /\ \A j \in Index : z.itemAt[j] = z.itemAt[i] => j = i
        <4> SUFFICES ASSUME NEW i \in Index, z.itemAt[i] # None
                     PROVE  0 <= z.itemAt[i] /\ z.itemAt[i] < z.outIdx
                            /\ \A j \in Index : z.itemAt[j] = z.itemAt[i] => j = i
          OBVIOUS
        <4>1. CASE i = at
          <5>1. z.itemAt[i] = y.outIdx BY <3>1, <4>1
          <5>2. \A j \in Index : z.itemAt[j] = y.outIdx => j = at BY <3>1, <3>3
          <5> QED BY <1>4, <2>4, <4>1, <5>1, <5>2
        <4>2. CASE i # at
          <5>1. z.itemAt[i] = y.itemAt[i] BY <3>1, <4>2
          <5>2. 0 <= y.itemAt[i] /\ y.itemAt[i] < y.outIdx
                /\ \A j \in Index : y.itemAt[j] = y.itemAt[i] => j = i
            BY <2>1, <5>1
          <5>3. \A j \in Index : z.itemAt[j] = z.itemAt[i] => j = i BY <3>1, <3>3, <5>1, <5>2
          <5>4. z.itemAt[i] < z.outIdx BY <1>4, <2>4, <3>2, <5>1, <5>2
          <5> QED BY <5>1, <5>2, <5>3, <5>4
        <4> QED BY <4>1, <4>2
      <3>5. \A e \in CallId : Owned(s, e) \subseteq {z.itemAt[IndexOf(e)]} \ {None}
        <4> SUFFICES ASSUME NEW e \in CallId PROVE Owned(s, e) \subseteq {z.itemAt[IndexOf(e)]} \ {None}
          OBVIOUS
        <4>1. Owned(s, e) \subseteq {y.itemAt[IndexOf(e)]} \ {None} BY <2>2
        <4>2. CASE IndexOf(e) = at
          <5>1. Owned(s, e) = {} BY <2>4, <4>1, <4>2
          <5> QED BY <5>1
        <4>3. CASE IndexOf(e) # at
          <5>1. z.itemAt[IndexOf(e)] = y.itemAt[IndexOf(e)] BY <1>10, <3>1, <4>3
          <5> QED BY <4>1, <5>1
        <4> QED BY <4>2, <4>3
      <3>6. \A e \in K : z.itemAt[IndexOf(e)] \in Owned(s, e)
        <4> SUFFICES ASSUME NEW e \in K PROVE z.itemAt[IndexOf(e)] \in Owned(s, e) OBVIOUS
        <4>1. y.itemAt[IndexOf(e)] \in Owned(s, e) /\ e \in CallId BY <2>2
        <4>2. y.itemAt[IndexOf(e)] # None BY <2>2, <4>1
        <4>3. IndexOf(e) # at BY <2>4, <4>2
        <4>4. z.itemAt[IndexOf(e)] = y.itemAt[IndexOf(e)] BY <1>10, <3>1, <4>1, <4>3
        <4> QED BY <4>1, <4>4
      <3> QED BY <1>6, <2>2, <3>4, <3>5, <3>6 DEF ResponsesKeeps
    <2> QED BY <1>5, <1>6, <2>3, <2>4
  <1> QED BY <1>6, <1>7, <1>8 DEF z, v, d, at

\* A frame of the call at its item: the item's own, or a fragment.
LEMMA ResponsesFrame ==
    ASSUME NEW y, NEW s, NEW text, NEW args, NEW K \in SUBSET CallId, ResponsesKeeps(y, s, text, args, K),
           NEW c \in CallId, y.itemAt[IndexOf(c)] \in Int \ {None}, NEW g \in RFrame,
           g.at = y.itemAt[IndexOf(c)],
           \/ g.kind = "added" /\ g.id = c
           \/ g.kind = "call" /\ g.id = 0 /\ c \in K,
           NEW more, \A e \in CallId : more[e] = IF e = c /\ g.kind = "call" THEN args[e] \o g.piece ELSE args[e]
    PROVE  ResponsesKeeps(y, s \o <<g>>, text, more, K \union {c})
  <1> DEFINE u == s \o <<g>>
  <1>1. c # 0 /\ c \in Nat /\ \A e \in CallId : IndexOf(e) = IndexOf(c) => e = c BY IndexIsIndex
  <1>10. \A e \in CallId : IndexOf(e) \in Index BY IndexIsIndex
  <1>2. /\ RWriter(y) /\ Owners(s) /\ ToldText(s) = text
        /\ \A e \in CallId : ToldArgs(s, e) = args[e] /\ Owned(s, e) \subseteq {y.itemAt[IndexOf(e)]} \ {None}
        /\ \A e \in K : y.itemAt[IndexOf(e)] \in Owned(s, e)
        /\ \A i \in Index : y.itemAt[i] # None =>
             0 <= y.itemAt[i] /\ y.itemAt[i] < y.outIdx
             /\ \A j \in Index : y.itemAt[j] = y.itemAt[i] => j = i
    BY DEF ResponsesKeeps
  <1>3. \A e \in CallId \ {c} : g.at \notin Owned(s, e)
    <2> SUFFICES ASSUME NEW e \in CallId \ {c}, g.at \in Owned(s, e) PROVE FALSE OBVIOUS
    <2>1. y.itemAt[IndexOf(e)] = y.itemAt[IndexOf(c)] BY <1>2
    <2>2. IndexOf(e) = IndexOf(c) BY <1>2, <1>10, <2>1
    <2> QED BY <1>1, <2>2
  <1>4. g.id \in {0, c} /\ g.kind # "done" /\ g.kind # "text"
        /\ (g.kind = "call" => g.at \in Owned(s, c))
    BY <1>2
  <1>11. g.id = c => \A e \in CallId \ {c} : g.at \notin Owned(s, e) BY <1>3
  <1>12. g.kind = "call" => g.id = c \/ g.at \in Owned(s, c) BY <1>4
  <1>13. /\ Owners(u)
         /\ ToldText(u) = IF g.kind = "text" THEN ToldText(s) \o g.piece ELSE ToldText(s)
         /\ Owned(u, c) = IF g.id = c THEN Owned(s, c) \union {g.at} ELSE Owned(s, c)
         /\ ToldArgs(u, c) = IF g.kind = "call" THEN ToldArgs(s, c) \o g.piece ELSE ToldArgs(s, c)
         /\ \A e \in CallId \ {c} : Owned(u, e) = Owned(s, e) /\ ToldArgs(u, e) = ToldArgs(s, e)
    <2>1. Owners(s) /\ g.id \in {0, c} /\ g.kind # "done" BY <1>2, <1>4
    <2> QED BY <1>11, <1>12, <2>1, FrameMore
  <1> HIDE DEF u
  <1>5. /\ Owners(u) /\ ToldText(u) = text
        /\ Owned(u, c) = IF g.id = c THEN Owned(s, c) \union {g.at} ELSE Owned(s, c)
        /\ ToldArgs(u, c) = IF g.kind = "call" THEN ToldArgs(s, c) \o g.piece ELSE ToldArgs(s, c)
        /\ \A e \in CallId \ {c} : Owned(u, e) = Owned(s, e) /\ ToldArgs(u, e) = ToldArgs(s, e)
    BY <1>2, <1>4, <1>13
  <1> HIDE DEF u
  <1>6. \A e \in CallId : ToldArgs(u, e) = more[e] BY <1>2, <1>5
  <1>7. \A e \in CallId : Owned(u, e) \subseteq {y.itemAt[IndexOf(e)]} \ {None} BY <1>2, <1>5
  <1>8. ASSUME NEW e \in K \union {c} PROVE y.itemAt[IndexOf(e)] \in Owned(u, e)
    <2>1. CASE e = c BY <1>1, <1>4, <1>5, <2>1
    <2>2. CASE e # c
      <3>1. e \in CallId \ {c} /\ y.itemAt[IndexOf(e)] \in Owned(s, e) BY <1>2, <2>2
      <3> QED BY <1>5, <3>1
    <2> QED BY <2>1, <2>2
  <1>9. ResponsesKeeps(y, u, text, more, K \union {c})
    BY <1>2, <1>5, <1>6, <1>7, <1>8 DEF ResponsesKeeps
  <1> QED BY <1>9 DEF u

\* WriteResponsesStream on a call.
LEMMA ResponsesCall ==
    ASSUME NEW s, NEW text, NEW args, NEW K \in SUBSET CallId, ResponsesKeeps(x, s, text, args, K),
           NEW c \in CallId, NEW id \in {0, c}, id = 0 => c \in K, NEW piece \in Seq(Int)
    PROVE  LET w == WriteResponses(CallDelta(IndexOf(c), id, piece))
           IN  ResponsesKeeps(w.x, s \o w.add, text, More(args, c, piece), K \union {c})
  <1> DEFINE at == IndexOf(c)
             d == CallDelta(at, id, piece)
             m == CloseMsg(x)
             y == Identify(ItemOf(m.x, at), d)
             z == [y EXCEPT !.args[at] = @ \o piece]
             g1 == Frame("added", y.itemAt[at], y.ids[at], <<>>)
             g2 == Frame("call", y.itemAt[at], 0, piece)
             f1 == IF id # 0 THEN <<g1>> ELSE <<>>
             f2 == IF piece # <<>> THEN <<g2>> ELSE <<>>
             L == K \union {c}
             r == s \o m.add
             more == More(args, c, piece)
  <1>1. d.kind = "call" /\ d.at = at /\ d.piece = piece /\ d.id = id BY DEF CallDelta, Delta
  <1>2. RWriter(x) /\ s \in Seq(RFrame) /\ text \in Seq(Int) /\ text \o <<>> = text
        /\ \A e \in CallId : args[e] \in Seq(Int)
    BY ResponsesParts
  <1>3. c # 0 /\ c \in Nat /\ at \in Index BY IndexIsIndex
  <1>4. WriteResponses(d) = AndThen(m, Wrote(z, f1 \o f2))
    <2> HIDE DEF d
    <2>1. WriteResponses(d) = AndThen(m, Wrote([y EXCEPT !.args[d.at] = @ \o d.piece],
              (IF d.id # 0 THEN <<Frame("added", y.itemAt[d.at], y.ids[d.at], <<>>)>> ELSE <<>>)
              \o (IF d.piece # <<>> THEN <<Frame("call", y.itemAt[d.at], 0, d.piece)>> ELSE <<>>)))
      BY <1>1 DEF WriteResponses
    <2> QED BY <1>1, <2>1
  <1>5. WriteResponses(d).x = z /\ WriteResponses(d).add = m.add \o (f1 \o f2)
    <2> DEFINE w == Wrote(z, f1 \o f2)
    <2>1. w.x = z /\ w.add = f1 \o f2
      <3> HIDE DEF z, f1, f2
      <3> QED BY DEF Wrote
    <2>2. WriteResponses(d) = AndThen(m, w) BY <1>4
    <2> HIDE DEF m, z, f1, f2, d, w
    <2>3. WriteResponses(d).x = w.x /\ WriteResponses(d).add = m.add \o w.add BY <2>2, Then
    <2> QED BY <2>1, <2>3
  <1>6. Sounds(m.add, <<>>) /\ RWriter(m.x) /\ m.x.itemAt = x.itemAt /\ m.x.outIdx >= x.outIdx
    BY <1>2, MessageSays
  <1> HIDE DEF m
  <1>7. ResponsesKeeps(m.x, r, text, args, K)
    <2>1. ResponsesKeeps(m.x, r, text \o <<>>, args, K) BY <1>6, ResponsesSays
    <2> QED BY <1>2, <2>1
  <1>8. /\ ResponsesKeeps(y, r, text, args, K) /\ y.itemAt[at] \in Int \ {None}
        /\ id # 0 => y.ids[at] = c
    BY <1>7, ResponsesItem
  <1> HIDE DEF y, d
  <1>9. RWriter(y) BY <1>8 DEF ResponsesKeeps
  <1>10. RWriter(z) /\ z.itemAt = y.itemAt /\ z.outIdx = y.outIdx
    <2> HIDE DEF at
    <2>1. y.args \in [Index -> Seq(Int)] /\ y.args[at] \in Seq(Int) /\ y.args[at] \o piece \in Seq(Int)
      BY <1>3, <1>9 DEF RWriter
    <2> QED BY <1>3, <1>9, <2>1 DEF RWriter
  <1>11. ResponsesKeeps(z, r, text, args, K)
    <2> HIDE DEF z, r
    <2> QED BY <1>8, <1>10 DEF ResponsesKeeps
  <1> HIDE DEF z
  <1>12. z.itemAt[at] \in Int \ {None} BY <1>8, <1>10
  <1>13. ResponsesKeeps(z, r \o f1, text, args, L) /\ f1 \in Seq(RFrame)
    <2>1. CASE id = 0
      <3>1. L = K /\ f1 = <<>> /\ <<>> \in Seq(RFrame) BY <2>1
      <3>2. r \o <<>> = r
        <4> HIDE DEF r
        <4> QED BY <1>11, ResponsesParts
      <3> HIDE DEF L, f1, r
      <3> QED BY <1>11, <3>1, <3>2
    <2>2. CASE id # 0
      <3>1. g1 \in RFrame /\ g1.kind = "added" /\ g1.id = c /\ g1.at = z.itemAt[at]
        BY <1>3, <1>8, <1>10, <2>2 DEF Frame, Delta, RFrame
      <3>2. f1 = <<g1>> BY <2>2
      <3> HIDE DEF g1, r, f1
      <3>3. ResponsesKeeps(z, r \o <<g1>>, text, args, L)
        <4> HIDE DEF L
        <4>1. \A e \in CallId : args[e] = IF e = c /\ g1.kind = "call" THEN args[e] \o g1.piece ELSE args[e]
          BY <3>1
        <4>2. ResponsesKeeps(z, r \o <<g1>>, text, args, K \union {c})
          BY <1>11, <1>12, <3>1, <4>1, ResponsesFrame
        <4> QED BY <4>2 DEF L
      <3> QED BY <3>1, <3>2, <3>3
    <2> QED BY <2>1, <2>2
  <1>14. ResponsesKeeps(z, (r \o f1) \o f2, text, more, L) /\ f2 \in Seq(RFrame)
    <2> DEFINE q == r \o f1
    <2>0. ResponsesKeeps(z, q, text, args, L) BY <1>13
    <2> HIDE DEF q
    <2>1. CASE piece = <<>>
      <3>1. f2 = <<>> /\ <<>> \in Seq(RFrame) BY <2>1
      <3>2. q \o <<>> = q BY <2>0, ResponsesParts
      <3>3. \A e \in CallId : more[e] = args[e] BY <1>2, <2>1, MoreNothing
      <3> HIDE DEF L, f2, more
      <3>4. ResponsesKeeps(z, q, text, more, L) BY <2>0, <3>3 DEF ResponsesKeeps
      <3> QED BY <3>1, <3>2, <3>4 DEF q
    <2>2. CASE piece # <<>>
      <3>1. g2 \in RFrame /\ g2.kind = "call" /\ g2.id = 0 /\ g2.at = z.itemAt[at] /\ g2.piece = piece
        BY <1>8, <1>10 DEF Frame, Delta, RFrame
      <3>2. f2 = <<g2>> BY <2>2
      <3>3. \A e \in CallId : more[e] = IF e = c /\ g2.kind = "call" THEN args[e] \o g2.piece ELSE args[e]
        BY <3>1 DEF More
      <3>4. c \in L /\ L \in SUBSET CallId /\ L \union {c} = L OBVIOUS
      <3> HIDE DEF g2, f2, more, L
      <3>5. ResponsesKeeps(z, q \o <<g2>>, text, more, L \union {c})
        BY <1>12, <2>0, <3>1, <3>3, <3>4, ResponsesFrame
      <3>6. ResponsesKeeps(z, q \o f2, text, more, L) /\ f2 \in Seq(RFrame)
        <4>1. <<g2>> \in Seq(RFrame) BY <3>1
        <4> QED BY <3>2, <3>4, <3>5, <4>1
      <3> QED BY <3>6 DEF q
    <2> QED BY <2>1, <2>2
  <1>15. (r \o f1) \o f2 = s \o (m.add \o (f1 \o f2))
    <2> DEFINE a == m.add
               ff == f1 \o f2
    <2>1. a \in Seq(RFrame) BY <1>6 DEF Sounds, Silent
    <2> HIDE DEF a, f1, f2
    <2>2. ff \in Seq(RFrame) BY <1>13, <1>14
    <2>3. s \o a \in Seq(RFrame) BY <1>2, <2>1
    <2> DEFINE sa == s \o a
    <2> HIDE DEF sa
    <2>4. (sa \o f1) \o f2 = sa \o ff
      <3>1. sa \in Seq(RFrame) BY <2>3 DEF sa
      <3> QED BY <1>13, <1>14, <3>1, Regroup, SMTT(60)
    <2> HIDE DEF ff
    <2>5. (s \o a) \o ff = s \o (a \o ff) BY <1>2, <2>1, <2>2, Regroup, SMTT(60)
    <2> QED BY <2>4, <2>5 DEF sa, a, ff
  <1> HIDE DEF f1, f2, r, more
  <1> QED BY <1>5, <1>14, <1>15 DEF d, at, L, more

\* The Ollama writer has the calls' arguments, each call once in its order.
OllamaKeeps(y, s, text, args, K) ==
    /\ RWriter(y) /\ Owners(s) /\ ToldText(s) = text
    /\ \A c \in CallId : /\ Owned(s, c) = {} /\ ToldArgs(s, c) = <<>>
                         /\ y.args[IndexOf(c)] = args[c] /\ y.ids[IndexOf(c)] \in {0, c}
                         /\ args[c] # <<>> => \E i \in 1..Len(y.order) : y.order[i] = IndexOf(c)
    /\ \A c \in K : y.ids[IndexOf(c)] = c
    /\ \A i, j \in 1..Len(y.order) : y.order[i] = y.order[j] => i = j
    /\ \A i \in 1..Len(y.order) : \E c \in K : y.order[i] = IndexOf(c)

\* WriteOllamaStream on a text or a thought.
LEMMA OllamaText ==
    ASSUME NEW s, NEW text, NEW args, NEW K \in SUBSET CallId, OllamaKeeps(x, s, text, args, K),
           NEW kind \in {"text", "reason"}, NEW piece \in Seq(Int)
    PROVE  LET w == WriteOllama(Delta(kind, None, 0, piece))
           IN  OllamaKeeps(w.x, s \o w.add, IF kind = "text" THEN text \o piece ELSE text, args, K)
  <1> DEFINE d == Delta(kind, None, 0, piece)
             g == Frame("text", None, 0, piece)
  <1>1. d.kind = kind /\ d.piece = piece BY DEF Delta
  <1>2. Owners(s) /\ s \in Seq(RFrame) /\ s \o <<>> = s /\ ToldText(s) = text
    BY DEF OllamaKeeps, Owners
  <1> HIDE DEF d
  <1>3. CASE kind = "reason"
    <2>1. WriteOllama(d) = Wrote(x, <<>>) BY <1>1, <1>3 DEF WriteOllama
    <2>2. WriteOllama(d).x = x /\ WriteOllama(d).add = <<>> BY <2>1 DEF Wrote
    <2> QED BY <1>2, <1>3, <2>2 DEF d
  <1>4. CASE kind = "text"
    <2>1. WriteOllama(d) = Wrote(x, <<g>>) BY <1>1, <1>4 DEF WriteOllama
    <2>2. WriteOllama(d).x = x /\ WriteOllama(d).add = <<g>> BY <2>1 DEF Wrote
    <2>3. g \in RFrame /\ g.kind = "text" /\ g.id = 0 /\ g.piece = piece
      BY DEF Frame, Delta, RFrame, None
    <2> HIDE DEF g
    <2>4. Sounds(<<g>>, IF g.kind = "text" THEN g.piece ELSE <<>>) BY <2>3, SoundsOne
    <2>5. Sounds(<<g>>, piece) BY <2>3, <2>4
    <2> DEFINE u == s \o <<g>>
    <2>6. /\ Owners(u) /\ ToldText(u) = text \o piece
          /\ \A c \in CallId : Owned(u, c) = Owned(s, c) /\ ToldArgs(u, c) = ToldArgs(s, c)
      BY <1>2, <2>5, SilentAfter
    <2> HIDE DEF u
    <2> DEFINE b == text \o piece
    <2>7. ToldText(u) = b BY <2>6
    <2> HIDE DEF b
    <2>8. \A c \in CallId : Owned(u, c) = {} /\ ToldArgs(u, c) = <<>> BY <2>6 DEF OllamaKeeps
    <2>9. OllamaKeeps(x, u, b, args, K) BY <2>6, <2>7, <2>8 DEF OllamaKeeps
    <2> QED BY <1>4, <2>2, <2>9 DEF d, u, b
  <1> QED BY <1>3, <1>4

\* WriteOllamaStream on a call.
LEMMA OllamaCall ==
    ASSUME NEW s, NEW text, NEW args, NEW K \in SUBSET CallId, OllamaKeeps(x, s, text, args, K),
           NEW c \in CallId, NEW id \in {0, c}, id = 0 => c \in K, NEW piece \in Seq(Int)
    PROVE  LET w == WriteOllama(CallDelta(IndexOf(c), id, piece))
           IN  OllamaKeeps(w.x, s \o w.add, text, More(args, c, piece), K \union {c})
  <1> DEFINE at == IndexOf(c)
             d == CallDelta(at, id, piece)
             y == Identify(x, d)
             z == [y EXCEPT !.args[at] = @ \o piece,
                            !.order = IF at \in Range(@) THEN @ ELSE Append(@, at)]
             L == K \union {c}
             more == More(args, c, piece)
  <1>1. d.kind = "call" /\ d.at = at /\ d.piece = piece /\ d.id = id BY DEF CallDelta, Delta
  <1>2. /\ RWriter(x) /\ Owners(s) /\ s \in Seq(RFrame) /\ s \o <<>> = s /\ ToldText(s) = text
        /\ \A e \in CallId : Owned(s, e) = {} /\ ToldArgs(s, e) = <<>>
        /\ x.order \in Seq(Index) /\ x.args \in [Index -> Seq(Int)]
    <2>1. /\ RWriter(x) /\ Owners(s) /\ ToldText(s) = text
          /\ \A e \in CallId : Owned(s, e) = {} /\ ToldArgs(s, e) = <<>>
      BY DEF OllamaKeeps
    <2>2. s \in Seq(RFrame) BY <2>1 DEF Owners
    <2>3. s \o <<>> = s BY <2>2
    <2>4. x.order \in Seq(Index) /\ x.args \in [Index -> Seq(Int)] BY <2>1 DEF RWriter
    <2> QED BY <2>1, <2>2, <2>3, <2>4
  <1>3. c # 0 /\ c \in Nat /\ at \in Index /\ \A e \in CallId : IndexOf(e) \in Index /\ (IndexOf(e) = at => e = c)
    BY IndexIsIndex
  <1>0. \A e \in CallId : /\ x.args[IndexOf(e)] = args[e] /\ x.ids[IndexOf(e)] \in {0, e}
                          /\ args[e] # <<>> => \E i \in 1..Len(x.order) : x.order[i] = IndexOf(e)
    BY DEF OllamaKeeps
  <1>4. WriteOllama(d).x = z /\ WriteOllama(d).add = <<>>
    <2> HIDE DEF d
    <2>1. WriteOllama(d) = Wrote(z, <<>>) BY <1>1 DEF WriteOllama
    <2> HIDE DEF z
    <2> QED BY <2>1 DEF Wrote
  <1> DEFINE ord == IF at \in Range(x.order) THEN x.order ELSE Append(x.order, at)
  <1> HIDE DEF at
  <1>5. /\ RWriter(y) /\ y.args = x.args /\ y.order = x.order
        /\ y.ids = IF id = 0 THEN x.ids ELSE [x.ids EXCEPT ![at] = id]
    BY <1>1, <1>2, <1>3 DEF Identify, RWriter
  <1> HIDE DEF y, d
  <1>6. y.args[at] \in Seq(Int) /\ y.args[at] \o piece \in Seq(Int) /\ ord \in Seq(Index)
    BY <1>2, <1>3, <1>5
  <1>7. /\ z.args = [x.args EXCEPT ![at] = x.args[at] \o piece] /\ z.order = ord /\ z.ids = y.ids
        /\ RWriter(z)
    BY <1>3, <1>5, <1>6 DEF RWriter
  <1> HIDE DEF z
  <1>8. /\ \A i, j \in 1..Len(ord) : ord[i] = ord[j] => i = j
        /\ \A i \in 1..Len(ord) : \E e \in L : ord[i] = IndexOf(e)
        /\ \E i \in 1..Len(ord) : ord[i] = at
        /\ \A v : (\E i \in 1..Len(x.order) : x.order[i] = v) => \E i \in 1..Len(ord) : ord[i] = v
    <2>1. /\ \A i, j \in 1..Len(x.order) : x.order[i] = x.order[j] => i = j
          /\ \A i \in 1..Len(x.order) : \E e \in K : x.order[i] = IndexOf(e)
          /\ DOMAIN x.order = 1..Len(x.order)
      BY <1>2 DEF OllamaKeeps
    <2>2. CASE at \in Range(x.order)
      <3>1. ord = x.order BY <2>2
      <3>2. \E i \in 1..Len(x.order) : x.order[i] = at BY <2>1, <2>2 DEF Range
      <3> HIDE DEF ord
      <3> QED BY <2>1, <3>1, <3>2
    <2>3. CASE at \notin Range(x.order)
      <3>1. ord = Append(x.order, at) BY <2>3
      <3>2. \A i \in 1..Len(x.order) : x.order[i] # at BY <2>1, <2>3 DEF Range
      <3>3. /\ Len(x.order) \in Nat /\ Len(ord) = Len(x.order) + 1 /\ ord[Len(ord)] = at
            /\ \A i \in 1..Len(x.order) : ord[i] = x.order[i]
        BY <1>2, <1>3, <3>1
      <3>4. \A i \in 1..Len(ord) : i \in 1..Len(x.order) \/ i = Len(ord) BY <3>3
      <3>5. c \in L /\ \A e \in K : e \in L OBVIOUS
      <3> HIDE DEF ord, L
      <3>6. \A i \in 1..Len(ord) : \E e \in L : ord[i] = IndexOf(e)
        <4> SUFFICES ASSUME NEW i \in 1..Len(ord) PROVE \E e \in L : ord[i] = IndexOf(e) OBVIOUS
        <4>1. CASE i \in 1..Len(x.order)
          <5>1. PICK e \in K : x.order[i] = IndexOf(e) BY <2>1, <4>1
          <5> QED BY <3>3, <3>5, <4>1, <5>1
        <4>2. CASE i = Len(ord) BY <3>3, <3>5, <4>2 DEF at
        <4> QED BY <3>4, <4>1, <4>2
      <3>7. \A i, j \in 1..Len(ord) : ord[i] = ord[j] => i = j
        BY <2>1, <3>2, <3>3, <3>4
      <3>8. \E i \in 1..Len(ord) : ord[i] = at BY <3>3
      <3>9. \A i \in 1..Len(x.order) : i \in 1..Len(ord) BY <3>3
      <3> QED BY <3>3, <3>6, <3>7, <3>8, <3>9
    <2> QED BY <2>2, <2>3
  <1> HIDE DEF ord
  <1>9. ASSUME NEW e \in CallId
        PROVE  /\ z.args[IndexOf(e)] = more[e] /\ z.ids[IndexOf(e)] \in {0, e}
               /\ more[e] # <<>> => \E i \in 1..Len(ord) : ord[i] = IndexOf(e)
    <2>1. CASE e = c
      <3>1. z.args[at] = x.args[at] \o piece BY <1>2, <1>3, <1>7
      <3>2. x.args[at] = args[c] BY <1>0 DEF at
      <3>3. more[c] = args[c] \o piece BY DEF More
      <3>4. z.ids[at] \in {0, c}
        <4>1. x.ids[at] \in {0, c} /\ x.ids \in [Index -> Nat] BY <1>0, <1>2 DEF at, RWriter
        <4> QED BY <1>3, <1>5, <1>7, <4>1
      <3> HIDE DEF more
      <3> QED BY <1>8, <2>1, <3>1, <3>2, <3>3, <3>4 DEF at
    <2>2. CASE e # c
      <3>1. IndexOf(e) \in Index /\ IndexOf(e) # at BY <1>3, <2>2
      <3>2. z.args[IndexOf(e)] = x.args[IndexOf(e)] /\ z.ids[IndexOf(e)] = x.ids[IndexOf(e)]
        <4>1. x.ids \in [Index -> Nat] BY <1>2 DEF RWriter
        <4> QED BY <1>2, <1>5, <1>7, <3>1, <4>1
      <3>3. more[e] = args[e] BY <2>2 DEF More
      <3> HIDE DEF more
      <3> QED BY <1>0, <1>8, <3>2, <3>3
    <2> QED BY <2>1, <2>2
  <1>10. ASSUME NEW e \in L PROVE z.ids[IndexOf(e)] = e
    <2>0. x.ids \in [Index -> Nat] /\ \A k \in K : x.ids[IndexOf(k)] = k
      BY <1>2 DEF RWriter, OllamaKeeps
    <2>1. CASE e = c /\ id # 0
      <3>1. z.ids[at] = id BY <1>3, <1>5, <1>7, <2>0, <2>1
      <3> QED BY <2>1, <3>1 DEF at
    <2>2. CASE id = 0
      <3>1. e \in K BY <1>10, <2>2
      <3> QED BY <1>5, <1>7, <2>0, <2>2, <3>1
    <2>3. CASE e # c
      <3>1. e \in K /\ e \in CallId BY <1>10, <2>3
      <3>2. IndexOf(e) \in Index /\ IndexOf(e) # at BY <1>3, <2>3, <3>1
      <3>3. z.ids[IndexOf(e)] = x.ids[IndexOf(e)] BY <1>5, <1>7, <2>0, <3>2
      <3> QED BY <2>0, <3>1, <3>3
    <2> QED BY <2>1, <2>2, <2>3
  <1> HIDE DEF more, L
  <1>11. OllamaKeeps(z, s, text, more, L)
    BY <1>2, <1>7, <1>8, <1>9, <1>10 DEF OllamaKeeps
  <1> QED BY <1>2, <1>4, <1>11 DEF d, at, more, L

-------------------------------------------------------------------------------
(* What the writers add at the end.                                          *)

\* The frames s say the text and of each call the arguments.
TellsAll(s, text, args) ==
    s \in Seq(RFrame) /\ ToldText(s) = text /\ \A c \in CallId : ToldArgs(s, c) = args[c]
\* The arguments of the calls where the dialect wants objects.
Repaired(args) == [c \in CallId |-> Repair(args[c])]

\* One frame for each of the calls in some order.
LEMMA FlatFrames ==
    ASSUME NEW h, h \in [Index -> RFrame], NEW ix \in Seq(Index)
    PROVE  /\ FlatSeq([i \in Index |-> <<h[i]>>], ix) = [j \in 1..Len(ix) |-> h[ix[j]]]
           /\ [j \in 1..Len(ix) |-> h[ix[j]]] \in Seq(RFrame)
  <1> DEFINE len == Len(ix)
             f == [j \in 1..len |-> h[ix[j]]]
             g == [i \in Index |-> <<h[i]>>]
  <1>1. len \in Nat /\ DOMAIN ix = 1..len /\ \A j \in 1..len : ix[j] \in Index OBVIOUS
  <1> HIDE DEF len
  <1>2. f \in [1..len -> RFrame] BY <1>1
  <1>3. \A j \in 1..len : g[ix[j]] = <<f[j]>> BY <1>1
  <1> HIDE DEF f, g
  <1>4. [j \in DOMAIN ix |-> g[ix[j]]] = [j \in 1..len |-> <<f[j]>>] BY <1>1, <1>3
  <1>5. FlattenSeq([j \in 1..len |-> <<f[j]>>]) = f BY <1>1, <1>2, FlattenSingles
  <1>6. FlatSeq(g, ix) = f BY <1>4, <1>5 DEF FlatSeq
  <1>7. f \in Seq(RFrame) BY <1>1, <1>2
  <1> QED BY <1>6, <1>7 DEF f, g, len

\* Frames that are of no call and no text.
LEMMA Mute ==
    ASSUME NEW a, Silent(a), \A i \in 1..Len(a) : a[i].kind # "text"
    PROVE  Sounds(a, <<>>)
  <1> DEFINE g == [v \in RFrame |-> <<>>]
  <1>1. a \in Seq(RFrame) /\ DOMAIN a = 1..Len(a) /\ \A i \in 1..Len(a) : a[i] \in RFrame
    BY DEF Silent
  <1>2. \A v \in RFrame : g[v] = <<>> OBVIOUS
  <1>3. Makes(g, RFrame, Seq(Int))
    <2>1. g \in [RFrame -> Seq(Int)] OBVIOUS
    <2> QED BY <2>1 DEF Makes
  <1>4. Each(OfKind("text"), a) = Each(g, a) BY <1>1, <1>2 DEF Each, OfKind
  <1> HIDE DEF g
  <1>5. Flat(g, a) = <<>> BY <1>1, <1>2, <1>3, FlatNothing
  <1> QED BY <1>4, <1>5 DEF Sounds, ToldText, Flat

\* Frames of no call at the end tell their text more.
LEMMA TellsMore ==
    ASSUME NEW s, Owners(s), NEW args, \A c \in CallId : ToldArgs(s, c) = args[c],
           NEW a, NEW t, Sounds(a, t)
    PROVE  TellsAll(s \o a, ToldText(s) \o t, args)
  <1> DEFINE u == s \o a
             b == ToldText(s) \o t
  <1>1. Owners(u) /\ ToldText(u) = b /\ \A c \in CallId : ToldArgs(u, c) = ToldArgs(s, c)
    BY SilentAfter
  <1> HIDE DEF u, b
  <1>2. u \in Seq(RFrame) /\ \A c \in CallId : ToldArgs(u, c) = args[c] BY <1>1 DEF Owners
  <1>3. TellsAll(u, b, args) BY <1>1, <1>2 DEF TellsAll
  <1> QED BY <1>3 DEF u, b

\* WriteOpenAIStream has told all.
LEMMA OpenAITells ==
    ASSUME NEW s, NEW text, NEW args, NEW K, OpenAIKeeps(s, text, args, K)
    PROVE  TellsAll(s \o <<>>, text, args)
  <1>1. s \in Seq(RFrame) /\ s \o <<>> = s BY DEF OpenAIKeeps, Owners
  <1> QED BY <1>1 DEF OpenAIKeeps, TellsAll

\* WriteAnthropicStream closes the last block and says what it held back.
LEMMA AnthropicTells ==
    ASSUME NEW s, NEW text, NEW args, NEW K, AnthropicKeeps(x, s, text, args, K)
    PROVE  TellsAll(s \o EmitHeld(x).add, text, args)
  <1>1. /\ AWriter(x) /\ Owners(s) /\ ToldText(s) \o x.held = text
        /\ \A c \in CallId : ToldArgs(s, c) = args[c]
    BY DEF AnthropicKeeps
  <1>2. Sounds(EmitHeld(x).add, x.held) BY <1>1, FlushingSays
  <1>3. TellsAll(s \o EmitHeld(x).add, ToldText(s) \o x.held, args)
    <2> DEFINE a == EmitHeld(x).add
               h == x.held
    <2>1. Sounds(a, h) BY <1>2
    <2> HIDE DEF a, h
    <2>2. TellsAll(s \o a, ToldText(s) \o h, args) BY <1>1, <2>1, TellsMore
    <2> QED BY <2>2 DEF a, h
  <1> QED BY <1>1, <1>3

\* WriteResponsesStream closes its items.
LEMMA ResponsesTells ==
    ASSUME NEW s, NEW text, NEW args, NEW K, ResponsesKeeps(x, s, text, args, K)
    PROVE  TellsAll(s \o (CloseMsg(x).add
                      \o FlatSeq([i \in Index |-> <<Frame("done", x.itemAt[i], 0, x.args[i])>>], x.order)),
                    text, args)
  <1> DEFINE h == [i \in Index |-> Frame("done", x.itemAt[i], 0, x.args[i])]
             q == [j \in 1..Len(x.order) |-> h[x.order[j]]]
             a == CloseMsg(x).add
  <1>1. RWriter(x) /\ Owners(s) /\ text \in Seq(Int) /\ ToldText(s) = text
        /\ \A c \in CallId : ToldArgs(s, c) = args[c]
    <2>1. text \in Seq(Int) BY ResponsesParts
    <2> QED BY <2>1 DEF ResponsesKeeps
  <1>2. x.order \in Seq(Index) /\ x.itemAt \in [Index -> Int] /\ x.args \in [Index -> Seq(Int)]
    BY <1>1 DEF RWriter
  <1>3. \A i \in Index : h[i] \in RFrame /\ h[i].kind = "done" /\ h[i].id = 0
    BY <1>2 DEF Frame, Delta, RFrame
  <1>4. h \in [Index -> RFrame] BY <1>3
  <1>5. \A i \in Index : <<h[i]>> = <<Frame("done", x.itemAt[i], 0, x.args[i])>> OBVIOUS
  <1> HIDE DEF h
  <1>6. FlatSeq([i \in Index |-> <<h[i]>>], x.order) = q /\ q \in Seq(RFrame)
    BY <1>2, <1>4, FlatFrames, ZenonT(60)
  <1>7. FlatSeq([i \in Index |-> <<Frame("done", x.itemAt[i], 0, x.args[i])>>], x.order) = q
    <2>1. [i \in Index |-> <<h[i]>>] = [i \in Index |-> <<Frame("done", x.itemAt[i], 0, x.args[i])>>]
      BY <1>5
    <2> QED BY <1>6, <2>1
  <1>8. Silent(q) /\ \A i \in 1..Len(q) : q[i].kind # "text"
    <2>1. \A i \in 1..Len(q) : q[i].kind = "done" /\ q[i].id = 0 BY <1>2, <1>3
    <2> HIDE DEF q
    <2> QED BY <1>6, <2>1 DEF Silent
  <1> HIDE DEF q
  <1>9. Sounds(q, <<>>) BY <1>8, Mute
  <1>10. Sounds(a, <<>>) BY <1>1, MessageSays
  <1> HIDE DEF a
  <1>11. Sounds(a \o q, <<>>)
    <2>1. Sounds(a \o q, <<>> \o <<>>) BY <1>9, <1>10, SoundsBoth
    <2>2. <<>> \o <<>> = <<>> OBVIOUS
    <2> QED BY <2>1, <2>2
  <1>12. TellsAll(s \o (a \o q), text, args)
    <2> DEFINE b == a \o q
    <2>1. Sounds(b, <<>>) BY <1>11
    <2> HIDE DEF b
    <2>2. TellsAll(s \o b, ToldText(s) \o <<>>, args) BY <1>1, <2>1, TellsMore
    <2>3. text \o <<>> = text BY <1>1
    <2> QED BY <1>1, <2>2, <2>3 DEF b
  <1> QED BY <1>7, <1>12 DEF a

\* Of no arguments, none.
LEMMA NoneRepaired == Repair(<<>>) = <<>>
  BY DEF Repair, Valid

\* WriteOllamaStream says the calls on its last line.
LEMMA OllamaTells ==
    ASSUME NEW s, NEW text, NEW args, NEW K \in SUBSET CallId, OllamaKeeps(x, s, text, args, K)
    PROVE  TellsAll(s \o FlatSeq([i \in Index |-> <<Frame("call", i, x.ids[i], Repair(x.args[i]))>>], x.order),
                    text, Repaired(args))
  <1> DEFINE h == [i \in Index |-> Frame("call", i, x.ids[i], Repair(x.args[i]))]
             q == [j \in 1..Len(x.order) |-> h[x.order[j]]]
  <1>1. /\ RWriter(x) /\ Owners(s) /\ ToldText(s) = text
        /\ \A c \in CallId : /\ Owned(s, c) = {} /\ ToldArgs(s, c) = <<>>
                             /\ x.args[IndexOf(c)] = args[c]
                             /\ args[c] # <<>> => \E i \in 1..Len(x.order) : x.order[i] = IndexOf(c)
        /\ \A c \in K : x.ids[IndexOf(c)] = c
        /\ \A i, j \in 1..Len(x.order) : x.order[i] = x.order[j] => i = j
        /\ \A i \in 1..Len(x.order) : \E c \in K : x.order[i] = IndexOf(c)
    BY DEF OllamaKeeps
  <1>2. x.order \in Seq(Index) /\ x.ids \in [Index -> Nat] /\ x.args \in [Index -> Seq(Int)]
    BY <1>1 DEF RWriter
  <1>0. \A i \in Index : Repair(x.args[i]) \in Seq(Int) BY <1>2 DEF Repair
  <1>3. \A i \in Index : /\ h[i] \in RFrame /\ h[i].kind = "call" /\ h[i].id = x.ids[i]
                         /\ h[i].at = i /\ h[i].piece = Repair(x.args[i])
    <2>1. \A i \in Index : i \in Int BY DialectsAssumption DEF Index
    <2> QED BY <1>0, <1>2, <2>1 DEF Frame, Delta, RFrame
  <1>4. h \in [Index -> RFrame] BY <1>3
  <1>5. \A i \in Index : <<h[i]>> = <<Frame("call", i, x.ids[i], Repair(x.args[i]))>> OBVIOUS
  <1> HIDE DEF h
  <1>6. FlatSeq([i \in Index |-> <<h[i]>>], x.order) = q /\ q \in Seq(RFrame)
    BY <1>2, <1>4, FlatFrames, ZenonT(60)
  <1>7. FlatSeq([i \in Index |-> <<Frame("call", i, x.ids[i], Repair(x.args[i]))>>], x.order) = q
    <2>1. [i \in Index |-> <<h[i]>>] = [i \in Index |-> <<Frame("call", i, x.ids[i], Repair(x.args[i]))>>]
      BY <1>5
    <2> QED BY <1>6, <2>1
  <1>8. /\ Len(q) = Len(x.order)
        /\ \A i \in 1..Len(q) : \E c \in K :
             q[i].kind = "call" /\ q[i].id = c /\ q[i].at = x.order[i] /\ x.order[i] = IndexOf(c)
             /\ q[i].piece = Repair(args[c])
    <2>1. Len(q) = Len(x.order) /\ \A i \in 1..Len(q) : x.order[i] \in Index /\ q[i] = h[x.order[i]]
      BY <1>2
    <2>2. ASSUME NEW i \in 1..Len(q)
          PROVE  \E c \in K : q[i].kind = "call" /\ q[i].id = c /\ q[i].at = x.order[i] /\ x.order[i] = IndexOf(c)
                   /\ q[i].piece = Repair(args[c])
      <3>1. PICK c \in K : x.order[i] = IndexOf(c) BY <1>1, <2>1
      <3>2. x.ids[x.order[i]] = c /\ x.args[x.order[i]] = args[c] BY <1>1, <3>1
      <3> HIDE DEF q
      <3> QED BY <1>3, <2>1, <3>1, <3>2
    <2> HIDE DEF q
    <2> QED BY <2>1, <2>2
  <1> HIDE DEF q
  <1>9. Apart(q)
    <2>1. \A i \in 1..Len(q) : q[i].kind = "call" /\ q[i].id \in CallId BY <1>8
    <2>2. ASSUME NEW i \in 1..Len(q), NEW j \in 1..Len(q), q[i].id = q[j].id \/ q[i].at = q[j].at PROVE i = j
      <3>1. x.order[i] = x.order[j] BY <1>8, <2>2
      <3> QED BY <1>1, <1>8, <3>1
    <2> QED BY <1>6, <2>1, <2>2 DEF Apart
  <1>10. AllTold(s, s \o q, q, Len(q)) BY <1>1, <1>9, CallsMore
  <1> DEFINE u == s \o q
  <1>11. AllTold(s, u, q, Len(q)) BY <1>10
  <1> HIDE DEF u
  <1>12. u \in Seq(RFrame) /\ ToldText(u) = text BY <1>1, <1>11 DEF AllTold, Owners
  <1>13. ASSUME NEW c \in CallId PROVE ToldArgs(u, c) = Repaired(args)[c]
    <2>1. CASE \E j \in 1..Len(q) : q[j].id = c
      <3>1. PICK j \in 1..Len(q) : q[j].id = c BY <2>1
      <3>2. q[j].piece = Repair(args[c]) BY <1>8, <3>1
      <3>3. ToldArgs(u, q[j].id) = q[j].piece BY <1>11 DEF AllTold
      <3> QED BY <3>1, <3>2, <3>3 DEF Repaired
    <2>2. CASE \A j \in 1..Len(q) : q[j].id # c
      <3>1. ToldArgs(u, c) = <<>> BY <1>11, <2>2 DEF AllTold
      <3>2. args[c] = <<>>
        <4> SUFFICES ASSUME args[c] # <<>> PROVE FALSE OBVIOUS
        <4>1. PICK i \in 1..Len(x.order) : x.order[i] = IndexOf(c) BY <1>1
        <4>2. PICK e \in K : q[i].id = e /\ IndexOf(e) = IndexOf(c) BY <1>8, <4>1
        <4>3. e = c BY <4>2, IndexIsIndex
        <4> QED BY <1>8, <2>2, <4>2, <4>3
      <3> QED BY <3>1, <3>2, NoneRepaired DEF Repaired
    <2> QED BY <2>1, <2>2
  <1>14. TellsAll(u, text, Repaired(args)) BY <1>12, <1>13 DEF TellsAll
  <1> QED BY <1>7, <1>14 DEF u

-------------------------------------------------------------------------------
(* Whichever writer it is.                                                   *)

\* What the writer of the client's dialect keeps.
KeepsTo(y, s, text, args, K) ==
    /\ to = "openai" => OpenAIKeeps(s, text, args, K)
    /\ to = "anthropic" => AnthropicKeeps(y, s, text, args, K)
    /\ to = "responses" => ResponsesKeeps(y, s, text, args, K)
    /\ to = "ollama" => OllamaKeeps(y, s, text, args, K)
Dialected == /\ to \in {"openai", "anthropic", "responses", "ollama"}
             /\ from \in {"openai", "anthropic", "responses", "ollama", "commandcode"}
\* What is told at the end of the arguments.
ToldAs(args) == IF to = "ollama" THEN Repaired(args) ELSE args

\* At the beginning, nothing.
LEMMA KeepsNothing ==
    ASSUME NEW args, \A c \in CallId : args[c] = <<>>
    PROVE  KeepsTo(NewWriter, <<>>, <<>>, args, {})
  <1>0. \A c \in CallId : IndexOf(c) \in Index BY IndexIsIndex
  <1>1. OpenAIKeeps(<<>>, <<>>, args, {}) BY ToldNone DEF OpenAIKeeps
  <1>2. /\ NewWriter.block = None /\ NewWriter.open = "none" /\ NewWriter.cur = None
        /\ NewWriter.held = <<>> /\ NewWriter.ids = [i \in Index |-> 0]
        /\ NewWriter.itemAt = [i \in Index |-> None] /\ NewWriter.args = [i \in Index |-> <<>>]
        /\ NewWriter.order = <<>> /\ NewWriter.outIdx = 0 /\ NewWriter.msgIdx = 0
        /\ NewWriter.fullText = <<>> /\ NewWriter.msgOpen = FALSE
        /\ DOMAIN NewWriter = {"block", "open", "cur", "held", "ids", "outIdx", "msgOpen", "msgIdx",
                              "fullText", "order", "itemAt", "args"}
    BY DEF NewWriter
  <1>3. AWriter(NewWriter) BY <1>2 DEF AWriter, None
  <1>4. RWriter(NewWriter)
    <2>1. [i \in Index |-> None] \in [Index -> Int] /\ [i \in Index |-> 0] \in [Index -> Nat]
      BY DEF None
    <2>2. [i \in Index |-> <<>>] \in [Index -> Seq(Int)] /\ <<>> \in Seq(Index) /\ <<>> \in Seq(Int)
      OBVIOUS
    <2>3. 0 \in Nat /\ FALSE \in BOOLEAN OBVIOUS
    <2> HIDE DEF None
    <2>4. /\ NewWriter.ids \in [Index -> Nat] /\ NewWriter.itemAt \in [Index -> Int]
          /\ NewWriter.args \in [Index -> Seq(Int)]
      BY <1>2, <2>1, <2>2
    <2>5. /\ NewWriter.order \in Seq(Index) /\ NewWriter.fullText \in Seq(Int)
          /\ NewWriter.outIdx \in Nat /\ NewWriter.msgIdx \in Nat /\ NewWriter.msgOpen \in BOOLEAN
      BY <1>2, <2>2, <2>3
    <2> QED BY <1>2, <2>4, <2>5 DEF RWriter
  <1>5. AnthropicKeeps(NewWriter, <<>>, <<>>, args, {})
    <2>1. ToldText(<<>>) \o NewWriter.held = <<>>
      <3>1. <<>> \o <<>> = <<>> OBVIOUS
      <3> QED BY <1>2, <3>1, ToldNone
    <2>2. \A c \in CallId : ToldArgs(<<>>, c) = args[c] /\ Owned(<<>>, c) = {} BY ToldNone
    <2>3. \A c \in CallId : NewWriter.ids[IndexOf(c)] \in {0, c} BY <1>0, <1>2
    <2> QED BY <1>2, <1>3, <2>1, <2>2, <2>3, ToldNone DEF AnthropicKeeps
  <1>6. ResponsesKeeps(NewWriter, <<>>, <<>>, args, {})
    <2>1. \A i \in Index : NewWriter.itemAt[i] = None BY <1>2
    <2> QED BY <1>4, <2>1, ToldNone DEF ResponsesKeeps
  <1>7. OllamaKeeps(NewWriter, <<>>, <<>>, args, {})
    <2>1. \A i : i \notin 1..Len(NewWriter.order) BY <1>2
    <2>2. \A c \in CallId : NewWriter.args[IndexOf(c)] = args[c] /\ NewWriter.ids[IndexOf(c)] \in {0, c}
      BY <1>0, <1>2
    <2> QED BY <1>4, <2>1, <2>2, ToldNone DEF OllamaKeeps
  <1> QED BY <1>1, <1>5, <1>6, <1>7 DEF KeepsTo

\* The writer is the client's.
LEMMA WritesTo ==
    ASSUME Dialected, mode = "stream", NEW d, Deliver(d)
    PROVE  /\ to = "openai" => x' = WriteOpenAI(d).x /\ sent' = sent \o WriteOpenAI(d).add
           /\ to = "anthropic" => x' = WriteAnthropic(d).x /\ sent' = sent \o WriteAnthropic(d).add
           /\ to = "responses" => x' = WriteResponses(d).x /\ sent' = sent \o WriteResponses(d).add
           /\ to = "ollama" => x' = WriteOllama(d).x /\ sent' = sent \o WriteOllama(d).add
  <1>1. x' = Write(d).x /\ sent' = sent \o Write(d).add BY DEF Deliver
  <1>2. /\ to = "openai" => Write(d) = WriteOpenAI(d)
        /\ to = "anthropic" => Write(d) = WriteAnthropic(d)
        /\ to = "responses" => Write(d) = WriteResponses(d)
        /\ to = "ollama" => Write(d) = WriteOllama(d)
    BY DEF Write
  <1> QED BY <1>1, <1>2

\* A text or a thought is delivered.
LEMMA TextDelivered ==
    ASSUME Dialected, mode = "stream", NEW text, NEW args, NEW K \in SUBSET CallId,
           KeepsTo(x, sent, text, args, K),
           NEW kind \in {"text", "reason"}, NEW piece \in Seq(Int), Deliver(Delta(kind, None, 0, piece))
    PROVE  KeepsTo(x', sent', IF kind = "text" THEN text \o piece ELSE text, args, K)
  <1> DEFINE d == Delta(kind, None, 0, piece)
             t == IF kind = "text" THEN text \o piece ELSE text
  <1>1. CASE to = "openai"
    <2>1. sent' = sent \o WriteOpenAI(d).add BY <1>1, WritesTo
    <2>2. OpenAIKeeps(sent, text, args, K) BY <1>1 DEF KeepsTo
    <2>3. OpenAIKeeps(sent \o WriteOpenAI(d).add, t, args, K) BY <2>2, OpenAIText
    <2> HIDE DEF d, t
    <2> QED BY <1>1, <2>1, <2>3 DEF KeepsTo, t
  <1>2. CASE to = "anthropic"
    <2>1. x' = WriteAnthropic(d).x /\ sent' = sent \o WriteAnthropic(d).add BY <1>2, WritesTo
    <2>2. AnthropicKeeps(x, sent, text, args, K) BY <1>2 DEF KeepsTo
    <2>3. AnthropicKeeps(WriteAnthropic(d).x, sent \o WriteAnthropic(d).add, t, args, K)
      BY <2>2, AnthropicText
    <2> HIDE DEF d, t
    <2> QED BY <1>2, <2>1, <2>3 DEF KeepsTo, t
  <1>3. CASE to = "responses"
    <2>1. x' = WriteResponses(d).x /\ sent' = sent \o WriteResponses(d).add BY <1>3, WritesTo
    <2>2. ResponsesKeeps(x, sent, text, args, K) BY <1>3 DEF KeepsTo
    <2>3. ResponsesKeeps(WriteResponses(d).x, sent \o WriteResponses(d).add, t, args, K)
      BY <2>2, ResponsesText
    <2> HIDE DEF d, t
    <2> QED BY <1>3, <2>1, <2>3 DEF KeepsTo, t
  <1>4. CASE to = "ollama"
    <2>1. x' = WriteOllama(d).x /\ sent' = sent \o WriteOllama(d).add BY <1>4, WritesTo
    <2>2. OllamaKeeps(x, sent, text, args, K) BY <1>4 DEF KeepsTo
    <2>3. OllamaKeeps(WriteOllama(d).x, sent \o WriteOllama(d).add, t, args, K)
      BY <2>2, OllamaText
    <2> HIDE DEF d, t
    <2> QED BY <1>4, <2>1, <2>3 DEF KeepsTo, t
  <1> QED BY <1>1, <1>2, <1>3, <1>4 DEF Dialected

\* A piece of a call is delivered, or its beginning.
LEMMA CallDelivered ==
    ASSUME Dialected, mode = "stream", NEW text, NEW args, NEW K \in SUBSET CallId,
           KeepsTo(x, sent, text, args, K),
           NEW c \in CallId, NEW id \in {0, c}, id = 0 => c \in K, NEW piece \in Seq(Int),
           Deliver(CallDelta(IndexOf(c), id, piece))
    PROVE  KeepsTo(x', sent', text, More(args, c, piece), K \union {c})
  <1> DEFINE d == CallDelta(IndexOf(c), id, piece)
             more == More(args, c, piece)
             L == K \union {c}
  <1>1. CASE to = "openai"
    <2>1. sent' = sent \o WriteOpenAI(d).add BY <1>1, WritesTo
    <2>2. OpenAIKeeps(sent, text, args, K) BY <1>1 DEF KeepsTo
    <2>3. OpenAIKeeps(sent \o WriteOpenAI(d).add, text, more, L) BY <2>2, OpenAICall
    <2> HIDE DEF d, more, L
    <2> QED BY <1>1, <2>1, <2>3 DEF KeepsTo, more, L
  <1>2. CASE to = "anthropic"
    <2>1. x' = WriteAnthropic(d).x /\ sent' = sent \o WriteAnthropic(d).add BY <1>2, WritesTo
    <2>2. AnthropicKeeps(x, sent, text, args, K) BY <1>2 DEF KeepsTo
    <2>3. AnthropicKeeps(WriteAnthropic(d).x, sent \o WriteAnthropic(d).add, text, more, L)
      BY <2>2, AnthropicCall
    <2> HIDE DEF d, more, L
    <2> QED BY <1>2, <2>1, <2>3 DEF KeepsTo, more, L
  <1>3. CASE to = "responses"
    <2>1. x' = WriteResponses(d).x /\ sent' = sent \o WriteResponses(d).add BY <1>3, WritesTo
    <2>2. ResponsesKeeps(x, sent, text, args, K) BY <1>3 DEF KeepsTo
    <2>3. ResponsesKeeps(WriteResponses(d).x, sent \o WriteResponses(d).add, text, more, L)
      BY <2>2, ResponsesCall
    <2> HIDE DEF d, more, L
    <2> QED BY <1>3, <2>1, <2>3 DEF KeepsTo, more, L
  <1>4. CASE to = "ollama"
    <2>1. x' = WriteOllama(d).x /\ sent' = sent \o WriteOllama(d).add BY <1>4, WritesTo
    <2>2. OllamaKeeps(x, sent, text, args, K) BY <1>4 DEF KeepsTo
    <2>3. OllamaKeeps(WriteOllama(d).x, sent \o WriteOllama(d).add, text, more, L)
      BY <2>2, OllamaCall
    <2> HIDE DEF d, more, L
    <2> QED BY <1>4, <2>1, <2>3 DEF KeepsTo, more, L
  <1> QED BY <1>1, <1>2, <1>3, <1>4 DEF Dialected

\* The writer has told all when the deltas have ended.
LEMMA EndTells ==
    ASSUME Dialected, NEW text, NEW args, NEW K \in SUBSET CallId, KeepsTo(x, sent, text, args, K)
    PROVE  TellsAll(sent \o Finishing, text, ToldAs(args))
  <1>1. CASE to = "openai"
    <2>1. TellsAll(sent \o <<>>, text, args) BY <1>1, OpenAITells DEF KeepsTo
    <2>2. Finishing = <<>> /\ ToldAs(args) = args BY <1>1 DEF Finishing, ToldAs
    <2> QED BY <2>1, <2>2
  <1>2. CASE to = "anthropic"
    <2>1. TellsAll(sent \o EmitHeld(x).add, text, args) BY <1>2, AnthropicTells DEF KeepsTo
    <2>2. Finishing = EmitHeld(x).add /\ ToldAs(args) = args BY <1>2 DEF Finishing, ToldAs
    <2> QED BY <2>1, <2>2
  <1>3. CASE to = "responses"
    <2> DEFINE a == CloseMsg(x).add
                 \o FlatSeq([i \in Index |-> <<Frame("done", x.itemAt[i], 0, x.args[i])>>], x.order)
    <2>0. ResponsesKeeps(x, sent, text, args, K) BY <1>3 DEF KeepsTo
    <2>1. TellsAll(sent \o a, text, args) BY <2>0, ResponsesTells
    <2>2. Finishing = a /\ ToldAs(args) = args BY <1>3 DEF Finishing, ToldAs
    <2> HIDE DEF a
    <2> QED BY <2>1, <2>2
  <1>4. CASE to = "ollama"
    <2> DEFINE a == FlatSeq([i \in Index |-> <<Frame("call", i, x.ids[i], Repair(x.args[i]))>>], x.order)
    <2>0. OllamaKeeps(x, sent, text, args, K) BY <1>4 DEF KeepsTo
    <2>1. TellsAll(sent \o a, text, Repaired(args)) BY <2>0, OllamaTells
    <2>2. Finishing = a /\ ToldAs(args) = Repaired(args) BY <1>4 DEF Finishing, ToldAs
    <2> HIDE DEF a
    <2> QED BY <2>1, <2>2
  <1> QED BY <1>1, <1>2, <1>3, <1>4 DEF Dialected

-------------------------------------------------------------------------------
(* What the upstream said and what the reader makes of it.                   *)

\* The fragments a are the fragments b, but some arrived damaged.
Shadow(a, b) == Len(a) = Len(b) /\ \A i \in 1..Len(b) : b[i] # 0 /\ a[i] \in {b[i], 0}
Argued == [CallId -> Seq(Int)]

\* The reader's copy of call c's arguments: damaged only where fragments were,
\* mended when the call was closed, and empty before anything came.
Copied(c) ==
    /\ Shadow(rd.copy[c], said.args[c])
    /\ c \notin said.hurt => rd.copy[c] = said.args[c]
    /\ c \in rd.over /\ Valid(said.args[c]) => rd.copy[c] = said.args[c]
    /\ c > said.started => said.args[c] = <<>>
    /\ c \in said.hurt => c \in rd.seen
    /\ c \notin rd.seen /\ c \notin rd.over /\ from # "ollama" => said.args[c] = <<>>
SpeechInv ==
    /\ n \in Nat /\ Dialected /\ said.text \in Seq(Int) /\ said.thought \in Seq(Int)
    /\ said.args \in Argued /\ rd.copy \in Argued /\ said.started \in 0..Calls
    /\ \A c \in CallId : Copied(c)

\* A copy that parses is not damaged.
LEMMA ValidShadow ==
    ASSUME NEW a \in Seq(Int), NEW b \in Seq(Int), Shadow(a, b), Valid(a)
    PROVE  a = b
  <1>1. Len(a) = Len(b) /\ Len(a) \in Nat /\ DOMAIN a = 1..Len(a) /\ DOMAIN b = 1..Len(b)
    BY DEF Shadow
  <1>2. ASSUME NEW i \in 1..Len(a) PROVE a[i] = b[i]
    <2>1. a[i] \in Int /\ a[i] \in {b[i], 0} BY <1>1, <1>2 DEF Shadow
    <2>2. a[i] # 0
      <3> SUFFICES ASSUME a[i] = 0 PROVE FALSE OBVIOUS
      <3>1. i \in {j \in DOMAIN a : a[j] <= 0} BY <1>1
      <3>2. {j \in DOMAIN a : a[j] <= 0} = {Len(a)} BY DEF Valid
      <3>3. i = Len(a) BY <3>1, <3>2
      <3>4. a[Len(a)] < 0 BY DEF Valid, Last
      <3> QED BY <3>3, <3>4
    <2> QED BY <2>1, <2>2
  <1> QED BY <1>1, <1>2, SMTT(60)

\* One fragment more.
LEMMA ShadowMore ==
    ASSUME NEW a \in Seq(Int), NEW b \in Seq(Int), Shadow(a, b), NEW p \in Int, p # 0,
           NEW q \in {p, 0}
    PROVE  Shadow(a \o <<q>>, Append(b, p)) /\ (a = b /\ q = p => a \o <<q>> = Append(b, p))
  <1> DEFINE u == a \o <<q>>
             v == Append(b, p)
  <1>1. /\ Len(a) = Len(b) /\ Len(b) \in Nat /\ Len(u) = Len(b) + 1 /\ Len(v) = Len(b) + 1
        /\ \A i \in 1..Len(b) : u[i] = a[i] /\ v[i] = b[i]
        /\ u[Len(b) + 1] = q /\ v[Len(b) + 1] = p
    <2>1. Len(a) = Len(b) BY DEF Shadow
    <2> QED BY <2>1
  <1>2. a = b /\ q = p => u = v OBVIOUS
  <1> HIDE DEF u, v
  <1>3. ASSUME NEW i \in 1..Len(v) PROVE v[i] # 0 /\ u[i] \in {v[i], 0}
    <2>1. CASE i = Len(b) + 1 BY <1>1, <2>1
    <2>2. CASE i # Len(b) + 1
      <3>1. i \in 1..Len(b) BY <1>1, <2>2
      <3> QED BY <1>1, <3>1 DEF Shadow
    <2> QED BY <2>1, <2>2
  <1>4. Shadow(u, v) BY <1>1, <1>3 DEF Shadow
  <1> QED BY <1>2, <1>4 DEF u, v

\* A single fragment of its own.
LEMMA ShadowSelf ==
    ASSUME NEW b \in Seq(Int), \A i \in 1..Len(b) : b[i] # 0
    PROVE  Shadow(b, b)
  BY DEF Shadow

\* A whole argument text in one piece.
LEMMA ShadowOne == ASSUME NEW p \in Int, p # 0 PROVE Shadow(<<p>>, <<p>>) /\ <<p>> \in Seq(Int)
  <1>1. \A i \in 1..Len(<<p>>) : <<p>>[i] = p OBVIOUS
  <1>2. \A i \in 1..Len(<<p>>) : <<p>>[i] # 0 BY <1>1
  <1> QED BY <1>2, ShadowSelf

\* A call of which nothing came.
LEMMA CopiedSame ==
    ASSUME NEW c \in CallId, Copied(c), from' = from,
           said'.args[c] = said.args[c], rd'.copy[c] = rd.copy[c],
           c \in said'.hurt <=> c \in said.hurt, c \in rd'.seen <=> c \in rd.seen,
           c \in rd'.over <=> c \in rd.over,
           said.started \in Nat, said'.started \in Nat, said'.started >= said.started
    PROVE  Copied(c)'
  <1>1. c > said'.started => c > said.started BY DEF CallId
  <1> QED BY <1>1 DEF Copied

\* A step in which no fragment came.
LEMMA SpeechSame ==
    ASSUME SpeechInv, n' \in Nat, UNCHANGED <<from, to>>,
           said'.text \in Seq(Int), said'.thought \in Seq(Int),
           said'.args = said.args, said'.hurt = said.hurt, said'.started \in 0..Calls,
           said'.started >= said.started,
           rd'.copy = rd.copy, rd'.seen = rd.seen, rd'.over = rd.over
    PROVE  SpeechInv'
  <1>1. said.started \in Nat /\ said'.started \in Nat BY DEF SpeechInv
  <1>2. ASSUME NEW c \in CallId PROVE Copied(c)'
    <2>1. Copied(c) BY DEF SpeechInv
    <2> QED BY <1>1, <2>1, CopiedSame
  <1> QED BY <1>2 DEF SpeechInv, Dialected

\* A fragment is kept.
LEMMA SpeechArgs ==
    ASSUME EndInv, SpeechInv, NEW c \in CallId, SayArgs(c)
    PROVE  SpeechInv'
  <1>1. /\ from # "ollama" /\ Growing(c) /\ c \notin rd.over /\ n' = n + 1
        /\ UNCHANGED <<from, to, mode>>
    BY DEF SayArgs
  <1>2. PICK p, q : /\ p \in {n', -n'} /\ q \in {p, 0}
                    /\ said' = [said EXCEPT !.args[c] = Append(@, p),
                                            !.hurt = IF q # p THEN @ \union {c} ELSE @,
                                            !.mixed = @ \/ c < said.started]
                    /\ rd' = [rd EXCEPT !.copy[c] = @ \o <<q>>, !.seen = @ \union {c}]
    <2>1. PICK last \in BOOLEAN, damaged \in BOOLEAN :
            LET piece == IF last THEN -n' ELSE n'
                heard == IF damaged THEN <<0>> ELSE <<piece>>
            IN /\ said' = [said EXCEPT !.args[c] = Append(@, piece),
                                       !.hurt = IF damaged THEN @ \cup {c} ELSE @,
                                       !.mixed = @ \/ c < said.started]
               /\ rd' = [rd EXCEPT !.copy[c] = @ \o heard, !.seen = @ \cup {c}]
      BY DEF SayArgs
    <2>2. n' \in Nat /\ n' # 0 /\ -n' # 0 BY <1>1 DEF SpeechInv
    <2> DEFINE p == IF last THEN -n' ELSE n'
               q == IF damaged THEN 0 ELSE p
    <2>3. p \in {n', -n'} /\ q \in {p, 0} /\ (damaged <=> q # p) BY <2>2
    <2>4. (IF damaged THEN <<0>> ELSE <<p>>) = <<q>> OBVIOUS
    <2>5. (IF damaged THEN said.hurt \union {c} ELSE said.hurt) = IF q # p THEN said.hurt \union {c} ELSE said.hurt
      BY <2>3
    <2>6. said' = [said EXCEPT !.args[c] = Append(@, p),
                               !.hurt = IF q # p THEN @ \union {c} ELSE @,
                               !.mixed = @ \/ c < said.started]
      BY <2>1, <2>5
    <2>7. rd' = [rd EXCEPT !.copy[c] = @ \o <<q>>, !.seen = @ \union {c}] BY <2>1, <2>4
    <2> HIDE DEF p, q
    <2> QED BY <2>3, <2>6, <2>7
  <1>3. p \in Int /\ p # 0 /\ q \in Int /\ n' \in Nat BY <1>1, <1>2 DEF SpeechInv
  <1>4. /\ said.args \in Argued /\ rd.copy \in Argued /\ said.started \in 0..Calls /\ c <= said.started
        /\ said.text \in Seq(Int) /\ said.thought \in Seq(Int) /\ \A e \in CallId : Copied(e)
    BY <1>1 DEF SpeechInv, Growing
  <1>5. /\ said'.args = [said.args EXCEPT ![c] = Append(said.args[c], p)]
        /\ said'.hurt = IF q # p THEN said.hurt \union {c} ELSE said.hurt
        /\ said'.started = said.started /\ said'.text = said.text /\ said'.thought = said.thought
        /\ rd'.copy = [rd.copy EXCEPT ![c] = rd.copy[c] \o <<q>>] /\ rd'.seen = rd.seen \union {c}
        /\ rd'.over = rd.over
    BY <1>2 DEF EndInv, Shaped
  <1>6. said.args[c] \in Seq(Int) /\ rd.copy[c] \in Seq(Int) BY <1>4 DEF Argued
  <1>7. said'.args \in Argued /\ rd'.copy \in Argued
    <2>1. Append(said.args[c], p) \in Seq(Int) /\ rd.copy[c] \o <<q>> \in Seq(Int) BY <1>3, <1>6
    <2> QED BY <1>4, <1>5, <2>1 DEF Argued
  <1>8. ASSUME NEW e \in CallId PROVE Copied(e)'
    <2>1. CASE e # c
      <3>1. said'.args[e] = said.args[e] /\ rd'.copy[e] = rd.copy[e] BY <1>4, <1>5, <2>1 DEF Argued
      <3>2. /\ e \in said'.hurt <=> e \in said.hurt
            /\ e \in rd'.seen <=> e \in rd.seen
            /\ e \in rd'.over <=> e \in rd.over
        BY <1>5, <2>1
      <3>3. said.started \in Nat /\ said'.started \in Nat /\ said'.started >= said.started
        BY <1>4, <1>5
      <3>4. Copied(e) /\ from' = from BY <1>1, <1>4
      <3> QED BY <3>1, <3>2, <3>3, <3>4, CopiedSame
    <2>2. CASE e = c
      <3>1. said'.args[c] = Append(said.args[c], p) /\ rd'.copy[c] = rd.copy[c] \o <<q>>
        BY <1>4, <1>5 DEF Argued
      <3>2. Shadow(rd.copy[c], said.args[c]) /\ (c \notin said.hurt => rd.copy[c] = said.args[c])
        BY <1>4 DEF Copied
      <3>3. /\ Shadow(rd'.copy[c], said'.args[c])
            /\ rd.copy[c] = said.args[c] /\ q = p => rd'.copy[c] = said'.args[c]
        <4> DEFINE a == rd.copy[c]
                   b == said.args[c]
        <4>1. a \in Seq(Int) /\ b \in Seq(Int) /\ Shadow(a, b) BY <1>6, <3>2
        <4>2. p \in Int /\ p # 0 /\ q \in {p, 0} BY <1>2, <1>3
        <4>3. rd'.copy[c] = a \o <<q>> /\ said'.args[c] = Append(b, p) BY <3>1
        <4> HIDE DEF a, b
        <4>4. Shadow(a \o <<q>>, Append(b, p)) /\ (a = b /\ q = p => a \o <<q>> = Append(b, p))
          BY <4>1, <4>2, ShadowMore
        <4>5. Shadow(rd'.copy[c], said'.args[c]) BY <4>3, <4>4
        <4>6. a = b /\ q = p => rd'.copy[c] = said'.args[c] BY <4>3, <4>4
        <4> QED BY <4>5, <4>6 DEF a, b
      <3>4. c \notin said'.hurt => rd'.copy[c] = said'.args[c] BY <1>5, <3>2, <3>3
      <3>5. c \in rd'.seen /\ c \notin rd'.over /\ ~(c > said'.started)
        BY <1>1, <1>4, <1>5 DEF CallId
      <3> QED BY <2>2, <3>3, <3>4, <3>5 DEF Copied
    <2> QED BY <2>1, <2>2
  <1> QED BY <1>1, <1>3, <1>4, <1>5, <1>7, <1>8 DEF SpeechInv, Dialected

\* The call of an Ollama upstream comes in one piece.
LEMMA SpeechCall ==
    ASSUME EndInv, SpeechInv, SayCall
    PROVE  SpeechInv'
  <1> DEFINE c == said.started + 1
  <1>1. /\ from = "ollama" /\ said.started < Calls /\ n' = n + 1 /\ UNCHANGED <<from, to, mode>>
        /\ said' = [said EXCEPT !.started = c, !.args[c] = <<-n'>>]
        /\ rd' = [rd EXCEPT !.copy[c] = <<-n'>>, !.finish = "tool_calls"]
    BY DEF SayCall
  <1>2. /\ said.args \in Argued /\ rd.copy \in Argued /\ said.started \in 0..Calls /\ n' \in Nat
        /\ said.text \in Seq(Int) /\ said.thought \in Seq(Int) /\ \A e \in CallId : Copied(e)
        /\ -n' \in Int /\ -n' # 0 /\ Calls \in Nat
    BY <1>1, DialectsAssumption DEF SpeechInv
  <1>3. c \in CallId /\ c \in Nat /\ c \in 0..Calls /\ c > said.started BY <1>1, <1>2 DEF CallId
  <1> DEFINE b == <<-n'>>
  <1>4. b \in Seq(Int) /\ Len(b) = 1 /\ b[1] = -n' BY <1>2
  <1> HIDE DEF c, b
  <1>5. /\ said'.args = [said.args EXCEPT ![c] = b] /\ said'.hurt = said.hurt
        /\ said'.started = c /\ said'.text = said.text /\ said'.thought = said.thought
        /\ rd'.copy = [rd.copy EXCEPT ![c] = b] /\ rd'.seen = rd.seen /\ rd'.over = rd.over
    BY <1>1 DEF EndInv, Shaped, b
  <1>6. said'.args \in Argued /\ rd'.copy \in Argued BY <1>2, <1>4, <1>5, ZenonT(60) DEF Argued
  <1>7. Shadow(b, b)
    <2>1. Shadow(<<-n'>>, <<-n'>>) BY <1>2, ShadowOne
    <2> QED BY <2>1 DEF b
  <1>8. ASSUME NEW e \in CallId PROVE Copied(e)'
    <2>1. CASE e # c
      <3>1. said'.args[e] = said.args[e] /\ rd'.copy[e] = rd.copy[e] BY <1>2, <1>5, <2>1 DEF Argued
      <3>2. said.started \in Nat /\ said'.started \in Nat /\ said'.started >= said.started
        BY <1>2, <1>3, <1>5
      <3>3. Copied(e) /\ from' = from BY <1>1, <1>2
      <3> QED BY <1>5, <3>1, <3>2, <3>3, CopiedSame
    <2>2. CASE e = c
      <3>1. said'.args[c] = b /\ rd'.copy[c] = b BY <1>2, <1>3, <1>5 DEF Argued
      <3>2. c \in said'.hurt => c \in rd'.seen BY <1>2, <1>3, <1>5 DEF Copied
      <3>3. ~(c > said'.started) /\ from' = "ollama" BY <1>1, <1>3, <1>5
      <3> QED BY <1>7, <2>2, <3>1, <3>2, <3>3 DEF Copied
    <2> QED BY <2>1, <2>2
  <1> QED BY <1>1, <1>2, <1>3, <1>5, <1>6, <1>8 DEF SpeechInv, Dialected

\* The closing event of a Command Code upstream mends the copy.
LEMMA SpeechEnd ==
    ASSUME EndInv, SpeechInv, NEW c \in CallId, EndCall(c)
    PROVE  SpeechInv'
  <1>1. /\ from = "commandcode" /\ c <= said.started /\ c \notin rd.over /\ UNCHANGED <<from, to, mode>>
        /\ rd' = [rd EXCEPT !.copy[c] = RepairCopy(c, said'.args[c]), !.over = @ \cup {c}]
        /\ IF c \in rd.seen THEN UNCHANGED <<n, said>>
           ELSE /\ n' = n + 1
                /\ said' = [said EXCEPT !.args[c] = <<-n'>>, !.mixed = @ \/ c < said.started]
    BY DEF EndCall
  <1>2. /\ said.args \in Argued /\ rd.copy \in Argued /\ said.started \in 0..Calls /\ n \in Nat
        /\ said.text \in Seq(Int) /\ said.thought \in Seq(Int) /\ \A e \in CallId : Copied(e)
    BY DEF SpeechInv
  <1>3. n' \in Nat /\ (c \notin rd.seen => -n' \in Int /\ -n' # 0) BY <1>1, <1>2
  <1> DEFINE b == said'.args[c]
             a == RepairCopy(c, b)
  <1>4. /\ said'.hurt = said.hurt /\ said'.started = said.started /\ said'.text = said.text
        /\ said'.thought = said.thought
        /\ c \in rd.seen => said'.args = said.args
        /\ c \notin rd.seen => said'.args = [said.args EXCEPT ![c] = <<-n'>>]
        /\ rd'.copy = [rd.copy EXCEPT ![c] = a] /\ rd'.seen = rd.seen
        /\ rd'.over = rd.over \union {c}
    BY <1>1 DEF EndInv, Shaped
  <1>5. b \in Seq(Int) /\ said'.args \in Argued /\ \A e \in CallId \ {c} : said'.args[e] = said.args[e]
    <2>1. c \notin rd.seen => <<-n'>> \in Seq(Int) BY <1>3
    <2> QED BY <1>2, <1>4, <2>1 DEF Argued
  <1>6. a \in Seq(Int) /\ Shadow(a, b) /\ (c \notin said.hurt => a = b) /\ (Valid(b) => a = b)
    <2>0. rd.copy[c] \in Seq(Int) /\ said.args[c] \in Seq(Int) BY <1>2 DEF Argued
    <2>1. CASE c \in rd.seen
      <3>1. b = said.args[c] BY <1>4, <2>1
      <3>2. Shadow(rd.copy[c], b) /\ (c \notin said.hurt => rd.copy[c] = b) BY <1>2, <3>1 DEF Copied
      <3>3. \A i \in 1..Len(b) : b[i] # 0 BY <3>2 DEF Shadow
      <3>4. a = IF ~Valid(rd.copy[c]) /\ Valid(b) THEN b ELSE rd.copy[c] BY <2>1 DEF RepairCopy
      <3> HIDE DEF a, b
      <3>5. Shadow(b, b) BY <1>5, <3>3, ShadowSelf
      <3>6. Valid(rd.copy[c]) => rd.copy[c] = b BY <1>5, <2>0, <3>2, ValidShadow
      <3> QED BY <1>5, <2>0, <3>2, <3>4, <3>5, <3>6
    <2>2. CASE c \notin rd.seen
      <3>1. b = <<-n'>> BY <1>2, <1>4, <2>2 DEF Argued
      <3>2. a = b BY <2>2 DEF RepairCopy
      <3>3. Shadow(<<-n'>>, <<-n'>>) BY <1>3, <2>2, ShadowOne
      <3> HIDE DEF a, b
      <3>5. Shadow(b, b) BY <3>1, <3>3
      <3> QED BY <1>5, <3>2, <3>5
    <2> QED BY <2>1, <2>2
  <1>10. said'.args[c] = b OBVIOUS
  <1> HIDE DEF a, b
  <1>7. rd'.copy \in Argued /\ rd'.copy[c] = a BY <1>2, <1>4, <1>6 DEF Argued
  <1>8. ASSUME NEW e \in CallId PROVE Copied(e)'
    <2>1. CASE e # c
      <3>1. said'.args[e] = said.args[e] /\ rd'.copy[e] = rd.copy[e]
        BY <1>2, <1>4, <1>5, <2>1 DEF Argued
      <3>2. said.started \in Nat /\ said'.started \in Nat /\ said'.started >= said.started
        BY <1>2, <1>4
      <3>3. Copied(e) /\ from' = from BY <1>1, <1>2
      <3>4. e \in rd'.over <=> e \in rd.over BY <1>4, <2>1
      <3> QED BY <1>4, <3>1, <3>2, <3>3, <3>4, CopiedSame
    <2>2. CASE e = c
      <3>1. c \in said'.hurt => c \in rd'.seen BY <1>2, <1>4 DEF Copied
      <3>2. ~(c > said'.started) /\ c \in rd'.over BY <1>1, <1>2, <1>4 DEF CallId
      <3> QED BY <1>4, <1>6, <1>7, <1>10, <2>2, <3>1, <3>2 DEF Copied
    <2> QED BY <2>1, <2>2
  <1> QED BY <1>1, <1>2, <1>3, <1>4, <1>5, <1>7, <1>8 DEF SpeechInv, Dialected

\* The reader keeps up with every step.
LEMMA SpeechStep == EndInv /\ SpeechInv /\ [Next]_vars => SpeechInv'
  <1> SUFFICES ASSUME EndInv, SpeechInv, [Next]_vars PROVE SpeechInv' OBVIOUS
  <1>0. /\ DOMAIN said = {"text", "thought", "args", "started", "open", "hurt", "mixed", "why", "failed"}
        /\ DOMAIN rd = {"copy", "seen", "over", "finish", "usage"}
    BY DEF EndInv, Shaped
  <1>1. n \in Nat /\ said.started \in 0..Calls /\ said.text \in Seq(Int) /\ said.thought \in Seq(Int)
    BY DEF SpeechInv
  <1>2. CASE UNCHANGED vars
    BY <1>1, <1>2, SpeechSame DEF vars
  <1>3. CASE SayText
    <2>1. /\ n' = n + 1 /\ UNCHANGED <<from, to, rd>>
          /\ said' = [said EXCEPT !.text = Append(@, n'), !.open = 0]
      BY <1>3 DEF SayText
    <2>2. Append(said.text, n') \in Seq(Int) /\ n' \in Nat BY <1>1, <2>1
    <2>3. /\ said'.text = Append(said.text, n') /\ said'.thought = said.thought
          /\ said'.args = said.args /\ said'.hurt = said.hurt /\ said'.started = said.started
      BY <1>0, <2>1
    <2>4. said'.text \in Seq(Int) /\ said'.started >= said.started BY <1>1, <2>2, <2>3
    <2> QED BY <1>1, <2>1, <2>2, <2>3, <2>4, SpeechSame
  <1>4. CASE SayThought
    <2>1. /\ n' = n + 1 /\ UNCHANGED <<from, to, rd>>
          /\ said' = [said EXCEPT !.thought = Append(@, n'), !.open = 0]
      BY <1>4 DEF SayThought
    <2>2. Append(said.thought, n') \in Seq(Int) /\ n' \in Nat BY <1>1, <2>1
    <2>3. /\ said'.thought = Append(said.thought, n') /\ said'.text = said.text
          /\ said'.args = said.args /\ said'.hurt = said.hurt /\ said'.started = said.started
      BY <1>0, <2>1
    <2>4. said'.thought \in Seq(Int) /\ said'.started >= said.started BY <1>1, <2>2, <2>3
    <2> QED BY <1>1, <2>1, <2>2, <2>3, <2>4, SpeechSame
  <1>5. CASE StartCall
    <2>1. /\ n' = n /\ UNCHANGED <<from, to>> /\ said.started < Calls
          /\ said' = [said EXCEPT !.started = @ + 1, !.open = said.started + 1]
          /\ rd' = IF from = "responses" THEN [rd EXCEPT !.finish = "tool_calls"] ELSE rd
      BY <1>5 DEF StartCall
    <2>2. /\ said'.started = said.started + 1 /\ said'.text = said.text /\ said'.thought = said.thought
          /\ said'.args = said.args /\ said'.hurt = said.hurt
          /\ rd'.copy = rd.copy /\ rd'.seen = rd.seen /\ rd'.over = rd.over
      BY <1>0, <2>1
    <2>3. said'.started \in 0..Calls /\ said'.started >= said.started
      BY <1>1, <2>1, <2>2, DialectsAssumption
    <2>4. said'.text \in Seq(Int) /\ said'.thought \in Seq(Int) /\ n' \in Nat BY <1>1, <2>1, <2>2
    <2> QED BY <2>1, <2>2, <2>3, <2>4, SpeechSame
  <1>6. CASE SayCall BY <1>6, SpeechCall
  <1>7. ASSUME NEW c \in CallId, SayArgs(c) PROVE SpeechInv' BY <1>7, SpeechArgs
  <1>8. ASSUME NEW c \in CallId, EndCall(c) PROVE SpeechInv' BY <1>8, SpeechEnd
  <1>9. ASSUME NEW why \in Reasons, SayWhy(why) PROVE SpeechInv'
    <2>1. /\ n' = n /\ UNCHANGED <<from, to>> /\ said' = [said EXCEPT !.why = why]
          /\ rd' = [rd EXCEPT !.finish = FinishOf(why), !.usage = @ \cup
                     (IF from = "anthropic" THEN {"output"} ELSE {"input", "output"})]
      BY <1>9 DEF SayWhy
    <2>2. /\ said'.started = said.started /\ said'.text = said.text /\ said'.thought = said.thought
          /\ said'.args = said.args /\ said'.hurt = said.hurt
          /\ rd'.copy = rd.copy /\ rd'.seen = rd.seen /\ rd'.over = rd.over
      BY <1>0, <2>1
    <2>3. said'.started >= said.started BY <1>1, <2>2
    <2> QED BY <1>1, <2>1, <2>2, <2>3, SpeechSame
  <1>10. CASE SayError
    <2>1. /\ n' = n /\ UNCHANGED <<from, to, rd>> /\ said' = [said EXCEPT !.failed = TRUE]
      BY <1>10 DEF SayError
    <2>2. /\ said'.started = said.started /\ said'.text = said.text /\ said'.thought = said.thought
          /\ said'.args = said.args /\ said'.hurt = said.hurt
      BY <1>0, <2>1
    <2>3. said'.started >= said.started BY <1>1, <2>2
    <2> QED BY <1>1, <2>1, <2>2, <2>3, SpeechSame
  <1>11. CASE Close \/ Cut
    <2>1. UNCHANGED <<from, to, n, said, rd>> BY <1>11 DEF Close, Cut
    <2> QED BY <1>1, <2>1, SpeechSame
  <1> QED
    BY <1>2, <1>3, <1>4, <1>5, <1>6, <1>7, <1>8, <1>9, <1>10, <1>11 DEF Next

\* It begins with nothing said.
LEMMA SpeechBegins == Init => SpeechInv
  <1> SUFFICES ASSUME Init PROVE SpeechInv OBVIOUS
  <1>1. /\ n = 0 /\ to \in Clients /\ from \in Upstreams
        /\ said.text = <<>> /\ said.thought = <<>> /\ said.args = [c \in CallId |-> <<>>]
        /\ said.started = 0 /\ said.hurt = {}
    BY DEF Init
  <1>2. rd.copy = [c \in CallId |-> <<>>] /\ rd.seen = {} /\ rd.over = {} BY DEF Init, NewReader
  <1>3. <<>> \in Seq(Int) /\ Shadow(<<>>, <<>>) BY DEF Shadow
  <1>4. [c \in CallId |-> <<>>] \in Argued BY <1>3 DEF Argued
  <1>5. \A c \in CallId : Copied(c) BY <1>1, <1>2, <1>3 DEF Copied
  <1> QED BY <1>1, <1>2, <1>3, <1>4, <1>5, DialectsAssumption DEF SpeechInv, Dialected

-------------------------------------------------------------------------------
(* A reply that is rebuilt as a whole.                                       *)

\* What is right to tell of call c; and that all there is in sent is right.
Right(c, e) ==
    IF Valid(said.args[c]) /\ (c \notin said.hurt \/ (mode = "whole" /\ c \in rd.over))
      THEN e = said.args[c]
      ELSE c \notin said.hurt =>
             e \in {said.args[c]} \cup
                 (IF to = "ollama" \/ (to = "anthropic" /\ mode = "whole") THEN {<<>>} ELSE {})
AllRight(s) ==
    \E text, args :
        /\ TellsAll(s, text, args)
        /\ text = said.text \/ (mode = "whole" /\ to = "openai" /\ said.started > 0)
        /\ \A c \in 1..said.started : Right(c, args[c])

\* The frames of a whole reply say what is in it.
LEMMA FramesTell ==
    ASSUME NEW r, r.text \in Seq(Int), r.thought \in Seq(Int), r.args \in Argued,
           NEW k \in 0..Calls, r.calls = 1..k
    PROVE  \E args : TellsAll(Frames(r), r.text, args) /\ \A c \in 1..k : args[c] = r.args[c]
  <1> DEFINE g == Frame("reason", None, 0, r.thought)
             h == Frame("text", None, 0, r.text)
             a == <<g, h>>
             q == [c \in 1..k |-> Frame("call", c, c, r.args[c])]
  <1>0. k \in Nat /\ CallId = 1..Calls /\ \A c \in 1..k : c \in CallId
    BY DialectsAssumption DEF CallId
  <1>1. Frames(r) = a \o q BY DEF Frames
  <1>2. /\ g \in RFrame /\ g.kind = "reason" /\ g.id = 0
        /\ h \in RFrame /\ h.kind = "text" /\ h.id = 0 /\ h.piece = r.text
    BY DEF Frame, Delta, RFrame, None
  <1>3. \A c \in 1..k : Frame("call", c, c, r.args[c]) \in RFrame
    <2>1. \A c \in 1..k : r.args[c] \in Seq(Int) BY <1>0 DEF Argued
    <2>2. \A c \in 1..k : c \in Nat /\ c \in Int BY <1>0
    <2> QED BY <2>1, <2>2 DEF Frame, Delta, RFrame
  <1>4. /\ q \in Seq(RFrame) /\ Len(q) = k
        /\ \A c \in 1..k : q[c].kind = "call" /\ q[c].id = c /\ q[c].at = c /\ q[c].piece = r.args[c]
    <2>1. q \in [1..k -> RFrame] BY <1>3
    <2>2. q \in Seq(RFrame) /\ Len(q) = k BY <1>0, <2>1
    <2>3. \A c \in 1..k : q[c] = Frame("call", c, c, r.args[c]) OBVIOUS
    <2> HIDE DEF q
    <2> QED BY <2>2, <2>3 DEF Frame, Delta
  <1>5. Apart(q)
    <2> HIDE DEF q
    <2> QED BY <1>0, <1>4 DEF Apart
  <1> HIDE DEF q
  <1>6. Sounds(a, r.text)
    <2> HIDE DEF g, h
    <2>1. Sounds(<<g>>, IF g.kind = "text" THEN g.piece ELSE <<>>) BY <1>2, SoundsOne
    <2>2. Sounds(<<h>>, IF h.kind = "text" THEN h.piece ELSE <<>>) BY <1>2, SoundsOne
    <2>3. Sounds(<<g>>, <<>>) BY <1>2, <2>1
    <2>4. Sounds(<<h>>, r.text) BY <1>2, <2>2
    <2> DEFINE t == r.text
    <2>5. t \in Seq(Int) /\ Sounds(<<h>>, t) BY <2>4
    <2> HIDE DEF t
    <2>6. Sounds(<<g>> \o <<h>>, <<>> \o t) BY <2>3, <2>5, SoundsBoth
    <2>7. <<g>> \o <<h>> = <<g, h>>
      <3> DEFINE b == <<g>> \o <<h>>
                 d == <<g, h>>
      <3>1. <<g>> \in Seq(RFrame) /\ <<h>> \in Seq(RFrame) BY <1>2
      <3>2. b \in Seq(RFrame) /\ Len(b) = 2 /\ b[1] = g /\ b[2] = h BY <3>1
      <3>3. d \in Seq(RFrame) /\ Len(d) = 2 /\ d[1] = g /\ d[2] = h BY <1>2
      <3> HIDE DEF b, d
      <3>4. \A i \in 1..2 : i = 1 \/ i = 2 OBVIOUS
      <3>5. b = d BY <3>2, <3>3, <3>4
      <3> QED BY <3>5 DEF b, d
    <2>9. <<>> \o t = t BY <2>5
    <2>8. Sounds(<<g, h>>, t) BY <2>6, <2>7, <2>9
    <2> QED BY <2>8 DEF t
  <1> HIDE DEF a
  <1>7. /\ Owners(a) /\ ToldText(a) = r.text
        /\ \A c \in CallId : Owned(a, c) = {} /\ ToldArgs(a, c) = <<>>
    <2>1. /\ Owners(<<>> \o a) /\ ToldText(<<>> \o a) = ToldText(<<>>) \o r.text
          /\ \A c \in CallId : Owned(<<>> \o a, c) = Owned(<<>>, c)
                               /\ ToldArgs(<<>> \o a, c) = ToldArgs(<<>>, c)
      BY <1>6, ToldNone, SilentAfter
    <2>2. <<>> \o a = a
      <3>1. a \in Seq(RFrame) BY <1>6 DEF Sounds, Silent
      <3> QED BY <3>1
    <2>3. ToldText(a) = r.text BY <1>6 DEF Sounds
    <2> QED BY <2>1, <2>2, <2>3, ToldNone
  <1>8. AllTold(a, a \o q, q, Len(q)) BY <1>5, <1>7, CallsMore
  <1> DEFINE u == a \o q
             args == [c \in CallId |-> ToldArgs(u, c)]
  <1>9. AllTold(a, u, q, k) BY <1>4, <1>8
  <1> HIDE DEF u
  <1>10. u \in Seq(RFrame) /\ ToldText(u) = r.text BY <1>7, <1>9 DEF AllTold, Owners
  <1>11. \A c \in 1..k : args[c] = r.args[c]
    <2> SUFFICES ASSUME NEW c \in 1..k PROVE args[c] = r.args[c] OBVIOUS
    <2>1. ToldArgs(u, q[c].id) = q[c].piece BY <1>9 DEF AllTold
    <2> QED BY <1>0, <1>4, <2>1
  <1>12. TellsAll(u, r.text, args) BY <1>10 DEF TellsAll
  <1> HIDE DEF args
  <1> QED BY <1>1, <1>11, <1>12 DEF u

\* What a reply is parsed and rebuilt to.
LEMMA WholeRight ==
    ASSUME SpeechInv, mode = "whole"
    PROVE  AllRight(Frames(Build(Reply)))
  <1> DEFINE a == IF from = "commandcode" THEN rd.copy ELSE said.args
             r == Build(Reply)
             k == said.started
  <1>1. /\ Dialected /\ said.text \in Seq(Int) /\ said.thought \in Seq(Int) /\ a \in Argued /\ k \in 0..Calls
        /\ \A c \in CallId : Copied(c)
    BY DEF SpeechInv
  <1>2. \A c \in CallId : /\ c \notin said.hurt => a[c] = said.args[c]
                          /\ c \in rd.over /\ Valid(said.args[c]) => a[c] = said.args[c]
    BY <1>1 DEF Copied
  <1>3. /\ Reply.text = said.text /\ Reply.thought \in Seq(Int) /\ Reply.calls = 1..k /\ Reply.args = a
        /\ DOMAIN Reply = {"text", "thought", "calls", "args"}
    <2>1. <<>> \in Seq(Int) OBVIOUS
    <2> DEFINE w(thought, args) == WholeReply(thought, args)
    <2>2. \A thought, args : /\ w(thought, args).text = said.text /\ w(thought, args).thought = thought
                             /\ w(thought, args).calls = 1..k /\ w(thought, args).args = args
                             /\ DOMAIN w(thought, args) = {"text", "thought", "calls", "args"}
      BY DEF WholeReply
    <2> HIDE DEF w
    <2>3. Reply \in {w(said.thought, a), w(<<>>, a)}
      BY <1>1 DEF w, Dialected, Reply, ParseOpenAI, ParseResponses, ParseAnthropic, ParseOllama, ParseCommandCode
    <2>4. CASE Reply = w(said.thought, a) BY <1>1, <2>2, <2>4
    <2>5. CASE Reply = w(<<>>, a) BY <2>1, <2>2, <2>5
    <2> QED BY <2>3, <2>4, <2>5
  <1> HIDE DEF a
  <1>4. /\ r.text = (IF to = "openai" /\ 1..k # {} THEN <<>> ELSE said.text)
        /\ r.thought \in Seq(Int) /\ r.calls = 1..k
        /\ r.args = IF to \in {"anthropic", "ollama"} THEN [c \in CallId |-> Repair(a[c])] ELSE a
    <2>1. <<>> \in Seq(Int) OBVIOUS
    <2>2. CASE to = "openai"
      BY <1>3, <2>2 DEF Build, BuildOpenAIReply
    <2>3. CASE to = "responses"
      BY <1>3, <2>3 DEF Build
    <2>4. CASE to \in {"anthropic", "ollama"}
      <3>1. r = [Reply EXCEPT !.thought = <<>>, !.args = [c \in CallId |-> Repair(Reply.args[c])]]
        BY <2>4 DEF Build, BuildAnthropicReply, BuildOllamaReply, Objects
      <3>2. r.text = Reply.text /\ r.thought = <<>> /\ r.calls = Reply.calls
            /\ r.args = [c \in CallId |-> Repair(Reply.args[c])]
        BY <1>3, <3>1
      <3> HIDE DEF r
      <3> QED BY <1>3, <2>1, <2>4, <3>2
    <2> QED BY <1>1, <2>2, <2>3, <2>4 DEF Dialected
  <1> HIDE DEF r
  <1>5. r.args \in Argued /\ r.text \in Seq(Int)
    <2>1. \A c \in CallId : Repair(a[c]) \in Seq(Int) BY <1>1 DEF Argued, Repair
    <2>2. [c \in CallId |-> Repair(a[c])] \in Argued BY <2>1 DEF Argued
    <2>3. <<>> \in Seq(Int) OBVIOUS
    <2> QED BY <1>1, <1>4, <2>2, <2>3
  <1> HIDE DEF k
  <1>6. PICK args : TellsAll(Frames(r), r.text, args) /\ \A c \in 1..k : args[c] = r.args[c]
    BY <1>1, <1>4, <1>5, FramesTell
  <1>7. r.text = said.text \/ (to = "openai" /\ k > 0)
    <2>1. k \in Nat /\ (k = 0 => 1..k = {}) BY <1>1
    <2> QED BY <1>4, <2>1
  <1>8. ASSUME NEW c \in 1..k PROVE Right(c, args[c])
    <2>1. c \in CallId BY <1>1, DialectsAssumption DEF CallId
    <2>2. args[c] = IF to \in {"anthropic", "ollama"} THEN Repair(a[c]) ELSE a[c] BY <1>4, <1>6, <2>1
    <2>3. CASE Valid(said.args[c]) /\ (c \notin said.hurt \/ c \in rd.over)
      <3>1. a[c] = said.args[c] /\ Repair(a[c]) = said.args[c] BY <1>2, <2>1, <2>3 DEF Repair
      <3> QED BY <2>2, <2>3, <3>1 DEF Right
    <2>4. CASE ~(Valid(said.args[c]) /\ (c \notin said.hurt \/ c \in rd.over))
      <3>1. c \notin said.hurt => a[c] = said.args[c] /\ Repair(a[c]) = <<>> BY <1>2, <2>1, <2>4 DEF Repair
      <3> QED BY <2>2, <2>4, <3>1 DEF Right
    <2> QED BY <2>3, <2>4
  <1>9. AllRight(Frames(r)) BY <1>6, <1>7, <1>8 DEF AllRight, k
  <1> QED BY <1>9 DEF r

-------------------------------------------------------------------------------
(* A reply that is streamed.                                                 *)

\* The calls whose id the writer has been given.
Known == IF from = "commandcode" THEN {} ELSE {c \in CallId : c <= said.started}
\* The writer keeps the text that was said and of every call the arguments as they
\* were delivered, which are those that were said unless a fragment was damaged.
Streamed(D, K) ==
    /\ D \in Argued /\ K \in SUBSET CallId /\ Known \subseteq K
    /\ \A c \in CallId : c \notin said.hurt => D[c] = said.args[c]
    /\ KeepsTo(x, sent, said.text, D, K)
Streaming == \E D, K : Streamed(D, K)

\* What the writer keeps after a step is what is streamed.
LEMMA StreamedNow ==
    ASSUME UNCHANGED <<from, to>>, NEW D \in Argued, NEW K \in SUBSET CallId, Known' \subseteq K,
           \A c \in CallId : c \notin said'.hurt => D[c] = said'.args[c],
           NEW text, text = said'.text, KeepsTo(x', sent', text, D, K)
    PROVE  Streaming'
  <1>1. Streamed(D, K)'
    <2>1. KeepsTo(x, sent, said.text, D, K)'
      BY DEF KeepsTo, OpenAIKeeps, AnthropicKeeps, ResponsesKeeps, OllamaKeeps, IndexOf
    <2> QED BY <2>1 DEF Streamed
  <1> QED BY <1>1 DEF Streaming

\* A step in which nothing is delivered.
LEMMA StreamedQuiet ==
    ASSUME Streaming, UNCHANGED <<from, to, x, sent>>, said'.text = said.text,
           said'.args = said.args, said'.hurt = said.hurt, Known' = Known
    PROVE  Streaming'
  <1>1. PICK D, K : Streamed(D, K) BY DEF Streaming
  <1>2. /\ D \in Argued /\ K \in SUBSET CallId /\ Known \subseteq K
        /\ \A c \in CallId : c \notin said.hurt => D[c] = said.args[c]
        /\ KeepsTo(x, sent, said.text, D, K)
    BY <1>1 DEF Streamed
  <1>3. PICK text : text = said.text OBVIOUS
  <1>4. KeepsTo(x', sent', text, D, K) /\ text = said'.text BY <1>2, <1>3
  <1> QED BY <1>2, <1>4, StreamedNow

\* A text or a thought is said.
LEMMA StreamedText ==
    ASSUME Dialected, mode = "stream", Streaming, UNCHANGED <<from, to>>,
           NEW kind \in {"text", "reason"}, NEW piece \in Seq(Int), Deliver(Delta(kind, None, 0, piece)),
           said'.text = IF kind = "text" THEN said.text \o piece ELSE said.text,
           said'.args = said.args, said'.hurt = said.hurt, Known' = Known
    PROVE  Streaming'
  <1>1. PICK D, K : Streamed(D, K) BY DEF Streaming
  <1>2. /\ D \in Argued /\ K \in SUBSET CallId /\ Known \subseteq K
        /\ \A c \in CallId : c \notin said.hurt => D[c] = said.args[c]
        /\ KeepsTo(x, sent, said.text, D, K)
    BY <1>1 DEF Streamed
  <1>3. PICK text : text = said.text OBVIOUS
  <1>4. KeepsTo(x', sent', IF kind = "text" THEN text \o piece ELSE text, D, K)
    BY <1>2, <1>3, TextDelivered
  <1>5. PICK more : more = IF kind = "text" THEN text \o piece ELSE text OBVIOUS
  <1>6. KeepsTo(x', sent', more, D, K) /\ more = said'.text BY <1>3, <1>4, <1>5
  <1> QED BY <1>2, <1>6, StreamedNow

\* A piece of a call is said, or its beginning.
LEMMA StreamedCall ==
    ASSUME Dialected, mode = "stream", Streaming, UNCHANGED <<from, to>>, said.args \in Argued,
           NEW c \in CallId, NEW id \in {0, c}, id = 0 => c \in Known, NEW piece \in Seq(Int),
           Deliver(CallDelta(IndexOf(c), id, piece)),
           said'.text = said.text, Known' \subseteq Known \union {c},
           \A e \in CallId \ {c} : /\ said'.args[e] = said.args[e]
                                   /\ e \in said.hurt => e \in said'.hurt,
           c \notin said'.hurt => c \notin said.hurt /\ said'.args[c] = said.args[c] \o piece
    PROVE  Streaming'
  <1>1. PICK D, K : Streamed(D, K) BY DEF Streaming
  <1>2. /\ D \in Argued /\ K \in SUBSET CallId /\ Known \subseteq K
        /\ \A e \in CallId : e \notin said.hurt => D[e] = said.args[e]
        /\ KeepsTo(x, sent, said.text, D, K)
    BY <1>1 DEF Streamed
  <1>3. PICK text : text = said.text OBVIOUS
  <1>4. PICK E : E = More(D, c, piece) OBVIOUS
  <1>5. PICK L : L = K \union {c} OBVIOUS
  <1>6. KeepsTo(x', sent', text, E, L)
    <2>1. KeepsTo(x, sent, text, D, K) /\ (id = 0 => c \in K) BY <1>2, <1>3
    <2>2. KeepsTo(x', sent', text, More(D, c, piece), K \union {c}) BY <1>2, <2>1, CallDelivered
    <2> QED BY <1>4, <1>5, <2>2
  <1>7. E \in Argued
    <2>1. \A e \in CallId : D[e] \in Seq(Int) /\ D[e] \o piece \in Seq(Int) BY <1>2 DEF Argued
    <2> QED BY <1>4, <2>1 DEF More, Argued
  <1>8. \A e \in CallId : e \notin said'.hurt => E[e] = said'.args[e]
    <2> SUFFICES ASSUME NEW e \in CallId, e \notin said'.hurt PROVE E[e] = said'.args[e] OBVIOUS
    <2>1. CASE e = c
      <3>1. E[e] = D[c] \o piece BY <1>4, <2>1 DEF More
      <3> QED BY <1>2, <2>1, <3>1
    <2>2. CASE e # c
      <3>1. E[e] = D[e] BY <1>4, <2>2 DEF More
      <3> QED BY <1>2, <2>2, <3>1
    <2> QED BY <2>1, <2>2
  <1>9. L \in SUBSET CallId /\ Known' \subseteq L BY <1>2, <1>5
  <1>10. text = said'.text BY <1>3
  <1> QED BY <1>6, <1>7, <1>8, <1>9, <1>10, StreamedNow

\* Every step of the upstream is streamed.
LEMMA StreamedStep ==
    ASSUME EndInv, SpeechInv, mode = "stream", Streaming, Next, told' = "none"
    PROVE  Streaming'
  <1>0. /\ DOMAIN said = {"text", "thought", "args", "started", "open", "hurt", "mixed", "why", "failed"}
        /\ DOMAIN rd = {"copy", "seen", "over", "finish", "usage"}
    BY DEF EndInv, Shaped
  <1>1. /\ n \in Nat /\ Dialected /\ said.text \in Seq(Int) /\ said.args \in Argued
        /\ said.started \in 0..Calls /\ \A c \in CallId : Copied(c)
    BY DEF SpeechInv
  <1>2. CASE SayText
    <2>1. /\ n' = n + 1 /\ UNCHANGED <<from, to, rd>> /\ Deliver(Text(n'))
          /\ said' = [said EXCEPT !.text = Append(@, n'), !.open = 0]
      BY <1>2 DEF SayText
    <2>2. PICK p : p = n' OBVIOUS
    <2>3. p \in Int /\ <<p>> \in Seq(Int) BY <1>1, <2>1, <2>2
    <2>4. Deliver(Delta("text", None, 0, <<p>>)) BY <2>1, <2>2 DEF Text
    <2>5. said'.text = said.text \o <<p>>
      <3>1. said'.text = Append(said.text, p) BY <1>0, <2>1, <2>2
      <3>2. Append(said.text, p) = said.text \o <<p>> BY <1>1, <2>3, SMTT(60)
      <3> QED BY <3>1, <3>2
    <2>6. said'.args = said.args /\ said'.hurt = said.hurt /\ said'.started = said.started
      BY <1>0, <2>1
    <2>7. Known' = Known BY <2>1, <2>6 DEF Known
    <2> QED BY <1>1, <2>1, <2>3, <2>4, <2>5, <2>6, <2>7, StreamedText
  <1>3. CASE SayThought
    <2>1. /\ n' = n + 1 /\ UNCHANGED <<from, to, rd>> /\ Deliver(Reasoning(n'))
          /\ said' = [said EXCEPT !.thought = Append(@, n'), !.open = 0]
      BY <1>3 DEF SayThought
    <2>2. PICK p : p = n' OBVIOUS
    <2>3. p \in Int /\ <<p>> \in Seq(Int) BY <1>1, <2>1, <2>2
    <2>4. Deliver(Delta("reason", None, 0, <<p>>)) BY <2>1, <2>2 DEF Reasoning
    <2>6. said'.text = said.text /\ said'.args = said.args /\ said'.hurt = said.hurt
          /\ said'.started = said.started
      BY <1>0, <2>1
    <2>7. Known' = Known BY <2>1, <2>6 DEF Known
    <2> QED BY <1>1, <2>1, <2>3, <2>4, <2>6, <2>7, StreamedText
  <1>4. CASE StartCall
    <2> DEFINE c == said.started + 1
    <2>1. /\ said.started < Calls /\ UNCHANGED <<from, to>>
          /\ said' = [said EXCEPT !.started = @ + 1, !.open = c]
          /\ IF from = "commandcode" THEN UNCHANGED <<x, sent>>
             ELSE Deliver(CallDelta(IndexOf(c), c, <<>>))
      BY <1>4 DEF StartCall, Quiet
    <2>2. /\ said'.text = said.text /\ said'.args = said.args /\ said'.hurt = said.hurt
          /\ said'.started = c
      BY <1>0, <2>1
    <2>3. c \in CallId /\ c # 0 /\ \A e \in CallId : e <= c => e <= said.started \/ e = c
      BY <1>1, <2>1, DialectsAssumption DEF CallId
    <2> HIDE DEF c
    <2>4. CASE from = "commandcode"
      <3>1. Known' = Known BY <2>1, <2>4 DEF Known
      <3> QED BY <2>1, <2>2, <2>4, <3>1, StreamedQuiet
    <2>5. CASE from # "commandcode"
      <3>1. Known' \subseteq Known \union {c} BY <2>1, <2>2, <2>3, <2>5 DEF Known
      <3>2. <<>> \in Seq(Int) /\ c \in {0, c} OBVIOUS
      <3>3. said.args[c] \o <<>> = said.args[c]
        <4>1. said.args[c] \in Seq(Int) BY <1>1, <2>3 DEF Argued
        <4> QED BY <4>1
      <3>4. Deliver(CallDelta(IndexOf(c), c, <<>>)) BY <2>1, <2>5
      <3> QED BY <1>1, <2>1, <2>2, <2>3, <3>1, <3>2, <3>3, <3>4, StreamedCall
    <2> QED BY <2>4, <2>5
  <1>5. CASE SayCall
    <2> DEFINE c == said.started + 1
    <2>1. /\ said.started < Calls /\ UNCHANGED <<from, to>> /\ from = "ollama" /\ n' = n + 1
          /\ said' = [said EXCEPT !.started = c, !.args[c] = <<-n'>>]
          /\ Deliver(CallDelta(c - 1, c, <<-n'>>))
      BY <1>5 DEF SayCall
    <2>3. c \in CallId /\ c # 0 /\ c > said.started
          /\ \A e \in CallId : e <= c => e <= said.started \/ e = c
      BY <1>1, <2>1, DialectsAssumption DEF CallId
    <2>4. IndexOf(c) = c - 1 BY <2>1 DEF IndexOf
    <2> HIDE DEF c
    <2>5. PICK p : p = -n' OBVIOUS
    <2>6. p \in Int /\ <<p>> \in Seq(Int) BY <1>1, <2>1, <2>5
    <2>7. Deliver(CallDelta(IndexOf(c), c, <<p>>)) BY <2>1, <2>4, <2>5
    <2>2. /\ said'.text = said.text /\ said'.hurt = said.hurt /\ said'.started = c
          /\ said'.args = [said.args EXCEPT ![c] = <<p>>]
      BY <1>0, <2>1, <2>5
    <2>8. Known' \subseteq Known \union {c} BY <2>1, <2>2, <2>3 DEF Known
    <2>9. said'.args[c] = said.args[c] \o <<p>>
      <3>1. said.args[c] = <<>> BY <1>1, <2>3 DEF Copied
      <3>2. <<>> \o <<p>> = <<p>> BY <2>6
      <3>3. said'.args[c] = <<p>> BY <1>1, <2>2, <2>3 DEF Argued
      <3> QED BY <3>1, <3>2, <3>3
    <2>10. \A e \in CallId \ {c} : said'.args[e] = said.args[e] BY <1>1, <2>2 DEF Argued
    <2> QED BY <1>1, <2>1, <2>2, <2>3, <2>6, <2>7, <2>8, <2>9, <2>10, StreamedCall
  <1>6. ASSUME NEW c \in CallId, SayArgs(c) PROVE Streaming'
    <2>1. /\ c <= said.started /\ UNCHANGED <<from, to>> /\ n' = n + 1
      BY <1>6 DEF SayArgs, Growing
    <2>2. PICK last \in BOOLEAN, damaged \in BOOLEAN :
            LET piece == IF last THEN -n' ELSE n'
                heard == IF damaged THEN <<0>> ELSE <<piece>>
            IN /\ said' = [said EXCEPT !.args[c] = Append(@, piece),
                                       !.hurt = IF damaged THEN @ \cup {c} ELSE @,
                                       !.mixed = @ \/ c < said.started]
               /\ Deliver(CallDelta(IndexOf(c), IF from = "commandcode" THEN c ELSE 0, heard))
      BY <1>6 DEF SayArgs
    <2>3. PICK p : p = IF last THEN -n' ELSE n' OBVIOUS
    <2>4. PICK heard : heard = IF damaged THEN <<0>> ELSE <<p>> OBVIOUS
    <2>5. PICK id : id = IF from = "commandcode" THEN c ELSE 0 OBVIOUS
    <2>6. p \in Int /\ heard \in Seq(Int)
      <3>1. p \in Int BY <1>1, <2>1, <2>3
      <3>2. <<0>> \in Seq(Int) /\ <<p>> \in Seq(Int) BY <3>1
      <3> QED BY <2>4, <3>1, <3>2
    <2>7. Deliver(CallDelta(IndexOf(c), id, heard)) BY <2>2, <2>3, <2>4, <2>5
    <2>8. /\ said'.text = said.text /\ said'.started = said.started
          /\ said'.hurt = IF damaged THEN said.hurt \union {c} ELSE said.hurt
          /\ said'.args = [said.args EXCEPT ![c] = Append(said.args[c], p)]
      BY <1>0, <2>2, <2>3
    <2>9. Known' = Known BY <2>1, <2>8 DEF Known
    <2>10. id \in {0, c} /\ (id = 0 => c \in Known)
      <3>1. c # 0 BY DEF CallId
      <3> QED BY <2>1, <2>5, <3>1 DEF Known
    <2>11. c \notin said'.hurt => c \notin said.hurt /\ said'.args[c] = said.args[c] \o heard
      <3> SUFFICES ASSUME c \notin said'.hurt
                   PROVE  c \notin said.hurt /\ said'.args[c] = said.args[c] \o heard
        OBVIOUS
      <3>1. ~damaged /\ c \notin said.hurt /\ heard = <<p>> BY <2>4, <2>8
      <3>2. said'.args[c] = Append(said.args[c], p) /\ said.args[c] \in Seq(Int)
        BY <1>1, <2>8 DEF Argued
      <3>3. Append(said.args[c], p) = said.args[c] \o <<p>> BY <2>6, <3>2, SMTT(60)
      <3> QED BY <3>1, <3>2, <3>3
    <2>12. \A e \in CallId \ {c} : /\ said'.args[e] = said.args[e]
                                   /\ e \in said.hurt => e \in said'.hurt
      BY <1>1, <2>8 DEF Argued
    <2>13. Known' \subseteq Known \union {c} BY <2>9
    <2>14. said'.text = said.text /\ UNCHANGED <<from, to>> /\ Dialected /\ said.args \in Argued
      BY <1>1, <2>1, <2>8
    <2> QED BY <2>6, <2>7, <2>10, <2>11, <2>12, <2>13, <2>14, StreamedCall
  <1>7. ASSUME NEW c \in CallId, EndCall(c) PROVE Streaming'
    <2>1. /\ from = "commandcode" /\ c \notin rd.over /\ UNCHANGED <<from, to>>
          /\ IF c \in rd.seen THEN UNCHANGED <<n, said>>
             ELSE /\ n' = n + 1
                  /\ said' = [said EXCEPT !.args[c] = <<-n'>>, !.mixed = @ \/ c < said.started]
          /\ CloseDelta(c, said'.args[c])
      BY <1>7 DEF EndCall
    <2>2. Known' = Known BY <2>1 DEF Known
    <2>3. CASE c \in rd.seen
      <3>1. UNCHANGED <<x, sent, said, from, to>> BY <2>1, <2>3 DEF CloseDelta, Quiet
      <3> QED BY <2>2, <3>1, StreamedQuiet
    <2>4. CASE c \notin rd.seen
      <3>1. PICK p : p = -n' OBVIOUS
      <3>2. p \in Int /\ <<p>> \in Seq(Int) BY <1>1, <2>1, <2>4, <3>1
      <3>3. /\ said'.text = said.text /\ said'.hurt = said.hurt
            /\ said'.args = [said.args EXCEPT ![c] = <<p>>]
        BY <1>0, <2>1, <2>4, <3>1
      <3>4. said'.args[c] = <<p>> /\ \A e \in CallId \ {c} : said'.args[e] = said.args[e]
        BY <1>1, <3>3 DEF Argued
      <3>5. Deliver(CallDelta(IndexOf(c), c, <<p>>))
        <4>1. Deliver(CallDelta(IndexOf(c), c, said'.args[c])) BY <2>1, <2>4 DEF CloseDelta
        <4> QED BY <3>4, <4>1
      <3>6. said.args[c] = <<>> BY <1>1, <2>1, <2>4 DEF Copied
      <3>7. <<>> \o <<p>> = <<p>> BY <3>2
      <3>8. said'.args[c] = said.args[c] \o <<p>> BY <3>4, <3>6, <3>7
      <3>9. c # 0 /\ c \in {0, c} /\ Known' \subseteq Known \union {c} BY <2>2 DEF CallId
      <3> QED BY <1>1, <2>1, <3>2, <3>3, <3>4, <3>5, <3>8, <3>9, StreamedCall
    <2> QED BY <2>3, <2>4
  <1>8. ASSUME NEW why \in Reasons, SayWhy(why) PROVE Streaming'
    <2>1. UNCHANGED <<from, to, x, sent>> /\ said' = [said EXCEPT !.why = why]
      BY <1>8 DEF SayWhy
    <2>2. /\ said'.text = said.text /\ said'.args = said.args /\ said'.hurt = said.hurt
          /\ said'.started = said.started
      BY <1>0, <2>1
    <2>3. Known' = Known BY <2>1, <2>2 DEF Known
    <2> QED BY <2>1, <2>2, <2>3, StreamedQuiet
  <1>9. CASE SayError
    <2>1. UNCHANGED <<from, to, x, sent>> /\ said' = [said EXCEPT !.failed = TRUE]
      BY <1>9 DEF SayError
    <2>2. /\ said'.text = said.text /\ said'.args = said.args /\ said'.hurt = said.hurt
          /\ said'.started = said.started
      BY <1>0, <2>1
    <2>3. Known' = Known BY <2>1, <2>2 DEF Known
    <2> QED BY <2>1, <2>2, <2>3, StreamedQuiet
  <1>10. ~Close /\ ~Cut
    <2>1. Tell(EndReason) # "none" /\ TellError # "none"
      BY DEF EndInv, Shaped, Tell, EndReason, Reasons, TellError
    <2> QED BY <2>1 DEF Close, Cut, Broken
  <1> QED BY <1>2, <1>3, <1>4, <1>5, <1>6, <1>7, <1>8, <1>9, <1>10 DEF Next

-------------------------------------------------------------------------------
\* While the reply goes on it is streamed; once it has ended well, all is right.
FaithInv ==
    /\ EndInv /\ SpeechInv
    /\ told = "none" /\ mode = "stream" => Streaming
    /\ Success => AllRight(sent)

\* The end of a stream.
LEMMA StreamRight ==
    ASSUME SpeechInv, mode = "stream", Streaming
    PROVE  AllRight(sent \o Finishing)
  <1>1. PICK D, K : Streamed(D, K) BY DEF Streaming
  <1>2. /\ K \in SUBSET CallId /\ \A c \in CallId : c \notin said.hurt => D[c] = said.args[c]
        /\ KeepsTo(x, sent, said.text, D, K)
    BY <1>1 DEF Streamed
  <1>3. Dialected /\ said.started \in 0..Calls BY DEF SpeechInv
  <1>4. TellsAll(sent \o Finishing, said.text, ToldAs(D)) BY <1>2, <1>3, EndTells
  <1>5. ASSUME NEW c \in 1..said.started PROVE Right(c, ToldAs(D)[c])
    <2>1. c \in CallId BY <1>3, DialectsAssumption DEF CallId
    <2>2. CASE c \in said.hurt BY <2>2 DEF Right
    <2>3. CASE c \notin said.hurt
      <3>1. D[c] = said.args[c] BY <1>2, <2>1, <2>3
      <3>2. CASE to = "ollama"
        <4>1. ToldAs(D)[c] = Repair(said.args[c]) BY <2>1, <3>1, <3>2 DEF ToldAs, Repaired
        <4> QED BY <2>3, <3>2, <4>1 DEF Right, Repair
      <3>3. CASE to # "ollama"
        <4>1. ToldAs(D)[c] = said.args[c] BY <3>1, <3>3 DEF ToldAs
        <4> QED BY <4>1 DEF Right
      <3> QED BY <3>2, <3>3
    <2> QED BY <2>2, <2>3
  <1> QED BY <1>4, <1>5 DEF AllRight

\* Every step keeps it.
LEMMA FaithStep == FaithInv /\ [Next]_vars => FaithInv'
  <1> SUFFICES ASSUME FaithInv, [Next]_vars PROVE FaithInv' OBVIOUS
  <1>1. EndInv /\ SpeechInv /\ EndInv' /\ SpeechInv' BY EndStep, SpeechStep DEF FaithInv
  <1>2. CASE UNCHANGED vars
    <2>1. AllRight(sent) => AllRight(sent)' BY <1>2 DEF AllRight, Right, vars
    <2>2. Success' => Success BY <1>2 DEF Success, vars
    <2>3. Streaming => Streaming'
      <3>1. said' = said /\ UNCHANGED <<from, to, x, sent>> BY <1>2 DEF vars
      <3>2. Known' = Known BY <3>1 DEF Known
      <3> QED BY <3>1, <3>2, StreamedQuiet
    <2>4. told' = told /\ mode' = mode BY <1>2 DEF vars
    <2> QED BY <1>1, <2>1, <2>2, <2>3, <2>4 DEF FaithInv
  <1>3. CASE Next
    <2>1. told = "none" /\ mode' = mode
      BY <1>3 DEF Next, SayText, SayThought, StartCall, SayCall, SayArgs, EndCall, SayWhy, SayError,
                  Saying, Close, Cut
    <2>2. told' = "none" /\ mode' = "stream" => Streaming'
      BY <1>1, <1>3, <2>1, StreamedStep DEF FaithInv
    <2>3. Success' => AllRight(sent)'
      <3> SUFFICES ASSUME Success' PROVE AllRight(sent)' OBVIOUS
      <3>1. told' # "none" /\ told' # "verbatim" /\ told' # "error" /\ told' # "nothing"
        BY DEF Success, Reasons
      <3>2. Close
        <4>1. ~Cut BY <3>1 DEF Cut, Broken, TellError
        <4> QED
          BY <1>3, <2>1, <3>1, <4>1 DEF Next, SayText, SayThought, StartCall, SayCall, SayArgs, EndCall,
                                        SayWhy, SayError
      <3>3. ~Broken BY <3>1 DEF Broken, TellError
      <3>4. UNCHANGED <<from, to, mode, said, rd>> BY <3>2 DEF Close
      <3>5. \/ mode = "whole" /\ sent' = Frames(Build(Reply))
            \/ mode = "stream" /\ sent' = sent \o Finishing
        BY <1>1, <3>1, <3>2, <3>3 DEF Close, EndInv, Shaped, ErrorHeard
      <3>6. PICK s : s = sent' OBVIOUS
      <3>7. AllRight(s)
        <4>1. mode = "whole" => AllRight(Frames(Build(Reply))) BY <1>1, WholeRight
        <4>2. mode = "stream" => AllRight(sent \o Finishing)
          BY <1>1, <2>1, StreamRight DEF FaithInv
        <4> QED BY <3>5, <3>6, <4>1, <4>2
      <3> QED BY <3>4, <3>6, <3>7 DEF AllRight, Right
    <2> QED BY <1>1, <2>2, <2>3 DEF FaithInv
  <1> QED BY <1>2, <1>3

\* It begins so.
LEMMA FaithBegins == Init => FaithInv
  <1> SUFFICES ASSUME Init PROVE FaithInv OBVIOUS
  <1>1. EndInv /\ SpeechInv BY EndBegins, SpeechBegins
  <1>2. told = "none" /\ ~Success BY DEF Init, Success, Reasons
  <1>3. /\ x = NewWriter /\ sent = <<>> /\ said.text = <<>> /\ said.args = [c \in CallId |-> <<>>]
        /\ said.started = 0
    BY DEF Init
  <1>4. Streaming
    <2> DEFINE D == [c \in CallId |-> <<>>]
    <2>1. KeepsTo(NewWriter, <<>>, <<>>, D, {}) BY KeepsNothing
    <2>2. D \in Argued BY DEF Argued
    <2>3. Known \subseteq {} BY <1>3 DEF Known, CallId
    <2>4. Streamed(D, {}) BY <1>3, <2>1, <2>2, <2>3 DEF Streamed
    <2> QED BY <2>4 DEF Streaming
  <1> QED BY <1>1, <1>2, <1>4 DEF FaithInv

\* A reply that ended well came to the client as it was said: every text in order,
\* of every call all arguments, whichever writer and whatever order (stream.go,
\* nonstream.go, commandcode.go).
THEOREM RepliesAreFaithful == Spec => []Faithful
  <1>1. FaithInv => Faithful
    <2> SUFFICES ASSUME FaithInv, Success PROVE Faithful BY DEF Faithful
    <2>1. PICK text, args :
            /\ TellsAll(sent, text, args)
            /\ text = said.text \/ (mode = "whole" /\ to = "openai" /\ said.started > 0)
            /\ \A c \in 1..said.started : Right(c, args[c])
      BY DEF FaithInv, AllRight
    <2>2. sent \in Seq(RFrame) /\ ToldText(sent) = text /\ \A c \in CallId : ToldArgs(sent, c) = args[c]
      BY <2>1 DEF TellsAll
    <2>3. Heard("text") = text /\ \A c \in CallId : HeardArgs(c) = args[c] BY <2>2, HeardTold
    <2>4. \A c \in 1..said.started : c \in CallId
      <3>1. said.started \in 0..Calls BY DEF FaithInv, SpeechInv
      <3> QED BY <3>1, DialectsAssumption DEF CallId
    <2>5. \A c \in 1..said.started : Right(c, HeardArgs(c)) BY <2>1, <2>3, <2>4
    <2> QED BY <2>1, <2>3, <2>5 DEF Faithful, Right
  <1> QED BY <1>1, FaithBegins, FaithStep, PTL DEF Spec
================================================================================
