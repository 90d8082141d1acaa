---------------------------- MODULE RequestDialects ----------------------------
(***************************************************************************)
(* A conversation on its way to the upstream: the client resends all of it *)
(* with every turn in its own dialect, internal/wire parses it into the    *)
(* normal form and builds the request in the upstream's dialect.  Texts    *)
(* and calls are numbered, a message's text is the sequence of the texts   *)
(* it was put together from.                                               *)
(***************************************************************************)
EXTENDS Integers, Sequences, SequencesExt

CONSTANTS Askers, Providers,  \* the dialects considered
          AskedEfforts, AskedBudgets, AskedMax,  \* what a client may ask for, 0 or "none" for nothing
          Turns                \* bound on the messages of the conversation

ASSUME RequestAssumption ==
  /\ Askers \subseteq {"openai", "anthropic", "responses", "ollama"}
  /\ Providers \subseteq {"openai", "anthropic", "responses", "ollama", "commandcode"}
  /\ AskedEfforts \subseteq {"none", "low", "medium", "high", "xhigh"}
  /\ AskedBudgets \subseteq Nat /\ AskedMax \subseteq Nat
  /\ Turns \in Nat

VARIABLES client, upstream, ask,  \* the dialects; effort, thinking budget, max_tokens of the client
          hist,           \* the conversation as the client holds it
          req,            \* the last request built for the upstream, or Unsent
          upto            \* messages it was built from

requestVars == <<client, upstream, ask, hist, req, upto>>

\* Client messages.  text: 0 for none; calls: ids; answers: ids of the calls a
\* message holds the results of; image: "none", a good one, or one that is
\* neither a data: URL of an image nor an http(s) URL.
Message(role, text, calls, answers, image) ==
  [role |-> role, text |-> text, calls |-> calls, answers |-> answers, image |-> image]
\* normal and upstream messages; answer: the call a tool message answers
Msg(role, text, calls, answer, images) ==
  [role |-> role, text |-> text, calls |-> calls, answer |-> answer, images |-> images]
Words(n) == IF n = 0 THEN <<>> ELSE <<n>>
Pictures(m) == IF m.image = "none" THEN <<>> ELSE <<m.image>>
\* the text of the result of call c
ResultText(c) == <<-c>>

-------------------------------------------------------------------------------
\* Parsers fold the client's messages into [system, msgs] and, for Anthropic,
\* seen (a turn has been met) and pending (system text not yet placed).
Empty == [system |-> <<>>, msgs |-> <<>>, seen |-> FALSE, pending |-> <<>>]
Add(r, ms) == [r EXCEPT !.msgs = @ \o ms]
Hoist(r, m) == [r EXCEPT !.system = @ \o Words(m.text)]
Results(m) == [i \in DOMAIN m.answers |-> Msg("tool", ResultText(m.answers[i]), <<>>, m.answers[i], <<>>)]

\* ParseOpenAIRequest: system and developer messages become the system text
TakeOpenAI(r, m) ==
  IF m.role = "system" THEN Hoist(r, m)
  ELSE IF m.role = "tool" THEN Add(r, Results(m))
  ELSE Add(r, <<Msg(m.role, Words(m.text), m.calls, 0, Pictures(m))>>)

\* ParseOllamaRequest: ids are made up, anew for each message; here a call keeps
\* one, which nothing in the request refers to, for those of results are not known
TakeOllama(r, m) ==
  IF m.role = "system" THEN Hoist(r, m)
  ELSE IF m.role = "tool"
    THEN Add(r, [i \in DOMAIN m.answers |-> [Results(m)[i] EXCEPT !.answer = 0]])
  ELSE Add(r, <<Msg(m.role, Words(m.text), m.calls, 0, <<>>)>>)

\* ParseResponsesRequest: an item, and so a message, for every call
TakeResponses(r, m) ==
  IF m.role = "system" THEN Hoist(r, m)
  ELSE IF m.role = "tool" THEN Add(r, Results(m))
  ELSE Add(r, (IF m.text # 0 THEN <<Msg(m.role, Words(m.text), <<>>, 0, <<>>)>> ELSE <<>>)
              \o [i \in DOMAIN m.calls |-> Msg("assistant", <<>>, <<m.calls[i]>>, 0, <<>>)])

\* faulty: a reminder is hoisted wherever it stands
RemindTop(r, m) == Hoist(r, m)
\* faulty: a reminder becomes a user message where it stands
RemindAlone(r, m) == IF r.seen THEN Add(r, <<Msg("user", Words(m.text), <<>>, 0, <<>>)>>)
                     ELSE Hoist(r, m)
Remind(r, m) == IF r.seen THEN [r EXCEPT !.pending = @ \o Words(m.text)] ELSE Hoist(r, m)
\* faulty: the user's text goes before the results
ResultsLast(r, m, msg) == Add(r, msg \o Results(m))
ResultsFirst(r, m, msg) == Add(r, Results(m) \o msg)
\* ParseAnthropicRequest: system text before the first turn is hoisted, later
\* text waits for the next user turn; results stand before the user's text
TakeAnthropic(r, m) ==
  IF m.role = "system" THEN Remind(r, m)
  ELSE LET user == m.role \in {"user", "tool"}
           text == IF user THEN r.pending \o Words(m.text) ELSE Words(m.text)
           msg == Msg(IF user THEN "user" ELSE "assistant", text, m.calls, 0, <<>>)
       IN [ResultsFirst(r, m, IF text # <<>> \/ m.calls # <<>> THEN <<msg>> ELSE <<>>)
             EXCEPT !.seen = TRUE, !.pending = IF user THEN <<>> ELSE @]
\* what still waits goes to the end of the last message
PlaceTrailing(r) ==
  IF r.pending = <<>> THEN r
  ELSE IF r.msgs = <<>> THEN [r EXCEPT !.system = @ \o r.pending, !.pending = <<>>]
  ELSE [r EXCEPT !.msgs[Len(r.msgs)].text = @ \o r.pending, !.pending = <<>>]

Take(r, m) == CASE client = "openai" -> TakeOpenAI(r, m)
                [] client = "ollama" -> TakeOllama(r, m)
                [] client = "responses" -> TakeResponses(r, m)
                [] client = "anthropic" -> TakeAnthropic(r, m)
Parsing(h) == LET p[i \in 0..Len(h)] == IF i = 0 THEN Empty ELSE Take(p[i - 1], h[i])
              IN p
Parse(h) == LET r == Parsing(h)[Len(h)]
            IN IF client = "anthropic" THEN PlaceTrailing(r) ELSE r

-------------------------------------------------------------------------------
\* thinking budgets of the effort tiers, and the tier of a budget
Budget == [low |-> 2048, medium |-> 8192, high |-> 16384, xhigh |-> 24576]
Tier(b) == IF b <= 0 THEN "none" ELSE IF b <= 2048 THEN "low" ELSE IF b <= 8192 THEN "medium" ELSE "high"
\* faulty: max_tokens is left as the client gave it
KeepMax(max, budget) == IF max = 0 THEN 4096 ELSE max
FitMax(max, budget) == IF budget > 0 /\ max <= budget THEN budget + 4096
                       ELSE IF max = 0 THEN 4096 ELSE max

\* the upstream's think: an effort tier or a budget, with max_tokens
Think ==
  CASE upstream \in {"openai", "responses"} ->
         [effort |-> IF ask.effort # "none" THEN ask.effort ELSE Tier(ask.budget),
          budget |-> 0, max |-> ask.max]
    [] upstream = "anthropic" ->
         LET b == IF ask.budget = 0 /\ ask.effort \in DOMAIN Budget THEN Budget[ask.effort] ELSE 0
         IN [effort |-> "none", budget |-> IF b > 0 THEN b ELSE ask.budget, max |-> FitMax(ask.max, b)]
    [] upstream = "ollama" -> [effort |-> "none", budget |-> 0, max |-> ask.max]
    [] upstream = "commandcode" ->
         [effort |-> "none", budget |-> 0, max |-> IF ask.max = 0 THEN 32000 ELSE ask.max]

\* Builders, message by message.  An Anthropic result is a block of a user
\* message, a Responses call an item; Ollama's results carry no id.
BuildOpenAI(m) == <<m>>
BuildAnthropic(m) == <<[m EXCEPT !.images = <<>>,
                                 !.role = IF @ = "assistant" THEN @ ELSE "user"]>>
BuildResponses(m) ==
  IF m.role # "assistant" THEN <<m>>
  ELSE (IF m.text # <<>> THEN <<[m EXCEPT !.calls = <<>>, !.images = <<>>]>> ELSE <<>>)
       \o [i \in DOMAIN m.calls |-> Msg("call", <<>>, <<m.calls[i]>>, 0, <<>>)]
BuildOllama(m) == <<[m EXCEPT !.images = <<>>, !.answer = 0]>>
BuildCommandCode(m) == <<m>>
BuildMsg(m) == CASE upstream = "openai" -> BuildOpenAI(m)
                 [] upstream = "anthropic" -> BuildAnthropic(m)
                 [] upstream = "responses" -> BuildResponses(m)
                 [] upstream = "ollama" -> BuildOllama(m)
                 [] upstream = "commandcode" -> BuildCommandCode(m)

\* alphaImagePart and the count in BuildCommandCodeRequest: a picture that
\* cannot be held refuses the request
Refuses(r) == upstream = "commandcode" /\ \E m \in Range(r.msgs) :
                \/ m.images # <<>> /\ m.role # "user"
                \/ "bad" \in Range(m.images)

Unsent == [state |-> "unsent"]
Refused == [state |-> "refused"]
Request(h) ==
  LET r == Parse(h)
  IN IF Refuses(r) THEN Refused
     ELSE [state |-> "sent", system |-> r.system, think |-> Think,
           msgs |-> FlattenSeq([i \in DOMAIN r.msgs |-> BuildMsg(r.msgs[i])])]

-------------------------------------------------------------------------------
RequestInit == /\ client \in Askers /\ upstream \in Providers
        /\ ask \in [effort : IF client = "anthropic" THEN {"none"} ELSE AskedEfforts,
                    budget : IF client = "anthropic" THEN AskedBudgets ELSE {0}, max : AskedMax]
        /\ hist = <<>> /\ req = Unsent /\ upto = 0

Grow(m) == /\ Len(hist) < Turns /\ hist' = Append(hist, m)
           /\ UNCHANGED <<client, upstream, ask, req, upto>>
\* the last message that is not a system message
Turned == {i \in DOMAIN hist : hist[i].role # "system"}
Speaker == IF Turned = {} THEN "none" ELSE hist[Max(Turned)].role
\* the calls of the last assistant message
Open == IF Speaker = "assistant" THEN hist[Max(Turned)].calls ELSE <<>>
Next1 == Len(hist) + 1

UserSays == /\ Speaker \in {"none", "assistant"} /\ Open = <<>>
            /\ \E image \in {"none", "good", "bad"} :
                 Grow(Message("user", Next1, <<>>, <<>>, image))
\* the upstream's reply, kept by the client once the request was answered
AssistantSays == /\ upto = Len(hist) /\ Speaker \in {"user", "tool"} /\ req.state = "sent"
                 /\ \E text \in {0, Next1}, calls \in {<<>>, <<Next1>>, <<Next1, 20 + Next1>>} :
                      /\ text # 0 \/ calls # <<>>
                      /\ Grow(Message("assistant", text, calls, <<>>, "none"))
\* The results of the calls; only an Anthropic message has room for a text.
ToolAnswers == /\ Open # <<>>
               /\ \E text \in IF client = "anthropic" THEN {0, Next1} ELSE {0} :
                    Grow(Message("tool", text, <<>>, Open, "none"))
\* a system message of the harness, at the start or in the middle
SystemSays == Grow(Message("system", Next1, <<>>, <<>>, "none"))

Send == /\ Speaker \in {"user", "tool"} /\ upto < Len(hist)
        /\ req' = Request(hist) /\ upto' = Len(hist)
        /\ UNCHANGED <<client, upstream, ask, hist>>

RequestNext == UserSays \/ AssistantSays \/ ToolAnswers \/ SystemSays \/ Send
RequestSpec == RequestInit /\ [][RequestNext]_requestVars

-------------------------------------------------------------------------------
Sent == req.state = "sent"
\* all texts of a sequence of messages, and all pictures
AllText(ms) == FlattenSeq([i \in DOMAIN ms |-> ms[i].text])
Pictured(ms) == FlattenSeq([i \in DOMAIN ms |-> ms[i].images])
\* what the client has said, results included, system messages or the rest
Uttered(h, system) ==
  FlattenSeq([i \in DOMAIN h |->
    IF (h[i].role = "system") # system THEN <<>>
    ELSE FlattenSeq([j \in DOMAIN h[i].answers |-> ResultText(h[i].answers[j])])
         \o Words(h[i].text)])
\* those of s that are in T, in their order
Only(s, T) == FlattenSeq([i \in DOMAIN s |-> IF s[i] \in T THEN <<s[i]>> ELSE <<>>])

\* No dialect loses or repeats or reorders what was said: the turns' texts and
\* results reach the upstream in their order, every system text once, as the
\* system text or inside a turn; pictures too, between the dialects that hold
\* them, and a request that would go without one is refused.
NothingLost ==
  LET h == SubSeq(hist, 1, upto)
      turns == Uttered(h, FALSE)
      reminders == Uttered(h, TRUE)
      all == req.system \o AllText(req.msgs)
  IN Sent =>
       /\ Only(all, Range(turns)) = turns
       /\ Only(all, Range(reminders)) = reminders
       /\ Len(all) = Len(turns) + Len(reminders)
       /\ client = "openai" /\ upstream \in {"openai", "responses", "commandcode"} =>
            Pictured(req.msgs) = FlattenSeq([i \in DOMAIN h |-> Pictures(h[i])])

\* What follows a message with calls is the results of exactly these calls,
\* as the chat APIs demand, whatever text and reminders lie around them.  A
\* Responses item is a message of its own, Ollama's results have no ids.
ResultsFollow ==
  Sent /\ client \in {"openai", "anthropic"} /\ upstream \notin {"responses", "ollama"} =>
    \A i \in DOMAIN req.msgs :
      LET calls == req.msgs[i].calls
      IN \A k \in DOMAIN calls : /\ i + k <= Len(req.msgs)
                                 /\ req.msgs[i + k].answer = calls[k]

\* When the conversation goes on, all messages of the request before but its
\* last are the beginning of the next one, and the system text stays: so the
\* upstream's prompt cache keeps its prefix.  Anthropic's mid-conversation
\* reminders must not move the history; other dialects' system text may grow.
PrefixKept ==
  [][Send /\ Sent /\ req'.state = "sent" =>
       /\ IsPrefix(Front(req.msgs), req'.msgs)
       /\ client = "anthropic" => req'.system = req.system]_requestVars

\* Whatever effort the client asked for, an Anthropic request made from it has
\* room for an answer beside its thinking; whatever budget, the tier made from
\* it holds that budget or is the highest there is.
ThinkingFits ==
  Sent => /\ upstream = "anthropic" /\ ask.effort # "none" =>
               req.think.max > req.think.budget /\ req.think.budget = Budget[ask.effort]
          /\ upstream \in {"openai", "responses"} /\ ask.budget > 0 =>
               /\ req.think.effort \in {"low", "medium", "high"}
               /\ req.think.effort # "high" => Budget[req.think.effort] >= ask.budget
===============================================================================
