------------------------------- MODULE Panels -------------------------------
(* Two pipelines that ask several models at once and hand what they said to  *)
(* one more: a fusion (src/internal/proxy/fusion.go), whose judge gets the   *)
(* drafts with the user's request, and the round table (src/mcp.go), whose   *)
(* panelists answer, read each other, answer again, and are summed up by a   *)
(* moderator. A panelist may use research tools (chatWithTools in            *)
(* src/websearch.go). Each panelist or participant is a goroutine of its     *)
(* own; an answer is its author and its round.                               *)
EXTENDS Integers, Sequences, FiniteSets, SequencesExt

CONSTANTS
    Members,      \* how many panelists, or participants, there are
    ToolRounds,   \* maxToolRounds: turns that are offered the tools
    ExtraRounds,  \* turns a model is modelled to call tools it was not offered
    LogBound      \* searchLog's bound

ASSUME PanelsAssumption ==
    /\ Members \in Nat \ {0} /\ ToolRounds \in Nat
    /\ ExtraRounds \in Nat /\ LogBound \in Nat

Seats == 1..Members

VARIABLES
    job,          \* what runs: [kind, rounds, history, squeezed]
    phase,        \* idle, first, second, sum (the last model), done
    seat,         \* per member: [at, turns, open, prompt]
    answers,      \* per member, what is in the table after its rounds
    revised,      \* per member, what the second round wrote
    spoken,       \* what each member did say, by round: a text, an empty one, or nothing
    spent,        \* usageAcc: calls whose tokens were added
    looked,       \* searchLog: lookups recorded
    outcome       \* what came of it

panelVars == <<job, phase, seat, answers, revised, spoken, spent, looked, outcome>>

Blank == [by |-> 0, round |-> 0]            \* no draft: "" in the slice
Unavailable == [by |-> 0, round |-> -1]     \* "(unavailable: ...)"
Answer(i, r) == [by |-> i, round |-> r]
Unsaid == [by |-> 0, round |-> -2]          \* no reply in that round

Waiting == [at |-> "start", turns |-> 0, open |-> 0, prompt |-> <<>>]
Finished(i) == seat[i].at = "end"

PanelsInit ==
    /\ job = [kind |-> "none", rounds |-> 0, history |-> <<>>, squeezed |-> FALSE]
    /\ phase = "idle"
    /\ seat = [i \in Seats |-> Waiting]
    /\ answers = [i \in Seats |-> Blank] /\ revised = [i \in Seats |-> Blank]
    /\ spoken = [i \in Seats |-> <<Unsaid, Unsaid>>]
    /\ spent = 0 /\ looked = 0
    /\ outcome = [kind |-> "none"]

-----------------------------------------------------------------------------
(* The fusion. A history is the roles of the request's messages.             *)

\* FusionWith: every participant is asked for a draft.
StartFusion(history) ==
    /\ phase = "idle" /\ phase' = "first"
    /\ job' = [job EXCEPT !.kind = "fusion", !.history = history]
    /\ UNCHANGED <<seat, answers, revised, spoken, spent, looked, outcome>>

\* internalComplete for one participant: a draft, an empty one, or an error,
\* which leaves the slot empty.
Draft(i, text) ==
    /\ job.kind = "fusion" /\ phase = "first" /\ ~Finished(i)
    /\ answers' = [answers EXCEPT ![i] = text]
    /\ spoken' = [spoken EXCEPT ![i][1] = text]
    /\ seat' = [seat EXCEPT ![i].at = "end"]
    /\ UNCHANGED <<job, phase, revised, spent, looked, outcome>>

\* Faulty: the drafts numbered by their slot and cut to as many as came.
DraftsCut ==
    LET n == Cardinality({i \in Seats : answers[i] # Blank})
    IN  [k \in 1..n |-> [by |-> k, draft |-> answers[k]]]

\* Seats in the participants' order.
InOrder(S) == CHOOSE s \in [1..Cardinality(S) -> S] : \A k, m \in DOMAIN s : k < m => s[k] < s[m]

\* The drafts the judge reads: those that came, in the participants' order,
\* each under its author's name.
Drafts ==
    LET came == InOrder({i \in Seats : answers[i] # Blank})
    IN  [k \in DOMAIN came |-> [by |-> came[k], draft |-> answers[came[k]]]]

\* Where they go: on the last message of the user, or on one of their own.
LastUser(history) ==
    LET users == {k \in DOMAIN history : history[k] = "user"}
    IN  IF users = {} THEN Len(history) + 1 ELSE CHOOSE k \in users : \A m \in users : m <= k

\* Every goroutine is done: the request becomes the judge's, or stays as it was
\* when nobody had a draft.
Judge ==
    /\ job.kind = "fusion" /\ phase = "first" /\ \A i \in Seats : Finished(i)
    /\ phase' = "done"
    /\ outcome' = IF Drafts = <<>> THEN [kind |-> "routed"]
                  ELSE [kind |-> "judged", drafts |-> Drafts, at |-> LastUser(job.history),
                        len |-> IF LastUser(job.history) > Len(job.history)
                                THEN Len(job.history) + 1 ELSE Len(job.history)]
    /\ UNCHANGED <<job, seat, answers, revised, spoken, spent, looked>>

-----------------------------------------------------------------------------
(* The round table.                                                          *)

\* runRoundtable: the context is squeezed once for all if it is long, a
\* summarizer is set and answers; an empty summary leaves the context as it is,
\* though its tokens are added.
Convene(rounds, replies, worded) ==
    /\ phase = "idle" /\ phase' = "first"
    /\ job' = [job EXCEPT !.kind = "table", !.rounds = rounds, !.squeezed = replies /\ worded]
    /\ spent' = IF replies THEN spent + 1 ELSE spent
    /\ UNCHANGED <<seat, answers, revised, spoken, looked, outcome>>

Round == IF phase = "first" THEN 1 ELSE 2

AtTable == job.kind = "table" /\ phase \in {"first", "second"}

\* A panelist's goroutine starts; in the second round its prompt quotes what is
\* in the table for the others.
Speak(i) ==
    /\ AtTable /\ seat[i].at = "start"
    /\ seat' = [seat EXCEPT ![i].at = "call",
                            ![i].prompt = IF Round = 1 THEN <<>> ELSE answers]
    /\ UNCHANGED <<job, phase, answers, revised, spoken, spent, looked, outcome>>

\* Faulty: the second round written where the others still read.
KeepInPlace(i, text) ==
    IF Round = 1 THEN answers' = [answers EXCEPT ![i] = text] /\ UNCHANGED revised
    ELSE answers' = [answers EXCEPT ![i] = text] /\ revised' = [revised EXCEPT ![i] = text]

\* What a failed turn leaves: the notice in the first round, the first answer
\* in the second.
OnFailure(i) == IF Round = 1 THEN Unavailable ELSE answers[i]

Keep(i, text) ==
    IF Round = 1 THEN answers' = [answers EXCEPT ![i] = text] /\ UNCHANGED revised
    ELSE revised' = [revised EXCEPT ![i] = text] /\ UNCHANGED answers

\* chatWithTools: the call fails, or the deadline has passed.
TurnFails(i) ==
    /\ AtTable /\ seat[i].at = "call"
    /\ Keep(i, OnFailure(i))
    /\ seat' = [seat EXCEPT ![i].at = "end"]
    /\ UNCHANGED <<job, phase, spoken, spent, looked, outcome>>

\* The model answers, with a text or with an empty one: neither is an error.
TurnAnswers(i, text) ==
    /\ AtTable /\ seat[i].at = "call"
    /\ Keep(i, text)
    /\ spoken' = [spoken EXCEPT ![i][Round] = text]
    /\ spent' = spent + 1
    /\ seat' = [seat EXCEPT ![i].at = "end"]
    /\ UNCHANGED <<job, phase, looked, outcome>>

\* The model calls tools, n of them: offered in the first ToolRounds turns, and
\* made up by the model after that.
TurnCalls(i, n) ==
    /\ AtTable /\ seat[i].at = "call" /\ seat[i].turns < ToolRounds + ExtraRounds
    /\ seat' = [seat EXCEPT ![i].at = "tools", ![i].open = n, ![i].turns = @ + 1]
    /\ spent' = spent + 1
    /\ UNCHANGED <<job, phase, answers, revised, spoken, looked, outcome>>

\* One call is run and its result, or its error, appended; a lookup that worked
\* is noted, up to the log's bound. After the last one the model is called.
RunTool(i, works) ==
    /\ AtTable /\ seat[i].at = "tools"
    /\ looked' = IF works /\ looked < LogBound THEN looked + 1 ELSE looked
    /\ seat' = [seat EXCEPT ![i].open = @ - 1, ![i].at = IF seat[i].open = 1 THEN "call" ELSE "tools"]
    /\ UNCHANGED <<job, phase, answers, revised, spoken, spent, outcome>>

\* wg.Wait: the next round, or the moderator.
Gather ==
    /\ AtTable /\ \A i \in Seats : Finished(i)
    /\ IF phase = "first" /\ job.rounds > 1
       THEN phase' = "second" /\ seat' = [i \in Seats |-> Waiting] /\ UNCHANGED answers
       ELSE phase' = "sum" /\ answers' = (IF phase = "second" THEN revised ELSE answers) /\ UNCHANGED seat
    /\ UNCHANGED <<job, revised, spoken, spent, looked, outcome>>

\* The moderator's summary, or the notice that there is none; then the record.
Moderate(works) ==
    /\ job.kind = "table" /\ phase = "sum" /\ phase' = "done"
    /\ spent' = IF works THEN spent + 1 ELSE spent
    /\ outcome' = [kind |-> "table", positions |-> answers, summary |-> works, tokens |-> spent']
    /\ UNCHANGED <<job, seat, answers, revised, spoken, looked>>

Histories == {<<>>, <<"user">>, <<"user", "assistant">>, <<"user", "assistant", "user">>,
              <<"user", "assistant", "tool">>}

PanelsNext ==
    \/ \E history \in Histories : StartFusion(history)
    \/ \E i \in Seats, text \in BOOLEAN : Draft(i, IF text THEN Answer(i, 1) ELSE Blank)
    \/ Judge
    \/ \E rounds \in 1..2, replies, worded \in BOOLEAN : Convene(rounds, replies, worded)
    \/ \E i \in Seats : Speak(i) \/ TurnFails(i)
    \/ \E i \in Seats : \E text \in {Answer(i, Round), Blank} : TurnAnswers(i, text)
    \/ \E i \in Seats, n \in 1..2 : TurnCalls(i, n)
    \/ \E i \in Seats, works \in BOOLEAN : RunTool(i, works)
    \/ Gather
    \/ \E works \in BOOLEAN : Moderate(works)

PanelsSpec == PanelsInit /\ [][PanelsNext]_panelVars

-----------------------------------------------------------------------------

\* The judge reads every draft that came and no other, each once, under its
\* author's name and in the configured order, on the last message the user
\* sent; with no draft the request is routed as if there were no fusion
\* (FusionWith).
DraftsExact ==
    LET came == {i \in Seats : spoken[i][1] \notin {Unsaid, Blank}}
    IN  job.kind = "fusion" /\ phase = "done" =>
            IF came = {} THEN outcome.kind = "routed"
            ELSE /\ outcome.kind = "judged"
                 /\ {d.by : d \in ToSet(outcome.drafts)} = came
                 /\ Len(outcome.drafts) = Cardinality(came)
                 /\ \A k \in DOMAIN outcome.drafts :
                       /\ outcome.drafts[k].draft.by = outcome.drafts[k].by
                       /\ \A m \in 1..(k - 1) : outcome.drafts[m].by < outcome.drafts[k].by
                 /\ \A k \in DOMAIN job.history : k > outcome.at => job.history[k] # "user"

\* What stands in the end is the last thing each panelist said: an answer of
\* the first round survives a failure of the second, nobody is reported
\* unavailable who answered, and in the second round everyone reads what the
\* others said in the first, never a revised position of a faster goroutine
\* (runRoundtable). An empty reply is one: it takes a first answer's place.
FirstAnswerStands ==
    LET Opening(i) == IF spoken[i][1] # Unsaid THEN spoken[i][1] ELSE Unavailable
        Closing(i) == IF spoken[i][2] # Unsaid THEN spoken[i][2] ELSE Opening(i)
    IN  /\ phase = "second" =>
               \A i, j \in Seats : seat[i].at # "start" => seat[i].prompt[j] = Opening(j)
        /\ outcome.kind = "table" => \A i \in Seats : outcome.positions[i] = Closing(i)
=============================================================================
