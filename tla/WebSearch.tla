----------------------------- MODULE WebSearch -----------------------------
(* The emulation of the server-side web_search tool                          *)
(* (src/internal/proxy/websearchtool.go). The proxy gives the model a        *)
(* function tool of that name, runs what it asks for, feeds the results back *)
(* and, when the model answers, replies with the searches, their results and *)
(* the answer. A query is its origin, a page is a model value, a model's     *)
(* text is there or not.                                                     *)
EXTENDS Integers, Sequences, FiniteSets, SequencesExt

CONSTANTS
    Pages,        \* what a search can find
    MaxUses,      \* the largest allowance of searches a request has
    MaxParallel   \* calls a model makes in one turn, at most

ASSUME SearchAssumption == MaxUses \in Nat \ {0} /\ MaxParallel \in Nat \ {0}

VARIABLES
    stage,        \* where handleWebSearch is
    ask,          \* the request: its allowance, whether the user's text is there, target
    turn,         \* the loop's round
    found,        \* rounds: what the searches that worked asked and found
    talk,         \* the assistant turns sent back: calls made, calls answered
    failed,       \* loopErr # nil
    said,         \* text: whether the model's words are there
    shown         \* the reply, once written

searchVars == <<stage, ask, turn, found, talk, failed, said, shown>>

Nothing == [blocks |-> <<>>, text |-> "none", sources |-> {}]

SearchInit ==
    /\ stage = "idle" /\ ask = [max |-> 1, user |-> FALSE, target |-> "none"]
    /\ turn = 0 /\ found = <<>> /\ talk = <<>>
    /\ failed = FALSE /\ said = FALSE /\ shown = Nothing

\* The model that answers: the setting's override, else the one a router picks
\* for a virtual name, else the name asked for; none when it does not resolve.
SearchTarget(override, virtual, routed, resolves) ==
    IF ~resolves THEN "none"
    ELSE IF override THEN "override"
    ELSE IF virtual /\ routed THEN "routed"
    ELSE "asked"

\* The allowance: the setting's, unless the request's is there and smaller.
Allowance(setting, requested) ==
    IF requested > 0 /\ requested < setting THEN requested ELSE setting

\* handleWebSearch up to its loop.
StartSearch(setting, requested, user, override, virtual, routed, resolves) ==
    LET target == SearchTarget(override, virtual, routed, resolves)
    IN  /\ stage = "idle"
        /\ ask' = [max |-> Allowance(setting, requested), user |-> user, target |-> target]
        /\ stage' = IF target = "none" THEN "refused" ELSE "ask"
        /\ UNCHANGED <<turn, found, talk, failed, said, shown>>

Used == Len(found)

\* callModel fails: no connection, an error status, an unreadable answer.
ModelFails ==
    /\ stage = "ask"
    /\ failed' = TRUE /\ stage' = "reply"
    /\ UNCHANGED <<ask, turn, found, talk, said, shown>>

\* Faulty: the rounds counted from one.
OwnSearchLate == Used = 0 /\ turn = 1 /\ ask.user

\* The model answered the first time from memory: the user's own question is
\* searched once.
OwnSearchDue == Used = 0 /\ turn = 0 /\ ask.user

\* The model answers without calling the tool.
ModelAnswers(words) ==
    /\ stage = "ask"
    /\ said' = words
    /\ stage' = IF OwnSearchDue THEN "own" ELSE "reply"
    /\ UNCHANGED <<ask, turn, found, talk, failed, shown>>

\* The model calls the tool, and its allowance is used up.
CallsDenied(words) ==
    /\ stage = "ask" /\ Used >= ask.max
    /\ said' = words /\ stage' = "reply"
    /\ UNCHANGED <<ask, turn, found, talk, failed, shown>>

\* The model calls the tool n times in one turn.
ModelCalls(n) ==
    /\ stage = "ask" /\ Used < ask.max
    /\ talk' = Append(talk, [calls |-> n, answered |-> 0])
    /\ stage' = "calls"
    /\ UNCHANGED <<ask, turn, found, failed, said, shown>>

\* searx: pages found, none among them too, or an error.
Searched(query, pages) == found' = Append(found, [query |-> query, pages |-> pages])

Failing == [ok |-> FALSE, pages |-> {}]

Outcomes == {Failing} \union {[ok |-> TRUE, pages |-> ps] : ps \in SUBSET Pages}

\* One call of the turn is run; a query left blank is the user's question, and
\* an error goes back to the model as the call's result. The turn ends when its
\* calls are run or the allowance is used up; the loop, when its rounds are, or
\* when nothing was found and a search failed.
RunCall(blank, outcome) ==
    LET now == [Last(talk) EXCEPT !.answered = @ + 1]
        over == now.answered = now.calls \/ Len(found') >= ask.max
        quits == (failed' /\ Len(found') = 0) \/ turn = ask.max
    IN  /\ stage = "calls"
        /\ IF outcome.ok THEN Searched(IF blank THEN "user" ELSE "own", outcome.pages) /\ UNCHANGED failed
           ELSE failed' = TRUE /\ UNCHANGED found
        /\ talk' = Append(Front(talk), now)
        /\ stage' = IF ~over THEN "calls" ELSE IF quits THEN "reply" ELSE "ask"
        /\ turn' = IF over /\ ~quits THEN turn + 1 ELSE turn
        /\ UNCHANGED <<ask, said, shown>>

OwnSearch(outcome) ==
    /\ stage = "own"
    /\ IF outcome.ok THEN Searched("user", outcome.pages) /\ stage' = "again" /\ UNCHANGED failed
       ELSE failed' = TRUE /\ stage' = "reply" /\ UNCHANGED found
    /\ UNCHANGED <<ask, turn, talk, said, shown>>

\* The model is asked once more with the results; its words replace the first
\* ones if there are any.
AnswersAgain(words) ==
    /\ stage = "again"
    /\ said' = (said \/ words)
    /\ stage' = "reply"
    /\ UNCHANGED <<ask, turn, found, talk, failed, shown>>

\* searchBlocks: a use and its result for every round that worked.
SearchBlocks ==
    [k \in 1..(2 * Len(found)) |->
        LET i == (k + 1) \div 2
        IN  IF k % 2 = 1 THEN [kind |-> "use", of |-> i, query |-> found[i].query]
            ELSE [kind |-> "result", of |-> i, pages |-> found[i].pages]]

SourcesOf == UNION {found[i].pages : i \in DOMAIN found}

\* The reply, streamed or not: the blocks, then the words or the error, then
\* every page found.
ReplySearch ==
    /\ stage = "reply" /\ stage' = "done"
    /\ shown' = [blocks |-> SearchBlocks, sources |-> SourcesOf,
                 text |-> IF said THEN "words" ELSE IF failed THEN "error" ELSE "none"]
    /\ UNCHANGED <<ask, turn, found, talk, failed, said>>

SearchNext ==
    \/ \E setting \in 1..MaxUses, requested \in 0..MaxUses, user, override, virtual, routed, resolves \in BOOLEAN :
          StartSearch(setting, requested, user, override, virtual, routed, resolves)
    \/ ModelFails
    \/ \E words \in BOOLEAN : ModelAnswers(words) \/ CallsDenied(words) \/ AnswersAgain(words)
    \/ \E n \in 1..MaxParallel : ModelCalls(n)
    \/ \E blank \in BOOLEAN, outcome \in Outcomes : RunCall(blank, outcome)
    \/ \E outcome \in Outcomes : OwnSearch(outcome)
    \/ ReplySearch

SearchSpec == SearchInit /\ [][SearchNext]_searchVars

-----------------------------------------------------------------------------

\* A search request with a question is never answered from memory with nothing
\* said: when the reply is written a search worked, or the failure is recorded;
\* no more searches ran than allowed; the reply shows each search with its own
\* result and every page any of them found (handleWebSearch's loop and tail).
SearchSettles ==
    stage = "done" =>
        /\ ask.user => found # <<>> \/ failed
        /\ Len(found) <= ask.max
        /\ failed /\ found = <<>> => shown.text # "none"
        /\ \A i \in DOMAIN found :
              /\ \E k \in DOMAIN shown.blocks :
                    shown.blocks[k].kind = "use" /\ shown.blocks[k + 1] = [kind |-> "result", of |-> i, pages |-> found[i].pages]
              /\ found[i].pages \subseteq shown.sources
=============================================================================
