---------------------------- MODULE Preparation ----------------------------
(* What handleCore does to a request before a provider is chosen             *)
(* (src/internal/proxy/proxy.go, compress.go, autoroute.go, routesticky.go,  *)
(* fusion.go) and what is left of its tool results when it is sent           *)
(* (caveman.go): a long conversation is cut and its head replaced by a       *)
(* summary, drafts or a briefing are attached to the user's last words, a    *)
(* router picks the model, bulky results are shortened. The client resends   *)
(* its whole conversation each turn. A message is its place in the           *)
(* conversation and its role; its text is none (a picture), short or long.   *)
EXTENDS Integers, Sequences, FiniteSets, SequencesExt

CONSTANTS
    MaxTalk,      \* messages of a conversation, at most
    Threshold,    \* messages from which a request exceeds threshold_tokens
    KeepRecent,   \* keep_recent: at least 2 in the code
    Shown,        \* messages of a head, its last ones, that fit in the 200000
                  \* characters the summarizer is shown
    KeepTools,    \* cavemanKeepRecent
    MaxCalls,     \* tools an assistant calls in a turn, at most
    SummaryMax,   \* summaryCacheMax
    Buckets       \* what the classifier may answer, each leading to its model

ASSUME PreparationAssumption ==
    /\ MaxTalk \in Nat /\ Threshold \in Nat /\ KeepRecent \in Nat \ {0, 1}
    /\ KeepTools \in Nat /\ MaxCalls \in Nat /\ SummaryMax \in Nat \ {0} /\ Shown \in Nat \ {0}

VARIABLES
    history,      \* the client's conversation: [role, calls, text]
    due,          \* tool results the client still has to append
    summaries,    \* p.summaries: the heads a summary is kept of, by their length
    pinned,       \* routeCache for this conversation's keys: a bucket, or none
    sent          \* the request as sent: its messages, its model

prepVars == <<history, due, summaries, pinned, sent>>

NoPin == "no pin"
NotSent == [messages |-> <<>>, bucket |-> NoPin]
Texts == {"none", "short", "long"}
Keys == -MaxTalk..MaxTalk   \* see KeyOf

PrepInit ==
    /\ \E text \in Texts : history = <<[role |-> "user", calls |-> 0, text |-> text]>>
    /\ due = 0 /\ summaries = {} /\ pinned = [k \in Keys |-> NoPin] /\ sent = NotSent

-----------------------------------------------------------------------------
(* Compress.                                                                 *)

\* Faulty: the cut where the count says, whatever is there.
CutBlind(ms) == Len(ms) - KeepRecent

\* The cut: all but the recent messages, moved on past tool results.
Cut(ms) ==
    LET from == Len(ms) - KeepRecent
        clean == {k \in from..Len(ms) : k = Len(ms) \/ ms[k + 1].role # "tool"}
    IN  CHOOSE k \in clean : \A m \in clean : k <= m

Cuts(ms) ==
    /\ Len(ms) >= Threshold /\ Len(ms) > KeepRecent + 2
    /\ Cut(ms) > 1 /\ Cut(ms) < Len(ms)

\* A message as it is sent: where it stands in the conversation (0: the summary
\* of those "from" one "upto" another), its role, shortened or not, what is
\* attached to it. A head too long to show is summarised from its last messages.
AsSent(ms, k) == [at |-> k, role |-> ms[k].role, from |-> k, upto |-> k, short |-> FALSE, attached |-> {}]
Summary(cut) == [at |-> 0, role |-> "user", from |-> IF cut > Shown THEN cut - Shown + 1 ELSE 1,
                 upto |-> cut, short |-> FALSE, attached |-> {}]

Whole(ms) == [k \in DOMAIN ms |-> AsSent(ms, k)]

Compressed(ms) == <<Summary(Cut(ms))>> \o SubSeq(Whole(ms), Cut(ms) + 1, Len(ms))

\* The summaries' table: reset when it is full.
Remembered(cut) ==
    IF cut \in summaries THEN summaries
    ELSE (IF Cardinality(summaries) >= SummaryMax THEN {} ELSE summaries) \union {cut}

-----------------------------------------------------------------------------
(* Attaching, routing, shortening.                                           *)

UsersIn(out) == {k \in DOMAIN out : out[k].role = "user"}
\* those with words; a summary has some
Wordy(ms, out) == {k \in UsersIn(out) : out[k].at # 0 => ms[out[k].at].text # "none"}

\* FusionWith puts the drafts on the last message of the user, appendBriefing the
\* briefing on the last one with words; PlanWith writes none when there is none.
Attach(out, ks, what) ==
    IF ks = {} THEN out ELSE [out EXCEPT ![Max(ks)].attached = @ \union {what}]

\* conversationFingerprint: the first words of the user as they are now, which may
\* be the summary of a cut (-cut), and no user's (0). With a briefing on them they
\* are new words each time, so no pin is found again.
KeyOf(ms, out) ==
    IF Wordy(ms, out) = {} THEN 0
    ELSE LET m == out[Min(Wordy(ms, out))] IN IF m.at = 0 THEN -m.upto ELSE m.at
Briefed(ms, out) == Wordy(ms, out) # {} /\ "briefing" \in out[Min(Wordy(ms, out))].attached

\* AutoRouteWith: the key's pin, or the classifier's bucket, which is pinned, as
\* is default when the answer names none; a classifier that fails leads to
\* default and pins nothing.
Routed(pin, answer) ==
    IF pin # NoPin THEN [bucket |-> pin, pin |-> pin]
    ELSE IF answer = "fails" THEN [bucket |-> "default", pin |-> NoPin]
    ELSE [bucket |-> answer, pin |-> answer]

\* The pins of summaries that will be written anew are never found again.
Findable(pins, kept) == [k \in Keys |-> IF k < 0 /\ -k \notin kept THEN NoPin ELSE pins[k]]

\* CavemanCompress: the long tool results but the newest ones; asked for by the
\* caller, all of them and the user's long messages, but not the last message.
Shortens(ms, out, k, explicit) ==
    LET tools == {m \in DOMAIN out : out[m].role = "tool"}
        newest == {m \in tools : Cardinality({n \in tools : n > m}) < KeepTools}
    IN  /\ out[k].at # 0 /\ ms[out[k].at].text = "long"
        /\ \/ out[k].role = "tool" /\ (explicit \/ k \notin newest)
           \/ out[k].role = "user" /\ explicit /\ k # Len(out)

Caveman(ms, out, mode) ==
    IF mode = "off" THEN out
    ELSE [k \in DOMAIN out |-> [out[k] EXCEPT !.short = Shortens(ms, out, k, mode = "asked")]]

\* CavemanModeFor: the caller's word, else what the provider or the share has
\* set, which never shortens the reply.
CavemanModeFor(asked, standing) ==
    IF asked = "in" THEN "asked" ELSE IF asked = "off" THEN "off"
    ELSE IF standing THEN "standing" ELSE "off"

CavemanModes == {CavemanModeFor(asked, standing) : asked \in {"", "in", "off"}, standing \in BOOLEAN}

-----------------------------------------------------------------------------

\* handleCore up to the chain: compress (from the cache, by the summarizer, or
\* not at all when it fails), fuse, plan, route, shorten. What is asked for is a
\* model, a fusion, or a router, whose bucket may lead to a fusion.
Prepare(works, way, planned, answer, mode) ==
    LET routes == way \in {"router", "router to fusion"}
        cuts == Cuts(history) /\ (works \/ Cut(history) \in summaries)
        kept == IF cuts THEN Remembered(Cut(history)) ELSE summaries
        head == IF cuts THEN Compressed(history) ELSE Whole(history)
        brief == IF planned THEN Attach(head, Wordy(history, head), "briefing") ELSE head
        drafts == IF way \in {"fusion", "router to fusion"} THEN Attach(brief, UsersIn(brief), "drafts")
                  ELSE brief
        key == KeyOf(history, brief)
        pins == Findable(pinned, kept \cap summaries)
        routed == Routed(IF Briefed(history, brief) THEN NoPin ELSE pins[key], answer)
    IN  /\ due = 0 /\ sent = NotSent
        /\ summaries' = kept
        /\ sent' = [messages |-> Caveman(history, drafts, mode),
                    bucket |-> IF routes THEN routed.bucket ELSE way]
        /\ pinned' = IF routes /\ ~Briefed(history, brief) THEN [pins EXCEPT ![key] = routed.pin] ELSE pins
        /\ UNCHANGED <<history, due>>

Say(role, calls, text) == Append(history, [role |-> role, calls |-> calls, text |-> text])

\* The model answers, calling tools or not.
Reply(calls) ==
    /\ sent # NotSent /\ due = 0 /\ Last(history).role # "assistant"
    /\ Len(history) + 1 + calls <= MaxTalk
    /\ history' = Say("assistant", calls, "short") /\ due' = calls
    /\ sent' = NotSent
    /\ UNCHANGED <<summaries, pinned>>

\* The client appends a result, or the user speaks.
Result(text) ==
    /\ due > 0 /\ due' = due - 1
    /\ history' = Say("tool", 0, text)
    /\ UNCHANGED <<summaries, pinned, sent>>

Ask(text) ==
    /\ due = 0 /\ Last(history).role # "user" /\ Len(history) < MaxTalk
    /\ history' = Say("user", 0, text) /\ sent' = NotSent
    /\ UNCHANGED <<due, summaries, pinned>>

\* The client gives up on the answer and sends the same again.
Retry == sent # NotSent /\ sent' = NotSent /\ UNCHANGED <<history, due, summaries, pinned>>

PrepNext ==
    \/ \E works \in BOOLEAN, mode \in CavemanModes :
         \/ \E way \in {"model", "fusion"} : Prepare(works, way, FALSE, "default", mode)
         \/ \E way \in {"router", "router to fusion"}, planned \in BOOLEAN,
               answer \in Buckets \union {"default", "fails"} : Prepare(works, way, planned, answer, mode)
    \/ Retry
    \/ \E calls \in 0..MaxCalls : Reply(calls)
    \/ \E text \in Texts : (text # "none" /\ Result(text)) \/ Ask(text)

PrepSpec == PrepInit /\ [][PrepNext]_prepVars

-----------------------------------------------------------------------------

\* The assistant's message a tool result answers: the last one before it.
CallOf(k) == CHOOSE a \in 1..k : history[a].role = "assistant" /\ \A m \in (a + 1)..k : history[m].role = "tool"

\* What is sent of the conversation, message by message.
WellSent(out) ==
    /\ \A k \in DOMAIN out : out[k].role = "tool" =>
          \E m \in 1..(k - 1) : out[m].at = CallOf(out[k].at)
    /\ \A k \in DOMAIN out \ {1} : out[k].from = out[k - 1].upto + 1
    /\ out[1].from = 1 \/ (out[1].at = 0 /\ out[1].upto > Shown)
    /\ Last(out).at = Len(history)
    /\ \A k \in DOMAIN out : out[k].attached # {} => out[k].role = "user"
    /\ Last(out).role = "user" => ~Last(out).short

\* However a conversation is cut, summarised, drafted on and shortened: no tool
\* result is sent without the message that called for it; every message is sent or
\* summarised, once and in order, but for the oldest of a head that is longer than
\* what the summarizer is shown; what is attached is attached to words of the user,
\* and the user's newest words go out as they were written (Compress, FusionWith,
\* appendBriefing, CavemanCompress).
NoOrphanResults == sent # NotSent => WellSent(sent.messages)
=============================================================================
