---------------------------- MODULE StreamDialects ----------------------------
(***************************************************************************)
(* The reply of one attempt on its way through internal/wire: the upstream *)
(* speaks one dialect, a reader turns its events into normalized deltas,   *)
(* and a writer frames them in the client's dialect.  A reply that is not  *)
(* streamed is parsed whole and rebuilt.  Texts, thoughts and argument     *)
(* fragments are numbered pieces; the goroutines and channels between      *)
(* reader and writer are in StreamRelay.                                   *)
(***************************************************************************)
EXTENDS Integers, Sequences, FiniteSets, SequencesExt

CONSTANTS Upstreams, Clients,   \* the dialects considered, at most all of these
          Modes,     \* "stream", "whole", "raw": passed on byte by byte
          Events,    \* bound on the pieces the upstream says
          Calls      \* bound on its tool calls

ASSUME DialectsAssumption ==
  /\ Upstreams \subseteq {"openai", "anthropic", "responses", "ollama", "commandcode"}
  /\ Clients \subseteq {"openai", "anthropic", "responses", "ollama"}
  /\ Modes \subseteq {"stream", "whole", "raw"}
  /\ Events \in Nat /\ Calls \in Nat \ {0}

VARIABLES from, to,  \* the two dialects
          mode,      \* a stream, a whole reply, or a stream passed on as it is
          n,         \* pieces said so far
          said,      \* what the upstream said, see below
          rd,        \* the reader's bookkeeping
          x,         \* the writer's
          sent,      \* frames the client has
          noted,     \* token counts in the trace
          told       \* how the reply ended for the client

vars == <<from, to, mode, n, said, rd, x, sent, noted, told>>

Reasons == {"stop", "tool_calls", "length"}
CallId == 1..Calls
Index == 0..(2 * Calls)
None == -1

\* An argument text is the sequence of its fragments.  The last fragment of a
\* complete one is negative, 0 is a fragment that arrived damaged.
Valid(args) == /\ args # <<>>
               /\ {i \in DOMAIN args : args[i] <= 0} = {Len(args)}
               /\ Last(args) < 0
Repair(args) == IF Valid(args) THEN args ELSE <<>>    \* "{}" in the code

\* said: the texts and thoughts; args: by call, and started: how many calls,
\* numbered in the order they start; open: the tool_use block an Anthropic
\* upstream is in; hurt: calls with a fragment damaged on the way; mixed: a
\* fragment came after a later call had started; why: the reason, or "none";
\* failed: an error event came.
-------------------------------------------------------------------------------
\* normalized deltas and the client's frames
Delta(kind, at, id, piece) == [kind |-> kind, at |-> at, id |-> id, piece |-> piece]
Text(p) == Delta("text", None, 0, <<p>>)
Reasoning(p) == Delta("reason", None, 0, <<p>>)
CallDelta(at, id, piece) == Delta("call", at, id, piece)
Frame(kind, at, id, piece) == Delta(kind, at, id, piece)

\* Result of a writer: its bookkeeping and the frames it adds.
Wrote(y, frames) == [x |-> y, add |-> frames]
AndThen(w, v) == [x |-> v.x, add |-> w.add \o v.add]

NewWriter == [block |-> None, open |-> "none", cur |-> None, held |-> <<>>,
              ids |-> [i \in Index |-> 0], outIdx |-> 0, msgOpen |-> FALSE, msgIdx |-> 0,
              fullText |-> <<>>,
              order |-> <<>>, itemAt |-> [i \in Index |-> None],
              args |-> [i \in Index |-> <<>>]]

Identify(y, d) == IF d.id = 0 THEN y ELSE [y EXCEPT !.ids[d.at] = d.id]

\* WriteOpenAIStream: every delta is a chunk of its own
WriteOpenAI(d) == Wrote(x, <<Frame(d.kind, d.at, d.id, d.piece)>>)

-------------------------------------------------------------------------------
\* WriteAnthropicStream: content blocks one after the other
CloseBlock(y) ==
  IF y.open = "none" THEN Wrote(y, <<>>)
  ELSE Wrote([y EXCEPT !.open = "none", !.cur = None],
             (IF y.open = "think" THEN <<Frame("signature", y.block, 0, <<>>)>> ELSE <<>>)
               \o <<Frame("stop", y.block, 0, <<>>)>>)
OpenBlock(y, kind, at) ==
  Wrote([y EXCEPT !.block = @ + 1, !.open = kind, !.cur = at],
        <<Frame("start", y.block + 1, IF kind = "call" THEN y.ids[at] ELSE 0, <<>>)>>)
\* emitText and emitThinking: closes whatever else is open
Emit(y, kind, frame, piece) ==
  LET closed == CloseBlock(y)
      opened == IF y.open = kind THEN Wrote(y, <<>>)
                ELSE AndThen(closed, OpenBlock(closed.x, kind, None))
  IN AndThen(opened, Wrote(opened.x, <<Frame(frame, opened.x.block, 0, piece)>>))
\* closeBlock, then the text held back while a call was open
EmitHeld(y) ==
  LET closed == CloseBlock(y)
      held == Emit([closed.x EXCEPT !.held = <<>>], "text", "text", y.held)
  IN IF y.held = <<>> THEN closed
     ELSE AndThen(closed, AndThen(held, CloseBlock(held.x)))
\* faulty: text that arrives while a call is open is written at once
HoldNothing(y, piece) == Emit(y, "text", "text", piece)
HoldOrEmit(y, piece) == IF y.cur # None THEN Wrote([y EXCEPT !.held = @ \o piece], <<>>)
                        ELSE Emit(y, "text", "text", piece)
\* faulty: the block of the call before is left open
SwitchUnclosed(y, at) == IF y.cur = at THEN Wrote(y, <<>>) ELSE OpenBlock(y, "call", at)
SwitchCall(y, at) ==
  LET flushed == EmitHeld(y)
  IN IF y.cur = at THEN Wrote(y, <<>>)
     ELSE AndThen(flushed, OpenBlock(flushed.x, "call", at))
WriteAnthropic(d) ==
  CASE d.kind = "reason" -> IF x.cur # None THEN Wrote(x, <<>>)
                            ELSE Emit(x, "think", "reason", d.piece)
    [] d.kind = "text" -> HoldOrEmit(x, d.piece)
    [] d.kind = "call" ->
         LET at == SwitchCall(Identify(x, d), d.at)
         IN AndThen(at, Wrote(at.x, IF d.piece = <<>> THEN <<>>
                                    ELSE <<Frame("call", at.x.block, 0, d.piece)>>))

-------------------------------------------------------------------------------
\* WriteResponsesStream: output items; the calls are closed at the end
OpenMsg(y) == IF y.msgOpen THEN Wrote(y, <<>>)
              ELSE Wrote([y EXCEPT !.msgOpen = TRUE, !.msgIdx = y.outIdx, !.outIdx = @ + 1],
                         <<Frame("added", y.outIdx, 0, <<>>)>>)
CloseMsg(y) == IF ~y.msgOpen THEN Wrote(y, <<>>)
               ELSE Wrote([y EXCEPT !.msgOpen = FALSE], <<Frame("done", y.msgIdx, 0, y.fullText)>>)
ItemOf(y, at) == IF y.itemAt[at] # None THEN y
                 ELSE [y EXCEPT !.itemAt[at] = y.outIdx, !.outIdx = @ + 1,
                                !.order = Append(@, at)]
WriteResponses(d) ==
  CASE d.kind = "reason" -> Wrote(x, <<>>)
    [] d.kind = "text" -> LET m == OpenMsg(x)
                          IN AndThen(m, Wrote([m.x EXCEPT !.fullText = @ \o d.piece],
                                              <<Frame("text", m.x.msgIdx, 0, d.piece)>>))
    [] d.kind = "call" ->
         LET m == CloseMsg(x)
             y == Identify(ItemOf(m.x, d.at), d)
         IN AndThen(m, Wrote([y EXCEPT !.args[d.at] = @ \o d.piece],
              (IF d.id # 0 THEN <<Frame("added", y.itemAt[d.at], y.ids[d.at], <<>>)>> ELSE <<>>)
              \o (IF d.piece # <<>> THEN <<Frame("call", y.itemAt[d.at], 0, d.piece)>> ELSE <<>>)))

\* WriteOllamaStream: text at once, calls kept for the last line
WriteOllama(d) ==
  CASE d.kind = "reason" -> Wrote(x, <<>>)
    [] d.kind = "text" -> Wrote(x, <<Frame("text", None, 0, d.piece)>>)
    [] d.kind = "call" ->
         Wrote([Identify(x, d) EXCEPT !.args[d.at] = @ \o d.piece,
                  !.order = IF d.at \in Range(@) THEN @ ELSE Append(@, d.at)], <<>>)

Write(d) == CASE to = "openai" -> WriteOpenAI(d)
              [] to = "anthropic" -> WriteAnthropic(d)
              [] to = "responses" -> WriteResponses(d)
              [] to = "ollama" -> WriteOllama(d)

\* what the writers add when the deltas end
FlatSeq(f, ix) == FlattenSeq([j \in DOMAIN ix |-> f[ix[j]]])
Finishing ==
  CASE to = "openai" -> <<>>
    [] to = "anthropic" -> EmitHeld(x).add
    [] to = "responses" ->
         CloseMsg(x).add \o FlatSeq([i \in Index |-> <<Frame("done", x.itemAt[i], 0, x.args[i])>>], x.order)
    [] to = "ollama" ->
         FlatSeq([i \in Index |-> <<Frame("call", i, x.ids[i], Repair(x.args[i]))>>], x.order)
\* the stop reason in the client's dialect
Tell(f) == CASE to = "responses" -> "completed"
             [] to = "ollama" -> IF f = "length" THEN "length" ELSE "stop"
             [] OTHER -> f

-------------------------------------------------------------------------------
\* copy: the arguments the reader has put together; seen: calls with fragments;
\* over: calls whose closing event came; finish, usage: as the readers keep them
NewReader(f) == [copy |-> [c \in CallId |-> <<>>], seen |-> {}, over |-> {},
                 finish |-> IF f \in {"anthropic", "ollama"} THEN "stop" ELSE "none",
                 usage |-> IF f = "anthropic" THEN {"input"} ELSE {}]

Init == /\ from \in Upstreams /\ to \in Clients /\ mode \in Modes
        /\ mode = "raw" => from = to
        /\ n = 0 /\ sent = <<>> /\ noted = {} /\ told = "none"
        /\ said = [text |-> <<>>, thought |-> <<>>, args |-> [c \in CallId |-> <<>>],
                   started |-> 0, open |-> 0, hurt |-> {}, mixed |-> FALSE, why |-> "none",
                   failed |-> FALSE]
        /\ rd = NewReader(from)
        /\ x = NewWriter

Saying == told = "none" /\ said.why = "none" /\ ~said.failed
\* an argument of a call the upstream has not finished may still grow
Growing(c) == c <= said.started /\ (said.args[c] # <<>> => Last(said.args[c]) > 0)
\* the index a reader gives: its own count, or the upstream's, in which a
\* Responses upstream also counts its messages
IndexOf(c) == IF from = "responses" THEN 2 * c ELSE c - 1

\* a delta is written, unless the reply is read as a whole
Deliver(d) == IF mode = "stream"
                THEN LET w == Write(d) IN x' = w.x /\ sent' = sent \o w.add
                ELSE UNCHANGED <<x, sent>>
Quiet == UNCHANGED <<x, sent>>

\* an Anthropic upstream finishes a block before the next one
BlockDone == from = "anthropic" /\ said.open # 0 => ~Growing(said.open)

SayText == /\ Saying /\ n < Events /\ BlockDone
           /\ n' = n + 1
           /\ said' = [said EXCEPT !.text = Append(@, n'), !.open = 0]
           /\ Deliver(Text(n'))
           /\ UNCHANGED <<from, to, mode, rd, noted, told>>

SayThought == /\ Saying /\ n < Events /\ BlockDone /\ from # "ollama"
              /\ n' = n + 1
              /\ said' = [said EXCEPT !.thought = Append(@, n'), !.open = 0]
              /\ Deliver(Reasoning(n'))
              /\ UNCHANGED <<from, to, mode, rd, noted, told>>

\* A call is announced: content_block_start, output_item.added, the first
\* tool_calls chunk, tool-input-start.  Command Code's reader only takes note.
StartCall == /\ Saying /\ BlockDone /\ from # "ollama" /\ said.started < Calls
             /\ said' = [said EXCEPT !.started = @ + 1, !.open = said.started + 1]
             /\ rd' = IF from = "responses" THEN [rd EXCEPT !.finish = "tool_calls"] ELSE rd
             /\ IF from = "commandcode" THEN Quiet
                ELSE Deliver(CallDelta(IndexOf(said.started + 1), said.started + 1, <<>>))
             /\ UNCHANGED <<from, to, mode, n, noted, told>>

\* A fragment of the arguments, perhaps the last, perhaps damaged.  Anthropic
\* says one block at a time; Command Code repeats the id with every fragment.
SayArgs(c) ==
  /\ Saying /\ n < Events /\ from # "ollama" /\ Growing(c) /\ c \notin rd.over
  /\ from = "anthropic" => said.open = c
  /\ n' = n + 1
  /\ \E last \in BOOLEAN, damaged \in (IF from = "commandcode" THEN BOOLEAN ELSE {FALSE}) :
       LET piece == IF last THEN -n' ELSE n'
           heard == IF damaged THEN <<0>> ELSE <<piece>>
       IN /\ said' = [said EXCEPT !.args[c] = Append(@, piece),
                                  !.hurt = IF damaged THEN @ \cup {c} ELSE @,
                                  !.mixed = @ \/ c < said.started]
          /\ rd' = [rd EXCEPT !.copy[c] = @ \o heard, !.seen = @ \cup {c}]
          /\ Deliver(CallDelta(IndexOf(c), IF from = "commandcode" THEN c ELSE 0, heard))
  /\ UNCHANGED <<from, to, mode, noted, told>>

\* Ollama says a call with its arguments in one piece.
SayCall == /\ Saying /\ from = "ollama" /\ n < Events /\ said.started < Calls
           /\ n' = n + 1
           /\ LET c == said.started + 1
              IN /\ said' = [said EXCEPT !.started = c, !.args[c] = <<-n'>>]
                 /\ rd' = [rd EXCEPT !.copy[c] = <<-n'>>, !.finish = "tool_calls"]
                 /\ Deliver(CallDelta(c - 1, c, <<-n'>>))
           /\ UNCHANGED <<from, to, mode, noted, told>>

\* ParseCommandCodeResponse: whichever copy of the arguments parses
RepairCopy(c, final) == IF c \notin rd.seen \/ (~Valid(rd.copy[c]) /\ Valid(final))
                          THEN final ELSE rd.copy[c]
\* faulty: the closing event is a delta whatever was streamed
CloseRepeats(c, final) == Deliver(CallDelta(IndexOf(c), c, final))
\* the streaming reader passes the closing event on only if nothing was streamed
CloseDelta(c, final) == IF c \in rd.seen THEN Quiet
                        ELSE Deliver(CallDelta(IndexOf(c), c, final))
\* Command Code closes a call with an event that holds all of its arguments;
\* for a call cut off it holds what there is of them.
EndCall(c) ==
  /\ Saying /\ from = "commandcode" /\ c <= said.started /\ c \notin rd.over
  /\ IF c \in rd.seen THEN UNCHANGED <<n, said>>
     ELSE /\ n < Events /\ n' = n + 1
          /\ said' = [said EXCEPT !.args[c] = <<-n'>>, !.mixed = @ \/ c < said.started]
  /\ rd' = [rd EXCEPT !.copy[c] = RepairCopy(c, said'.args[c]), !.over = @ \cup {c}]
  /\ CloseDelta(c, said'.args[c])
  /\ UNCHANGED <<from, to, mode, noted, told>>

\* faulty: a cut reply that holds calls counts as a reply of calls
FinishCalls(why) == IF said.started > 0 THEN "tool_calls" ELSE why
\* the finish the reader keeps for what the upstream gave as its reason
FinishOf(why) ==
  CASE from = "responses" -> IF rd.finish = "tool_calls" \/ why # "length" THEN rd.finish
                             ELSE "length"
    [] from = "ollama" -> IF why = "length" /\ ~(mode = "whole" /\ said.started > 0)
                          THEN "length" ELSE rd.finish
    [] OTHER -> why
\* The upstream gives its reason; nothing but the end follows.  An unfinished
\* call is only left by a reply that was cut at its length.
SayWhy(why) ==
  /\ Saying
  /\ why = "stop" => said.started = 0
  /\ why = "tool_calls" => said.started > 0 /\ \A c \in CallId : ~Growing(c)
  /\ said' = [said EXCEPT !.why = why]
  /\ rd' = [rd EXCEPT !.finish = FinishOf(why), !.usage = @ \cup
              (IF from = "anthropic" THEN {"output"} ELSE {"input", "output"})]
  /\ UNCHANGED <<from, to, mode, n, x, sent, noted, told>>

\* An error event in the stream.  The OpenAI reader has no field for it and
\* passes over it; a whole reply that holds one is refused by every parser.
SayError == /\ Saying
            /\ said' = [said EXCEPT !.failed = TRUE]
            /\ UNCHANGED <<from, to, mode, n, rd, x, sent, noted, told>>
ErrorHeard == said.failed /\ ~(from = "openai" /\ mode = "stream")

\* what the client is told of an error: a status, an error event, or nothing
TellError == IF mode = "whole" \/ to \in {"anthropic", "ollama"} THEN "error" ELSE "nothing"
Broken == /\ told' = TellError
          /\ UNCHANGED <<sent, noted>>

\* The reply as Parse...Response has it: OpenAI and Responses keep the thought,
\* Anthropic and Ollama do not.  Command Code's is put together from its lines.
WholeReply(thought, args) == [text |-> said.text, thought |-> thought,
                              calls |-> 1..said.started, args |-> args]
ParseOpenAI == WholeReply(said.thought, said.args)
ParseResponses == WholeReply(said.thought, said.args)
ParseAnthropic == WholeReply(<<>>, said.args)
ParseOllama == WholeReply(<<>>, said.args)
ParseCommandCode == WholeReply(said.thought, rd.copy)
Reply == CASE from = "openai" -> ParseOpenAI
           [] from = "responses" -> ParseResponses
           [] from = "anthropic" -> ParseAnthropic
           [] from = "ollama" -> ParseOllama
           [] from = "commandcode" -> ParseCommandCode

\* Build...Response.  An OpenAI message with calls has no content; arguments
\* that do not parse become empty where the dialect wants an object.
BuildOpenAIReply(r) == [r EXCEPT !.text = IF r.calls # {} THEN <<>> ELSE @]
Objects(r) == [r EXCEPT !.thought = <<>>, !.args = [c \in CallId |-> Repair(r.args[c])]]
BuildAnthropicReply(r) == Objects(r)
BuildOllamaReply(r) == Objects(r)
Build(r) == CASE to = "openai" -> BuildOpenAIReply(r)
              [] to = "anthropic" -> BuildAnthropicReply(r)
              [] to = "ollama" -> BuildOllamaReply(r)
              [] to = "responses" -> r
Frames(r) == <<Frame("reason", None, 0, r.thought), Frame("text", None, 0, r.text)>>
               \o [c \in r.calls |-> Frame("call", c, c, r.args[c])]

\* The body ends: a reader that saw no reason takes it for "stop".
EndReason == IF rd.finish = "none" THEN "stop" ELSE rd.finish
\* usageFromStreamLine and usageFromBody: the counts at the top of an event.
\* Those of Anthropic's message_start are one level down.
Scanned == IF from = "anthropic" THEN rd.usage \ {"input"} ELSE rd.usage
\* faulty: the counts are those of the last event alone
CountsLast == IF from = "anthropic" THEN rd.usage \ {"input"} ELSE rd.usage
Counts == rd.usage

Close ==
  /\ told = "none"
  /\ CASE mode = "raw" -> told' = "verbatim" /\ noted' = Scanned /\ UNCHANGED sent
       [] mode # "raw" /\ ErrorHeard -> Broken
       \* a whole body that was cut short does not parse, unless it is lines
       [] mode = "whole" /\ ~said.failed /\ said.why = "none" /\ from # "commandcode" -> Broken
       [] mode = "whole" /\ ~said.failed /\ (said.why # "none" \/ from = "commandcode") ->
            /\ sent' = Frames(Build(Reply))
            /\ told' = Tell(EndReason) /\ noted' = Counts
       [] mode = "stream" /\ ~ErrorHeard ->
            /\ sent' = sent \o Finishing
            /\ told' = Tell(EndReason) /\ noted' = Counts
  /\ UNCHANGED <<from, to, mode, n, said, rd, x>>

\* The body returns an error instead of its end; copyRaw does not look.
Cut == /\ told = "none"
       /\ IF mode = "raw" THEN told' = "verbatim" /\ noted' = Scanned /\ UNCHANGED sent
          ELSE Broken
       /\ UNCHANGED <<from, to, mode, n, said, rd, x>>

Next == \/ SayText \/ SayThought \/ StartCall \/ SayCall
        \/ \E c \in CallId : SayArgs(c) \/ EndCall(c)
        \/ \E why \in Reasons : SayWhy(why)
        \/ SayError \/ Close \/ Cut

Spec == Init /\ [][Next]_vars

-------------------------------------------------------------------------------
Success == told \in Reasons \cup {"completed"}
Heard(kind) ==
  FlattenSeq([i \in DOMAIN sent |-> IF sent[i].kind = kind THEN sent[i].piece ELSE <<>>])
\* fragments of call c: those at a place that was opened with its id
IsCall(c, at) == \E g \in Range(sent) : g.kind # "done" /\ g.at = at /\ g.id = c
HeardArgs(c) ==
  FlattenSeq([i \in DOMAIN sent |-> IF sent[i].kind = "call" /\ IsCall(c, sent[i].at)
                                      THEN sent[i].piece ELSE <<>>])

\* A client that is told its reply ended has every piece of text in the order
\* it was said, and of every call the arguments, none twice, none lost, none
\* mixed with another call's, however the upstream interleaved them and
\* whichever of its two copies Command Code's stream had damaged.  A cut call
\* comes as far as it was said, or empty where the dialect wants an object.
\* Only OpenAI's whole reply leaves the text of a reply with calls out.
Faithful ==
  Success =>
    /\ Heard("text") = said.text \/ (mode = "whole" /\ to = "openai" /\ said.started > 0)
    /\ \A c \in 1..said.started :
         IF Valid(said.args[c]) /\ (c \notin said.hurt \/ (mode = "whole" /\ c \in rd.over))
           THEN HeardArgs(c) = said.args[c]
           ELSE c \notin said.hurt =>
                  HeardArgs(c) \in {said.args[c]} \cup
                    (IF to = "ollama" \/ (to = "anthropic" /\ mode = "whole") THEN {<<>>} ELSE {})

\* An Anthropic client sees blocks numbered from 0, each opened after the one
\* before it was closed, pieces only inside their block, and at the end none
\* open: closeBlock, emitText, emitThinking and the held text together.  A call
\* is one tool_use block, unless the upstream itself went back to an earlier
\* call: text that comes between its fragments waits.
Count(kind, i) == Cardinality({j \in 1..i : sent[j].kind = kind})
BlocksNest ==
  to = "anthropic" /\ mode = "stream" =>
    /\ \A i \in DOMAIN sent :
         LET opened == Count("start", i - 1)
             shut == Count("stop", i - 1)
         IN IF sent[i].kind = "start" THEN sent[i].at = opened /\ shut = opened
            ELSE sent[i].at = opened - 1 /\ shut = opened - 1
    /\ Success => Count("start", Len(sent)) = Count("stop", Len(sent))
    /\ ~said.mixed =>
         \A c \in CallId : \A i, j \in DOMAIN sent :
            sent[i].kind = "start" /\ sent[i].id = c /\ sent[j].kind = "start" /\ sent[j].id = c => i = j

\* A reply cut at its length is never told to the client as a finished one,
\* but by the dialect that has no word for it here and where calls hide it.
CutShown == Success /\ said.why = "length" =>
              \/ told = "length"
              \/ to = "responses"
              \/ said.started > 0 /\ (from = "responses" \/ (from = "ollama" /\ mode = "whole"))

\* When the upstream gave its reason and the reply got through, the trace has
\* both of its token counts, wherever in the stream the dialect puts them: but
\* for an Anthropic stream passed on raw, of which the comment at
\* usageFromStreamLine (internal/proxy/proxy.go) says it too.
UsageNoted ==
  (Success \/ (told = "verbatim" /\ from # "anthropic")) /\ said.why # "none" =>
    noted = {"input", "output"}

\* The Responses writer's comment: the id and the name open the function_call
\* item once, on the first delta that carries them.
ItemAddedOnce ==
  to = "responses" =>
    \A c \in CallId : Len(SelectSeq(sent, LAMBDA g : g.kind = "added" /\ g.id = c)) <= 1
===============================================================================
