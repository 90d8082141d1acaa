----------------------------- MODULE StreamRelay -----------------------------
(***************************************************************************)
(* The translated streaming path of handleCore (internal/proxy/proxy.go)   *)
(* with the stream readers and writers of internal/wire: a reader          *)
(* goroutine parses the upstream body into deltas, a relay goroutine notes *)
(* the usage and passes them on, the handler writes them to the client.    *)
(* Two bounded channels lie between them.  When the handler stops early a  *)
(* fourth goroutine empties the second channel so that the others can end. *)
(***************************************************************************)
EXTENDS Naturals, Sequences

CONSTANTS Items,     \* bound on the deltas the upstream body holds
          Capacity,  \* of each channel (the code: 16)
          Alert      \* is there a failover banner to put first

ASSUME StreamAssumption == Items \in Nat /\ Capacity \in Nat \ {0} /\ Alert \in BOOLEAN

VARIABLES read,      \* deltas the reader has parsed
          deltas,    \* first channel
          capture,   \* second channel
          closed,    \* which of the two is closed
          reader, relay, handler, drain,  \* positions
          parsed, passing,                \* what the reader and the relay hold
          broken,    \* werr of the writer: a write has failed
          usage,     \* the relay has noted the usage
          gone,      \* the client has left and the request's context is cancelled
          out, sealed   \* what reached the client

vars == <<read, deltas, capture, closed, reader, relay, handler, drain, parsed, passing,
          broken, usage, gone, out, sealed>>

\* deltas: the banner, the items by number, the two ends of a stream
Banner == 0
Finish == Items + 1
Error == Items + 2
Nothing == Items + 3
Ends == {Finish, Error}
Delta == 0..Error

Init == /\ read = 0 /\ deltas = <<>> /\ capture = <<>> /\ closed = {}
        /\ reader = "read" /\ handler = "write" /\ drain = "off"
        /\ relay = IF Alert THEN "send" ELSE "receive"
        /\ parsed = Nothing
        /\ passing = IF Alert THEN Banner ELSE Nothing
        /\ broken = FALSE /\ usage = FALSE /\ gone = FALSE
        /\ out = <<>> /\ sealed = FALSE

-------------------------------------------------------------------------------
\* the body can be read while the handler runs and the client is there
BodyOpen == ~gone /\ handler = "write"

\* ReadOpenAIStream and its siblings: one delta more, the end, or an error that
\* the upstream sent or the body returned.  End of file is taken for a finish.
Parse == /\ reader = "read"
         /\ \/ BodyOpen /\ read < Items /\ parsed' = read + 1 /\ read' = read + 1
            \/ BodyOpen /\ parsed' = Finish /\ UNCHANGED read
            \/ parsed' = Error /\ UNCHANGED read
         /\ reader' = "send"
         /\ UNCHANGED <<deltas, capture, closed, relay, handler, drain, passing, broken, usage,
                        gone, out, sealed>>

ReaderSend == /\ reader = "send" /\ Len(deltas) < Capacity
              /\ deltas' = Append(deltas, parsed)
              /\ parsed' = Nothing
              /\ IF parsed \in Ends
                   THEN reader' = "ended" /\ closed' = closed \cup {"deltas"}
                   ELSE reader' = "read" /\ UNCHANGED closed
              /\ UNCHANGED <<read, capture, relay, handler, drain, passing, broken, usage, gone,
                             out, sealed>>

-------------------------------------------------------------------------------
\* the goroutine between the channels
Receive == /\ relay = "receive" /\ deltas # <<>>
           /\ passing' = Head(deltas)
           /\ deltas' = Tail(deltas)
           /\ usage' = (usage \/ passing' = Finish)
           /\ relay' = "send"
           /\ UNCHANGED <<read, capture, closed, reader, handler, drain, parsed, broken, gone,
                          out, sealed>>

\* faulty: the value in hand goes to the front of the channel
PassFirst(ch, d) == IF Len(ch) > 0 THEN <<Head(ch), d>> \o Tail(ch) ELSE <<d>>
Pass(ch, d) == Append(ch, d)

RelaySend == /\ relay = "send" /\ Len(capture) < Capacity
             /\ capture' = Pass(capture, passing)
             /\ passing' = Nothing
             /\ relay' = "receive"
             /\ UNCHANGED <<read, deltas, closed, reader, handler, drain, parsed, broken, usage,
                            gone, out, sealed>>

RelayEnd == /\ relay = "receive" /\ deltas = <<>> /\ "deltas" \in closed
            /\ relay' = "ended"
            /\ closed' = closed \cup {"capture"}
            /\ UNCHANGED <<read, deltas, capture, reader, handler, drain, parsed, passing,
                           broken, usage, gone, out, sealed>>

-------------------------------------------------------------------------------
\* The handler in writeStream: a failed write is noticed at the next delta.
Take == capture # <<>> /\ capture' = Tail(capture)

Write == /\ handler = "write" /\ ~broken /\ Take /\ Head(capture) # Error
         /\ \/ /\ ~gone
               /\ out' = IF Head(capture) = Finish THEN out ELSE Append(out, Head(capture))
               /\ sealed' = (Head(capture) = Finish)
               /\ UNCHANGED broken
            \/ gone /\ broken' = TRUE /\ UNCHANGED <<out, sealed>>
         /\ UNCHANGED <<read, deltas, closed, reader, relay, handler, drain, parsed, passing,
                        usage, gone>>

\* faulty: the early return leaves the channels to themselves
StopUndrained == /\ handler = "write" /\ Take /\ (broken \/ Head(capture) = Error)
                 /\ handler' = "aborted"
                 /\ UNCHANGED <<read, deltas, closed, reader, relay, drain, parsed, passing,
                                broken, usage, gone, out, sealed>>
\* The stream stops early: the drain starts, the body is closed.
Stop == /\ handler = "write" /\ Take /\ (broken \/ Head(capture) = Error)
        /\ handler' = "aborted"
        /\ drain' = "run"
        /\ UNCHANGED <<read, deltas, closed, reader, relay, parsed, passing, broken, usage,
                       gone, out, sealed>>

\* faulty: the loop ends when the channel is empty
EndAtEmpty == /\ handler = "write" /\ capture = <<>> /\ read > 0
              /\ handler' = "complete"
              /\ UNCHANGED <<read, deltas, capture, closed, reader, relay, drain, parsed,
                             passing, broken, usage, gone, out, sealed>>
\* the channel is closed and empty: the trace takes the usage
End == /\ handler = "write" /\ capture = <<>> /\ "capture" \in closed
       /\ handler' = "complete"
       /\ UNCHANGED <<read, deltas, capture, closed, reader, relay, drain, parsed, passing,
                      broken, usage, gone, out, sealed>>

Drain == /\ drain = "run"
         /\ \/ Take /\ UNCHANGED drain
            \/ /\ capture = <<>> /\ "capture" \in closed
               /\ drain' = "ended" /\ UNCHANGED capture
         /\ UNCHANGED <<read, deltas, closed, reader, relay, handler, parsed, passing, broken,
                        usage, gone, out, sealed>>

ClientLeaves == /\ ~gone /\ handler = "write"
                /\ gone' = TRUE
                /\ UNCHANGED <<read, deltas, capture, closed, reader, relay, handler, drain,
                               parsed, passing, broken, usage, out, sealed>>

Reader == Parse \/ ReaderSend
Relay == Receive \/ RelaySend \/ RelayEnd
Handler == Write \/ Stop \/ End

Next == Reader \/ Relay \/ Handler \/ Drain \/ ClientLeaves

Spec == Init /\ [][Next]_vars

\* Goroutines are scheduled, and a write to the client succeeds or fails.  The
\* upstream may stall for ever, there is no deadline by default; but a read of a
\* body that is closed, or whose request is cancelled, returns.
FairSpec == /\ Spec
            /\ WF_vars(ReaderSend) /\ WF_vars(Parse /\ ~BodyOpen)
            /\ WF_vars(Relay) /\ WF_vars(Handler) /\ WF_vars(Drain)

-------------------------------------------------------------------------------
\* Every variable has its type, no channel holds more than its capacity, and
\* nothing is sent on a closed channel, which would panic.
TypeOK == /\ read \in 0..Items
          /\ {deltas, capture} \subseteq Seq(Delta)
          /\ Len(deltas) <= Capacity /\ Len(capture) <= Capacity
          /\ closed \subseteq {"deltas", "capture"}
          /\ reader \in {"read", "send", "ended"} /\ relay \in {"receive", "send", "ended"}
          /\ handler \in {"write", "aborted", "complete"} /\ drain \in {"off", "run", "ended"}
          /\ {parsed, passing} \subseteq 0..Nothing
          /\ {broken, usage, gone, sealed} \subseteq BOOLEAN
          /\ out \in Seq(Delta)
          /\ "deltas" \in closed => reader = "ended"
          /\ "capture" \in closed => relay = "ended"

\* The handler reads the usage the relay goroutine writes, without a lock: it
\* may only do so when the relay has ended, and then it is there if the upstream
\* finished.
UsageSettled == handler = "complete" =>
    /\ relay = "ended" /\ reader = "ended"
    /\ usage \/ ~sealed

\* proxy.go:1105: the drain lets the reader and the relay exit.  Once the client
\* leaves, the reply stops or the upstream's stream is over, every goroutine ends
\* and both channels are empty.
NoneLeft ==
    (gone \/ handler # "write" \/ reader = "ended")
        ~> (/\ reader = "ended" /\ relay = "ended" /\ handler # "write"
            /\ drain \in {"off", "ended"} /\ deltas = <<>> /\ capture = <<>>)

Frames == (IF Alert THEN <<Banner>> ELSE <<>>) \o [i \in 1..Items |-> i]

Contract == INSTANCE StreamContract
              WITH finished <- sealed,
                   outcome <- IF handler = "write" THEN "open" ELSE handler

\* The pipeline delivers what StreamContract promises the client: the banner and
\* the upstream's deltas in order, each once, and no reply that passes for
\* complete without its finish frame.
ContractSpec == Contract!Spec
===============================================================================
