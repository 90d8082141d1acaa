-------------------------- MODULE StreamRelay_proofs --------------------------
(***************************************************************************)
(* Proofs about StreamRelay, for any number of items and any capacity:     *)
(* type correctness, the usage that is settled when the handler reads it,  *)
(* and that the pipeline implements StreamContract.                        *)
(***************************************************************************)
EXTENDS StreamRelay, SequenceTheorems, TLAPS

\* Who holds a delta says so, and a channel is closed by the one that ended.
Hands ==
    /\ reader = "send" <=> parsed # Nothing
    /\ relay = "send" <=> passing # Nothing
    /\ reader = "ended" <=> "deltas" \in closed
    /\ relay = "ended" <=> "capture" \in closed
    /\ relay = "ended" => reader = "ended" /\ deltas = <<>>
    /\ broken => gone
    /\ drain # "off" => handler # "write"
    /\ handler = "complete" => relay = "ended"

\* The end of a stream is the last delta wherever it is: nothing is behind it.
EndOfDeltas == \A i \in 1..Len(deltas) : deltas[i] \in Ends => i = Len(deltas) /\ reader = "ended"
EndInHand == passing \in Ends => deltas = <<>> /\ reader = "ended"
EndOfCapture == \A k \in 1..Len(capture) : capture[k] \in Ends =>
                   k = Len(capture) /\ relay # "send" /\ deltas = <<>> /\ reader = "ended"
EndWritten == sealed => capture = <<>> /\ relay # "send" /\ deltas = <<>> /\ reader = "ended"
EndIsLast == EndOfDeltas /\ EndInHand /\ EndOfCapture /\ EndWritten

\* Once the reader has ended, its end is on its way or was taken: written to
\* the client, written to nobody, or the stop of the handler.
EndSomewhere ==
    reader = "ended" =>
        \/ deltas # <<>> /\ deltas[Len(deltas)] \in Ends
        \/ passing \in Ends
        \/ capture # <<>> /\ capture[Len(capture)] \in Ends
        \/ sealed \/ broken \/ handler # "write"

\* The usage is noted before the finish is passed on.
UsageFirst ==
    \/ usage
    \/ passing # Finish /\ ~sealed /\ \A k \in 1..Len(capture) : capture[k] # Finish

\* Frame i of the contract is the delta i - Lead.
Lead == IF Alert THEN 1 ELSE 0

\* Frames that were written or lie before the relay's hands; before the first
\* channel; before the reader's hands.
Passed == Len(out) + Len(capture)
Taken == Passed + IF relay = "send" THEN 1 ELSE 0
Sent == Taken + Len(deltas)

\* While the handler writes and no write has failed, what is on its way
\* continues what was written without a gap.
Flowing == handler = "write" /\ ~broken /\ ~sealed
CaptureInOrder == \A k \in 1..Len(capture) : capture[k] \notin Ends => capture[k] = Len(out) + k - Lead
HandInOrder == relay = "send" /\ passing \notin Ends => passing = Passed + 1 - Lead
DeltasInOrder == \A i \in 1..Len(deltas) : deltas[i] \notin Ends => deltas[i] = Taken + i - Lead
ReadInOrder == /\ reader = "read" => read = Sent - Lead
               /\ reader = "send" /\ parsed \notin Ends => parsed = Sent + 1 - Lead /\ read = parsed
InOrder == Flowing => CaptureInOrder /\ HandInOrder /\ DeltasInOrder /\ ReadInOrder

\* The types, one by one.
Channels == /\ deltas \in Seq(Delta) /\ capture \in Seq(Delta) /\ out \in Seq(Delta)
            /\ Len(deltas) <= Capacity /\ Len(capture) <= Capacity
Closed == closed \subseteq {"deltas", "capture"}
Positions == /\ reader \in {"read", "send", "ended"} /\ relay \in {"receive", "send", "ended"}
             /\ handler \in {"write", "aborted", "complete"} /\ drain \in {"off", "run", "ended"}
Held == read \in 0..Items /\ parsed \in 0..Nothing /\ passing \in 0..Nothing
Flags == broken \in BOOLEAN /\ usage \in BOOLEAN /\ gone \in BOOLEAN /\ sealed \in BOOLEAN
Typed == Channels /\ Closed /\ Positions /\ Held /\ Flags

RelayInv == Typed /\ Hands /\ EndIsLast /\ EndSomewhere /\ UsageFirst /\ InOrder

\* The numbers of the deltas.
LEMMA DeltaFacts ==
  /\ Items \in Nat /\ Capacity \in Nat /\ Capacity >= 1 /\ Lead \in {0, 1}
  /\ Banner = 0 /\ Finish = Items + 1 /\ Error = Items + 2 /\ Nothing = Items + 3
  /\ Ends = {Finish, Error} /\ Delta = 0..Error
  BY StreamAssumption DEF Lead, Banner, Finish, Error, Nothing, Ends, Delta

\* The frames of the contract are the deltas before the end, in order.
LEMMA FrameFacts ==
  /\ Len(Frames) = Items + Lead
  /\ \A i \in 1..(Items + Lead) : Frames[i] = i - Lead
<1>1. CASE Alert
  BY <1>1, StreamAssumption DEF Frames, Lead, Banner
<1>2. CASE ~Alert
  BY <1>2, StreamAssumption DEF Frames, Lead, Banner
<1>. QED
  BY <1>1, <1>2

\* What a channel is after a send.
LEMMA AppendFacts ==
  ASSUME NEW s \in Seq(Delta), NEW d \in Delta
  PROVE  /\ Append(s, d) \in Seq(Delta) /\ Len(Append(s, d)) = Len(s) + 1 /\ Len(s) \in Nat
         /\ \A i \in 1..Len(s) : Append(s, d)[i] = s[i]
         /\ Append(s, d)[Len(s) + 1] = d /\ Append(s, d) # <<>>
  OBVIOUS

\* What it is after a receive.
LEMMA TailFacts ==
  ASSUME NEW s \in Seq(Delta), s # <<>>
  PROVE  /\ Tail(s) \in Seq(Delta) /\ Len(Tail(s)) = Len(s) - 1 /\ Len(s) \in Nat \ {0}
         /\ \A i \in 1..(Len(s) - 1) : Tail(s)[i] = s[i + 1]
         /\ Head(s) = s[1] /\ Head(s) \in Delta /\ (Tail(s) = <<>> <=> Len(s) = 1)
<1>1. Tail(s) \in Seq(Delta) /\ Len(Tail(s)) = Len(s) - 1 /\ Len(s) \in Nat \ {0}
  BY EmptySeq
<1>2. \A i \in 1..(Len(s) - 1) : Tail(s)[i] = s[i + 1]
  BY <1>1
<1>3. Head(s) = s[1] /\ Head(s) \in Delta
  BY <1>1
<1>4. Tail(s) = <<>> <=> Len(s) = 1
  BY <1>1, EmptySeq
<1>. QED
  BY <1>1, <1>2, <1>3, <1>4

\* The counts are natural numbers.
LEMMA CountFacts ==
  ASSUME Channels
  PROVE  /\ Len(deltas) \in Nat /\ Len(capture) \in Nat /\ Len(out) \in Nat
         /\ Passed \in Nat /\ Taken \in Nat /\ Sent \in Nat
         /\ (deltas = <<>> <=> Len(deltas) = 0) /\ (capture = <<>> <=> Len(capture) = 0)
<1>1. Len(deltas) \in Nat /\ Len(capture) \in Nat /\ Len(out) \in Nat
  BY DEF Channels
<1>2. (deltas = <<>> <=> Len(deltas) = 0) /\ (capture = <<>> <=> Len(capture) = 0)
  BY EmptySeq DEF Channels
<1>. QED
  BY <1>1, <1>2 DEF Passed, Taken, Sent

\* It holds at the start.
LEMMA RelayInit == Init => RelayInv
<1>. SUFFICES ASSUME Init PROVE RelayInv
  OBVIOUS
<1>. USE DeltaFacts DEF Init
<1>1. Typed
  <2>1. <<>> \in Seq(Delta) /\ Len(<<>>) = 0
    BY EmptySeq
  <2>2. 0 \in 0..Items /\ Nothing \in 0..Nothing /\ 0 \in 0..Nothing /\ 0 <= Capacity
    OBVIOUS
  <2>. QED
    BY <2>1, <2>2 DEF Typed, Channels, Closed, Positions, Held, Flags
<1>2. Hands /\ EndIsLast /\ EndSomewhere /\ UsageFirst
  BY StreamAssumption DEF Hands, EndIsLast, EndOfDeltas, EndInHand, EndOfCapture, EndWritten,
                          EndSomewhere, UsageFirst
<1>3. InOrder
  BY StreamAssumption DEF InOrder, Flowing, CaptureInOrder, HandInOrder, DeltasInOrder,
                          ReadInOrder, Passed, Taken, Sent, Lead
<1>. QED
  BY <1>1, <1>2, <1>3 DEF RelayInv

\* The reader parses a delta.
LEMMA ParseStep == RelayInv /\ Parse => RelayInv'
<1>. SUFFICES ASSUME RelayInv, Parse PROVE RelayInv'
  OBVIOUS
<1>1. /\ Channels /\ Closed /\ Positions /\ Held /\ Flags /\ Hands
      /\ EndOfDeltas /\ EndInHand /\ EndOfCapture /\ EndWritten /\ EndSomewhere /\ UsageFirst /\ InOrder
  BY DEF RelayInv, Typed, EndIsLast
<1>2. /\ Len(deltas) \in Nat /\ Len(capture) \in Nat /\ Len(out) \in Nat
      /\ Passed \in Nat /\ Taken \in Nat /\ Sent \in Nat
      /\ (deltas = <<>> <=> Len(deltas) = 0) /\ (capture = <<>> <=> Len(capture) = 0)
  BY <1>1, CountFacts
<1>3. reader = "read" /\ reader' = "send" /\ parsed = Nothing
  BY <1>1 DEF Parse, Hands
<1>4. \/ parsed' = read + 1 /\ read' = read + 1 /\ read < Items
      \/ parsed' \in Ends /\ read' = read
  BY DeltaFacts DEF Parse
<1>5. UNCHANGED <<deltas, capture, closed, relay, handler, drain, passing, broken, usage, gone,
                  out, sealed>>
  BY DEF Parse
<1>6. Passed' = Passed /\ Taken' = Taken /\ Sent' = Sent
  BY <1>5 DEF Passed, Taken, Sent
<1>7. Typed'
  <2>1. Channels'
    BY <1>1, <1>2, <1>3, <1>4, <1>5, DeltaFacts DEF Channels
  <2>2. Closed'
    BY <1>1, <1>2, <1>3, <1>4, <1>5, DeltaFacts DEF Closed
  <2>3. Positions'
    BY <1>1, <1>2, <1>3, <1>4, <1>5, DeltaFacts DEF Positions
  <2>4. Held'
    BY <1>1, <1>2, <1>3, <1>4, <1>5, DeltaFacts DEF Held
  <2>5. Flags'
    BY <1>1, <1>2, <1>3, <1>4, <1>5, DeltaFacts DEF Flags
  <2>. QED
    BY <2>1, <2>2, <2>3, <2>4, <2>5 DEF Typed
<1>8. Hands'
  BY <1>1, <1>2, <1>3, <1>4, <1>5, DeltaFacts DEF Hands, Held
<1>9. EndIsLast'
  <2>1. EndOfDeltas'
    BY <1>1, <1>2, <1>3, <1>4, <1>5, DeltaFacts DEF EndOfDeltas, Hands
  <2>2. EndInHand'
    BY <1>1, <1>2, <1>3, <1>4, <1>5, DeltaFacts DEF EndInHand, Hands
  <2>3. EndOfCapture'
    BY <1>1, <1>2, <1>3, <1>4, <1>5, DeltaFacts DEF EndOfCapture, Hands
  <2>4. EndWritten'
    BY <1>1, <1>2, <1>3, <1>4, <1>5, DeltaFacts DEF EndWritten, Hands
  <2>. QED
    BY <2>1, <2>2, <2>3, <2>4 DEF EndIsLast
<1>10. EndSomewhere'
  BY <1>1, <1>2, <1>3, <1>4, <1>5, DeltaFacts DEF EndSomewhere
<1>11. UsageFirst'
  BY <1>1, <1>2, <1>3, <1>4, <1>5, DeltaFacts DEF UsageFirst
<1>12. InOrder'
  <2>. SUFFICES ASSUME Flowing' PROVE CaptureInOrder' /\ HandInOrder' /\ DeltasInOrder' /\ ReadInOrder'
    BY DEF InOrder
  <2>1. CaptureInOrder /\ HandInOrder /\ DeltasInOrder /\ ReadInOrder
    BY <1>1, <1>3, <1>4, <1>5 DEF InOrder, Flowing
  <2>2. CaptureInOrder'
    BY <1>1, <1>2, <1>3, <1>4, <1>5, <2>1, <1>6, DeltaFacts DEF CaptureInOrder
  <2>3. HandInOrder'
    BY <1>1, <1>2, <1>3, <1>4, <1>5, <2>1, <1>6, DeltaFacts DEF HandInOrder
  <2>4. DeltasInOrder'
    BY <1>1, <1>2, <1>3, <1>4, <1>5, <2>1, <1>6, DeltaFacts DEF DeltasInOrder
  <2>5. ReadInOrder'
    BY <1>1, <1>2, <1>3, <1>4, <1>5, <2>1, <1>6, DeltaFacts DEF ReadInOrder
  <2>. QED
    BY <2>2, <2>3, <2>4, <2>5
<1>. QED
  BY <1>7, <1>8, <1>9, <1>10, <1>11, <1>12 DEF RelayInv

\* It hands one on, the last one closing the channel.
LEMMA ReaderSendStep == RelayInv /\ ReaderSend => RelayInv'
<1>. SUFFICES ASSUME RelayInv, ReaderSend PROVE RelayInv'
  OBVIOUS
<1>1. /\ Channels /\ Closed /\ Positions /\ Held /\ Flags /\ Hands
      /\ EndOfDeltas /\ EndInHand /\ EndOfCapture /\ EndWritten /\ EndSomewhere /\ UsageFirst /\ InOrder
  BY DEF RelayInv, Typed, EndIsLast
<1>2. /\ Len(deltas) \in Nat /\ Len(capture) \in Nat /\ Len(out) \in Nat
      /\ Passed \in Nat /\ Taken \in Nat /\ Sent \in Nat
      /\ (deltas = <<>> <=> Len(deltas) = 0) /\ (capture = <<>> <=> Len(capture) = 0)
  BY <1>1, CountFacts
<1>3. parsed \in Delta /\ deltas \in Seq(Delta) /\ reader = "send" /\ relay # "ended"
  BY <1>1, DeltaFacts DEF ReaderSend, Channels, Held, Hands
<1>4. /\ deltas' \in Seq(Delta) /\ Len(deltas') = Len(deltas) + 1
      /\ deltas'[Len(deltas) + 1] = parsed /\ deltas' # <<>>
  BY <1>3, AppendFacts DEF ReaderSend
<1>5. \A i \in 1..Len(deltas) : deltas'[i] = deltas[i]
  BY <1>3, AppendFacts DEF ReaderSend
<1>6. \/ parsed \in Ends /\ reader' = "ended" /\ closed' = closed \cup {"deltas"}
      \/ parsed \notin Ends /\ reader' = "read" /\ closed' = closed
  BY DEF ReaderSend
<1>7. Len(deltas) < Capacity /\ parsed' = Nothing
      /\ UNCHANGED <<read, capture, relay, handler, drain, passing, broken, usage, gone, out,
                     sealed>>
  BY DEF ReaderSend
<1>8. Passed' = Passed /\ Taken' = Taken /\ Sent' = Sent + 1
  BY <1>2, <1>4, <1>7 DEF Passed, Taken, Sent
<1>9. Typed'
  <2>1. Channels'
    BY <1>1, <1>2, <1>3, <1>4, <1>5, <1>6, <1>7, DeltaFacts DEF Channels
  <2>2. Closed'
    BY <1>1, <1>2, <1>3, <1>4, <1>5, <1>6, <1>7, DeltaFacts DEF Closed
  <2>3. Positions'
    BY <1>1, <1>2, <1>3, <1>4, <1>5, <1>6, <1>7, DeltaFacts DEF Positions
  <2>4. Held'
    BY <1>1, <1>2, <1>3, <1>4, <1>5, <1>6, <1>7, DeltaFacts DEF Held
  <2>5. Flags'
    BY <1>1, <1>2, <1>3, <1>4, <1>5, <1>6, <1>7, DeltaFacts DEF Flags
  <2>. QED
    BY <2>1, <2>2, <2>3, <2>4, <2>5 DEF Typed
<1>10. Hands'
  BY <1>1, <1>2, <1>3, <1>4, <1>5, <1>6, <1>7, DeltaFacts DEF Hands
<1>11. EndIsLast'
  <2>1. EndOfDeltas'
    <3>. SUFFICES ASSUME NEW i \in 1..Len(deltas'), deltas'[i] \in Ends
                  PROVE  i = Len(deltas') /\ reader' = "ended"
      BY DEF EndOfDeltas
    <3>1. CASE i = Len(deltas) + 1
      BY <1>1, <1>2, <1>3, <1>4, <1>6, <1>7, <3>1 DEF EndOfDeltas, Hands
    <3>2. CASE i \in 1..Len(deltas)
      <4>1. deltas'[i] = deltas[i]
        BY <1>5, <3>2
      <4>. QED
        BY <1>1, <1>2, <1>3, <1>4, <1>6, <1>7, <3>2, <4>1 DEF EndOfDeltas, Hands
    <3>. QED
      BY <1>2, <1>4, <3>1, <3>2
  <2>2. EndInHand'
    BY <1>1, <1>2, <1>3, <1>4, <1>5, <1>6, <1>7, DeltaFacts DEF EndInHand, Hands
  <2>3. EndOfCapture'
    BY <1>1, <1>2, <1>3, <1>4, <1>5, <1>6, <1>7, DeltaFacts DEF EndOfCapture, Hands
  <2>4. EndWritten'
    BY <1>1, <1>2, <1>3, <1>4, <1>5, <1>6, <1>7, DeltaFacts DEF EndWritten, Hands
  <2>. QED
    BY <2>1, <2>2, <2>3, <2>4 DEF EndIsLast
<1>12. EndSomewhere'
  BY <1>1, <1>2, <1>3, <1>4, <1>5, <1>6, <1>7, DeltaFacts DEF EndSomewhere
<1>13. UsageFirst'
  BY <1>1, <1>2, <1>3, <1>4, <1>5, <1>6, <1>7, DeltaFacts DEF UsageFirst
<1>14. InOrder'
  <2>. SUFFICES ASSUME Flowing' PROVE CaptureInOrder' /\ HandInOrder' /\ DeltasInOrder' /\ ReadInOrder'
    BY DEF InOrder
  <2>1. CaptureInOrder /\ HandInOrder /\ DeltasInOrder /\ ReadInOrder
    BY <1>1, <1>3, <1>4, <1>5, <1>6, <1>7 DEF InOrder, Flowing
  <2>2. CaptureInOrder'
    BY <1>1, <1>2, <1>3, <1>4, <1>5, <1>6, <1>7, <2>1, <1>8, DeltaFacts DEF CaptureInOrder
  <2>3. HandInOrder'
    BY <1>1, <1>2, <1>3, <1>4, <1>5, <1>6, <1>7, <2>1, <1>8, DeltaFacts DEF HandInOrder
  <2>4. DeltasInOrder'
    <3>. SUFFICES ASSUME NEW i \in 1..Len(deltas'), deltas'[i] \notin Ends
                  PROVE  deltas'[i] = Taken' + i - Lead
      BY DEF DeltasInOrder
    <3>1. CASE i = Len(deltas) + 1
      BY <1>1, <1>2, <1>3, <1>4, <1>6, <1>7, <3>1, <1>8, <2>1, DeltaFacts DEF DeltasInOrder,
         ReadInOrder, Sent
    <3>2. CASE i \in 1..Len(deltas)
      <4>1. deltas'[i] = deltas[i]
        BY <1>5, <3>2
      <4>. QED
        BY <1>1, <1>2, <1>3, <1>4, <1>6, <1>7, <3>2, <4>1, <1>8, <2>1, DeltaFacts
           DEF DeltasInOrder, ReadInOrder, Sent
    <3>. QED
      BY <1>2, <1>4, <3>1, <3>2
  <2>5. ReadInOrder'
    BY <1>1, <1>2, <1>3, <1>4, <1>5, <1>6, <1>7, <2>1, <1>8, DeltaFacts DEF ReadInOrder
  <2>. QED
    BY <2>2, <2>3, <2>4, <2>5
<1>. QED
  BY <1>9, <1>10, <1>11, <1>12, <1>13, <1>14 DEF RelayInv

\* The relay takes one and notes the usage.
LEMMA ReceiveStep == RelayInv /\ Receive => RelayInv'
<1>. SUFFICES ASSUME RelayInv, Receive PROVE RelayInv'
  OBVIOUS
<1>1. /\ Channels /\ Closed /\ Positions /\ Held /\ Flags /\ Hands
      /\ EndOfDeltas /\ EndInHand /\ EndOfCapture /\ EndWritten /\ EndSomewhere /\ UsageFirst /\ InOrder
  BY DEF RelayInv, Typed, EndIsLast
<1>2. /\ Len(deltas) \in Nat /\ Len(capture) \in Nat /\ Len(out) \in Nat
      /\ Passed \in Nat /\ Taken \in Nat /\ Sent \in Nat
      /\ (deltas = <<>> <=> Len(deltas) = 0) /\ (capture = <<>> <=> Len(capture) = 0)
  BY <1>1, CountFacts
<1>3. deltas # <<>> /\ deltas \in Seq(Delta) /\ relay = "receive" /\ passing = Nothing
  BY <1>1 DEF Receive, Channels, Hands
<1>4. /\ deltas' \in Seq(Delta) /\ Len(deltas') = Len(deltas) - 1
      /\ passing' = deltas[1] /\ passing' \in Delta /\ (deltas' = <<>> <=> Len(deltas) = 1)
  BY <1>3, TailFacts DEF Receive
<1>5. \A i \in 1..(Len(deltas) - 1) : deltas'[i] = deltas[i + 1]
  BY <1>3, TailFacts DEF Receive
<1>6. /\ usage' = (usage \/ passing' = Finish) /\ relay' = "send"
      /\ UNCHANGED <<read, capture, closed, reader, handler, drain, parsed, broken, gone, out,
                     sealed>>
  BY DEF Receive
<1>7. Passed' = Passed /\ Taken' = Taken + 1 /\ Sent' = Sent
  BY <1>2, <1>3, <1>4, <1>6 DEF Passed, Taken, Sent
<1>8. Typed'
  <2>1. Channels'
    BY <1>1, <1>2, <1>3, <1>4, <1>5, <1>6, DeltaFacts DEF Channels
  <2>2. Closed'
    BY <1>1, <1>2, <1>3, <1>4, <1>5, <1>6, DeltaFacts DEF Closed
  <2>3. Positions'
    BY <1>1, <1>2, <1>3, <1>4, <1>5, <1>6, DeltaFacts DEF Positions
  <2>4. Held'
    BY <1>1, <1>2, <1>3, <1>4, <1>5, <1>6, DeltaFacts DEF Held
  <2>5. Flags'
    BY <1>1, <1>2, <1>3, <1>4, <1>5, <1>6, DeltaFacts DEF Flags
  <2>. QED
    BY <2>1, <2>2, <2>3, <2>4, <2>5 DEF Typed
<1>9. Hands'
  BY <1>1, <1>2, <1>3, <1>4, <1>5, <1>6, DeltaFacts DEF Hands
<1>10. EndIsLast'
  <2>1. EndOfDeltas'
    <3>. SUFFICES ASSUME NEW i \in 1..Len(deltas'), deltas'[i] \in Ends
                  PROVE  i = Len(deltas') /\ reader' = "ended"
      BY DEF EndOfDeltas
    <3>1. i \in 1..(Len(deltas) - 1) /\ i + 1 \in 1..Len(deltas)
      BY <1>2, <1>4
    <3>2. deltas'[i] = deltas[i + 1]
      BY <1>5, <3>1
    <3>3. deltas[i + 1] \in Ends => i + 1 = Len(deltas) /\ reader = "ended"
      BY <1>1, <3>1 DEF EndOfDeltas
    <3>. QED
      BY <1>1, <1>2, <1>4, <1>6, <3>1, <3>2, <3>3
  <2>2. EndInHand'
    BY <1>1, <1>2, <1>3, <1>4, <1>5, <1>6, DeltaFacts DEF EndInHand, EndOfDeltas
  <2>3. EndOfCapture'
    BY <1>1, <1>2, <1>3, <1>4, <1>5, <1>6, DeltaFacts DEF EndOfCapture
  <2>4. EndWritten'
    BY <1>1, <1>2, <1>3, <1>4, <1>5, <1>6, DeltaFacts DEF EndWritten
  <2>. QED
    BY <2>1, <2>2, <2>3, <2>4 DEF EndIsLast
<1>11. EndSomewhere'
  BY <1>1, <1>2, <1>3, <1>4, <1>5, <1>6, DeltaFacts, SMTT(60) DEF EndSomewhere
<1>12. UsageFirst'
  BY <1>1, <1>2, <1>3, <1>4, <1>5, <1>6, DeltaFacts DEF UsageFirst
<1>13. InOrder'
  <2>. SUFFICES ASSUME Flowing' PROVE CaptureInOrder' /\ HandInOrder' /\ DeltasInOrder' /\ ReadInOrder'
    BY DEF InOrder
  <2>1. CaptureInOrder /\ HandInOrder /\ DeltasInOrder /\ ReadInOrder
    BY <1>1, <1>3, <1>4, <1>5, <1>6 DEF InOrder, Flowing
  <2>2. CaptureInOrder'
    BY <1>1, <1>2, <1>3, <1>4, <1>5, <1>6, <2>1, <1>7, DeltaFacts DEF CaptureInOrder
  <2>3. HandInOrder'
    BY <1>1, <1>2, <1>3, <1>4, <1>5, <1>6, <2>1, <1>7, DeltaFacts DEF HandInOrder, DeltasInOrder,
       Taken
  <2>4. DeltasInOrder'
    <3>. SUFFICES ASSUME NEW i \in 1..Len(deltas'), deltas'[i] \notin Ends
                  PROVE  deltas'[i] = Taken' + i - Lead
      BY DEF DeltasInOrder
    <3>1. i \in 1..(Len(deltas) - 1) /\ i + 1 \in 1..Len(deltas)
      BY <1>2, <1>4
    <3>2. deltas'[i] = deltas[i + 1]
      BY <1>5, <3>1
    <3>3. deltas[i + 1] \notin Ends => deltas[i + 1] = Taken + (i + 1) - Lead
      BY <2>1, <3>1 DEF DeltasInOrder
    <3>. QED
      BY <1>1, <1>2, <1>4, <1>6, <1>7, <2>1, DeltaFacts, <3>1, <3>2, <3>3
  <2>5. ReadInOrder'
    BY <1>1, <1>2, <1>3, <1>4, <1>5, <1>6, <2>1, <1>7, DeltaFacts DEF ReadInOrder
  <2>. QED
    BY <2>2, <2>3, <2>4, <2>5
<1>. QED
  BY <1>8, <1>9, <1>10, <1>11, <1>12, <1>13 DEF RelayInv

\* It passes one on.
LEMMA RelaySendStep == RelayInv /\ RelaySend => RelayInv'
<1>. SUFFICES ASSUME RelayInv, RelaySend PROVE RelayInv'
  OBVIOUS
<1>1. /\ Channels /\ Closed /\ Positions /\ Held /\ Flags /\ Hands
      /\ EndOfDeltas /\ EndInHand /\ EndOfCapture /\ EndWritten /\ EndSomewhere /\ UsageFirst /\ InOrder
  BY DEF RelayInv, Typed, EndIsLast
<1>2. /\ Len(deltas) \in Nat /\ Len(capture) \in Nat /\ Len(out) \in Nat
      /\ Passed \in Nat /\ Taken \in Nat /\ Sent \in Nat
      /\ (deltas = <<>> <=> Len(deltas) = 0) /\ (capture = <<>> <=> Len(capture) = 0)
  BY <1>1, CountFacts
<1>3. passing \in Delta /\ capture \in Seq(Delta) /\ relay = "send"
  BY <1>1, DeltaFacts DEF RelaySend, Channels, Held, Hands
<1>4. /\ capture' \in Seq(Delta) /\ Len(capture') = Len(capture) + 1
      /\ capture'[Len(capture) + 1] = passing /\ capture' # <<>>
  BY <1>3, AppendFacts DEF RelaySend, Pass
<1>5. \A i \in 1..Len(capture) : capture'[i] = capture[i]
  BY <1>3, AppendFacts DEF RelaySend, Pass
<1>6. /\ passing' = Nothing /\ relay' = "receive" /\ Len(capture) < Capacity
      /\ UNCHANGED <<read, deltas, closed, reader, handler, drain, parsed, broken, usage, gone,
                     out, sealed>>
  BY DEF RelaySend
<1>7. Passed' = Passed + 1 /\ Taken' = Taken /\ Sent' = Sent
  BY <1>2, <1>3, <1>4, <1>6 DEF Passed, Taken, Sent
<1>8. Typed'
  <2>1. Channels'
    BY <1>1, <1>2, <1>3, <1>4, <1>5, <1>6, DeltaFacts DEF Channels
  <2>2. Closed'
    BY <1>1, <1>2, <1>3, <1>4, <1>5, <1>6, DeltaFacts DEF Closed
  <2>3. Positions'
    BY <1>1, <1>2, <1>3, <1>4, <1>5, <1>6, DeltaFacts DEF Positions
  <2>4. Held'
    BY <1>1, <1>2, <1>3, <1>4, <1>5, <1>6, DeltaFacts DEF Held
  <2>5. Flags'
    BY <1>1, <1>2, <1>3, <1>4, <1>5, <1>6, DeltaFacts DEF Flags
  <2>. QED
    BY <2>1, <2>2, <2>3, <2>4, <2>5 DEF Typed
<1>9. Hands'
  BY <1>1, <1>2, <1>3, <1>4, <1>5, <1>6, DeltaFacts DEF Hands
<1>10. EndIsLast'
  <2>1. EndOfDeltas'
    BY <1>1, <1>2, <1>3, <1>4, <1>5, <1>6, DeltaFacts DEF EndOfDeltas
  <2>2. EndInHand'
    BY <1>1, <1>2, <1>3, <1>4, <1>5, <1>6, DeltaFacts DEF EndInHand
  <2>3. EndOfCapture'
    <3>. SUFFICES ASSUME NEW k \in 1..Len(capture'), capture'[k] \in Ends
                  PROVE  k = Len(capture') /\ relay' # "send" /\ deltas' = <<>> /\ reader' = "ended"
      BY DEF EndOfCapture
    <3>1. CASE k = Len(capture) + 1
      BY <1>1, <1>2, <1>3, <1>4, <1>6, <1>7, <3>1 DEF EndOfCapture, EndInHand
    <3>2. CASE k \in 1..Len(capture)
      <4>1. capture'[k] = capture[k]
        BY <1>5, <3>2
      <4>. QED
        BY <1>1, <1>2, <1>3, <1>4, <1>6, <1>7, <3>2, <4>1 DEF EndOfCapture, EndInHand
    <3>. QED
      BY <1>2, <1>4, <3>1, <3>2
  <2>4. EndWritten'
    BY <1>1, <1>2, <1>3, <1>4, <1>5, <1>6, DeltaFacts DEF EndWritten
  <2>. QED
    BY <2>1, <2>2, <2>3, <2>4 DEF EndIsLast
<1>11. EndSomewhere'
  <2>1. CASE passing \in Ends
    <3>1. capture' # <<>> /\ capture'[Len(capture')] \in Ends
      BY <1>4, <2>1
    <3>. QED
      BY <3>1 DEF EndSomewhere
  <2>2. CASE passing \notin Ends
    <3>1. ~(capture # <<>> /\ capture[Len(capture)] \in Ends)
      BY <1>1, <1>2, <1>3 DEF EndOfCapture
    <3>. QED
      BY <1>1, <1>3, <1>6, <2>2, <3>1 DEF EndSomewhere
  <2>. QED
    BY <2>1, <2>2
<1>12. UsageFirst'
  <2>1. CASE usage
    BY <1>6, <2>1 DEF UsageFirst
  <2>2. CASE ~usage
    <3>. SUFFICES ASSUME NEW k \in 1..Len(capture') PROVE capture'[k] # Finish
      BY <1>1, <1>3, <1>6, <2>2, DeltaFacts DEF UsageFirst
    <3>1. CASE k = Len(capture) + 1
      BY <1>1, <1>4, <2>2, <3>1 DEF UsageFirst
    <3>2. CASE k \in 1..Len(capture)
      BY <1>1, <1>5, <2>2, <3>2 DEF UsageFirst
    <3>. QED
      BY <1>2, <1>4, <3>1, <3>2
  <2>. QED
    BY <2>1, <2>2
<1>13. InOrder'
  <2>. SUFFICES ASSUME Flowing' PROVE CaptureInOrder' /\ HandInOrder' /\ DeltasInOrder' /\ ReadInOrder'
    BY DEF InOrder
  <2>1. CaptureInOrder /\ HandInOrder /\ DeltasInOrder /\ ReadInOrder
    BY <1>1, <1>3, <1>4, <1>5, <1>6 DEF InOrder, Flowing
  <2>2. CaptureInOrder'
    <3>. SUFFICES ASSUME NEW k \in 1..Len(capture'), capture'[k] \notin Ends
                  PROVE  capture'[k] = Len(out') + k - Lead
      BY DEF CaptureInOrder
    <3>1. CASE k = Len(capture) + 1
      BY <1>1, <1>2, <1>3, <1>4, <1>6, <1>7, <3>1, <1>8, <2>1, DeltaFacts DEF CaptureInOrder,
         HandInOrder, Passed
    <3>2. CASE k \in 1..Len(capture)
      <4>1. capture'[k] = capture[k]
        BY <1>5, <3>2
      <4>. QED
        BY <1>1, <1>2, <1>3, <1>4, <1>6, <1>7, <3>2, <4>1, <1>8, <2>1, DeltaFacts
           DEF CaptureInOrder, HandInOrder, Passed
    <3>. QED
      BY <1>2, <1>4, <3>1, <3>2
  <2>3. HandInOrder'
    BY <1>1, <1>2, <1>3, <1>4, <1>5, <1>6, <2>1, <1>7, DeltaFacts DEF HandInOrder
  <2>4. DeltasInOrder'
    BY <1>1, <1>2, <1>3, <1>4, <1>5, <1>6, <2>1, <1>7, DeltaFacts DEF DeltasInOrder
  <2>5. ReadInOrder'
    BY <1>1, <1>2, <1>3, <1>4, <1>5, <1>6, <2>1, <1>7, DeltaFacts DEF ReadInOrder
  <2>. QED
    BY <2>2, <2>3, <2>4, <2>5
<1>. QED
  BY <1>8, <1>9, <1>10, <1>11, <1>12, <1>13 DEF RelayInv

\* It ends when the reader has and all is passed on.
LEMMA RelayEndStep == RelayInv /\ RelayEnd => RelayInv'
<1>. SUFFICES ASSUME RelayInv, RelayEnd PROVE RelayInv'
  OBVIOUS
<1>1. /\ Channels /\ Closed /\ Positions /\ Held /\ Flags /\ Hands
      /\ EndOfDeltas /\ EndInHand /\ EndOfCapture /\ EndWritten /\ EndSomewhere /\ UsageFirst /\ InOrder
  BY DEF RelayInv, Typed, EndIsLast
<1>2. /\ Len(deltas) \in Nat /\ Len(capture) \in Nat /\ Len(out) \in Nat
      /\ Passed \in Nat /\ Taken \in Nat /\ Sent \in Nat
      /\ (deltas = <<>> <=> Len(deltas) = 0) /\ (capture = <<>> <=> Len(capture) = 0)
  BY <1>1, CountFacts
<1>3. relay = "receive" /\ passing = Nothing /\ deltas = <<>> /\ reader = "ended"
  BY <1>1 DEF RelayEnd, Hands
<1>4. /\ relay' = "ended" /\ closed' = closed \cup {"capture"}
      /\ UNCHANGED <<read, deltas, capture, reader, handler, drain, parsed, passing, broken,
                     usage, gone, out, sealed>>
  BY DEF RelayEnd
<1>5. Passed' = Passed /\ Taken' = Taken /\ Sent' = Sent
  BY <1>3, <1>4 DEF Passed, Taken, Sent
<1>6. Typed'
  <2>1. Channels'
    BY <1>1, <1>2, <1>3, <1>4, DeltaFacts DEF Channels
  <2>2. Closed'
    BY <1>1, <1>2, <1>3, <1>4, DeltaFacts DEF Closed
  <2>3. Positions'
    BY <1>1, <1>2, <1>3, <1>4, DeltaFacts DEF Positions
  <2>4. Held'
    BY <1>1, <1>2, <1>3, <1>4, DeltaFacts DEF Held
  <2>5. Flags'
    BY <1>1, <1>2, <1>3, <1>4, DeltaFacts DEF Flags
  <2>. QED
    BY <2>1, <2>2, <2>3, <2>4, <2>5 DEF Typed
<1>7. Hands'
  BY <1>1, <1>2, <1>3, <1>4, DeltaFacts DEF Hands
<1>8. EndIsLast'
  <2>1. EndOfDeltas'
    BY <1>1, <1>2, <1>3, <1>4, DeltaFacts DEF EndOfDeltas
  <2>2. EndInHand'
    BY <1>1, <1>2, <1>3, <1>4, DeltaFacts DEF EndInHand
  <2>3. EndOfCapture'
    BY <1>1, <1>2, <1>3, <1>4, DeltaFacts DEF EndOfCapture
  <2>4. EndWritten'
    BY <1>1, <1>2, <1>3, <1>4, DeltaFacts DEF EndWritten
  <2>. QED
    BY <2>1, <2>2, <2>3, <2>4 DEF EndIsLast
<1>9. EndSomewhere'
  BY <1>1, <1>2, <1>3, <1>4, DeltaFacts DEF EndSomewhere
<1>10. UsageFirst'
  BY <1>1, <1>2, <1>3, <1>4, DeltaFacts DEF UsageFirst
<1>11. InOrder'
  <2>. SUFFICES ASSUME Flowing' PROVE CaptureInOrder' /\ HandInOrder' /\ DeltasInOrder' /\ ReadInOrder'
    BY DEF InOrder
  <2>1. CaptureInOrder /\ HandInOrder /\ DeltasInOrder /\ ReadInOrder
    BY <1>1, <1>3, <1>4 DEF InOrder, Flowing
  <2>2. CaptureInOrder'
    BY <1>1, <1>2, <1>3, <1>4, <2>1, <1>5, DeltaFacts DEF CaptureInOrder
  <2>3. HandInOrder'
    BY <1>1, <1>2, <1>3, <1>4, <2>1, <1>5, DeltaFacts DEF HandInOrder
  <2>4. DeltasInOrder'
    BY <1>1, <1>2, <1>3, <1>4, <2>1, <1>5, DeltaFacts DEF DeltasInOrder
  <2>5. ReadInOrder'
    BY <1>1, <1>2, <1>3, <1>4, <2>1, <1>5, DeltaFacts DEF ReadInOrder
  <2>. QED
    BY <2>2, <2>3, <2>4, <2>5
<1>. QED
  BY <1>6, <1>7, <1>8, <1>9, <1>10, <1>11 DEF RelayInv

\* The handler writes one to the client, or to nobody.
LEMMA WriteStep == RelayInv /\ Write => RelayInv'
<1>. SUFFICES ASSUME RelayInv, Write PROVE RelayInv'
  OBVIOUS
<1>1. /\ Channels /\ Closed /\ Positions /\ Held /\ Flags /\ Hands
      /\ EndOfDeltas /\ EndInHand /\ EndOfCapture /\ EndWritten /\ EndSomewhere /\ UsageFirst /\ InOrder
  BY DEF RelayInv, Typed, EndIsLast
<1>2. /\ Len(deltas) \in Nat /\ Len(capture) \in Nat /\ Len(out) \in Nat
      /\ Passed \in Nat /\ Taken \in Nat /\ Sent \in Nat
      /\ (deltas = <<>> <=> Len(deltas) = 0) /\ (capture = <<>> <=> Len(capture) = 0)
  BY <1>1, CountFacts
<1>3. capture # <<>> /\ capture \in Seq(Delta) /\ handler = "write" /\ ~broken /\ ~sealed
  BY <1>1 DEF Write, Take, Channels, EndWritten
<1>4. /\ capture' \in Seq(Delta) /\ Len(capture') = Len(capture) - 1
      /\ Head(capture) = capture[1] /\ Head(capture) \in Delta
      /\ (capture' = <<>> <=> Len(capture) = 1)
  BY <1>3, TailFacts DEF Write, Take
<1>5. \A i \in 1..(Len(capture) - 1) : capture'[i] = capture[i + 1]
  BY <1>3, TailFacts DEF Write, Take
<1>6. \/ ~gone /\ capture[1] = Finish /\ out' = out /\ sealed' = TRUE /\ broken' = FALSE
      \/ /\ ~gone /\ capture[1] \notin Ends /\ sealed' = FALSE /\ broken' = FALSE
         /\ out' \in Seq(Delta) /\ Len(out') = Len(out) + 1
      \/ gone /\ broken' = TRUE /\ out' = out /\ sealed' = FALSE
  <2>1. CASE ~gone /\ Head(capture) = Finish
    BY <1>1, <1>3, <1>4, <2>1 DEF Write, Flags
  <2>2. CASE ~gone /\ Head(capture) # Finish
    <3>1. out' = Append(out, Head(capture)) /\ sealed' = FALSE /\ broken' = FALSE
      BY <1>1, <1>3, <2>2 DEF Write, Flags
    <3>2. capture[1] \notin Ends
      BY <1>4, <2>2, DeltaFacts DEF Write
    <3>. QED
      BY <1>1, <1>4, <2>2, <3>1, <3>2, AppendFacts DEF Channels
  <2>3. CASE gone
    BY <1>1, <1>3, <2>3 DEF Write, Flags
  <2>. QED
    BY <2>1, <2>2, <2>3
<1>7. UNCHANGED <<read, deltas, closed, reader, relay, handler, drain, parsed, passing, usage,
                  gone>>
  BY DEF Write
<1>8. Typed'
  <2>1. Channels'
    BY <1>1, <1>2, <1>3, <1>4, <1>5, <1>6, <1>7, DeltaFacts DEF Channels
  <2>2. Closed'
    BY <1>1, <1>2, <1>3, <1>4, <1>5, <1>6, <1>7, DeltaFacts DEF Closed
  <2>3. Positions'
    BY <1>1, <1>2, <1>3, <1>4, <1>5, <1>6, <1>7, DeltaFacts DEF Positions
  <2>4. Held'
    BY <1>1, <1>2, <1>3, <1>4, <1>5, <1>6, <1>7, DeltaFacts DEF Held
  <2>5. Flags'
    BY <1>1, <1>2, <1>3, <1>4, <1>5, <1>6, <1>7, DeltaFacts DEF Flags
  <2>. QED
    BY <2>1, <2>2, <2>3, <2>4, <2>5 DEF Typed
<1>9. Hands'
  BY <1>1, <1>2, <1>3, <1>4, <1>5, <1>6, <1>7, DeltaFacts DEF Hands
<1>10. EndIsLast'
  <2>1. EndOfDeltas'
    BY <1>1, <1>2, <1>3, <1>4, <1>5, <1>6, <1>7, DeltaFacts DEF EndOfDeltas
  <2>2. EndInHand'
    BY <1>1, <1>2, <1>3, <1>4, <1>5, <1>6, <1>7, DeltaFacts DEF EndInHand
  <2>3. EndOfCapture'
    <3>. SUFFICES ASSUME NEW k \in 1..Len(capture'), capture'[k] \in Ends
                  PROVE  k = Len(capture') /\ relay' # "send" /\ deltas' = <<>> /\ reader' = "ended"
      BY DEF EndOfCapture
    <3>1. k \in 1..(Len(capture) - 1) /\ k + 1 \in 1..Len(capture)
      BY <1>2, <1>4
    <3>2. capture'[k] = capture[k + 1]
      BY <1>5, <3>1
    <3>3. capture[k + 1] \in Ends =>
            k + 1 = Len(capture) /\ relay # "send" /\ deltas = <<>> /\ reader = "ended"
      BY <1>1, <3>1 DEF EndOfCapture
    <3>. QED
      BY <1>1, <1>2, <1>4, <1>6, <1>7, <3>1, <3>2, <3>3
  <2>4. EndWritten'
    BY <1>1, <1>2, <1>3, <1>4, <1>5, <1>6, <1>7, DeltaFacts DEF EndWritten, EndOfCapture
  <2>. QED
    BY <2>1, <2>2, <2>3, <2>4 DEF EndIsLast
<1>11. EndSomewhere'
  BY <1>1, <1>2, <1>3, <1>4, <1>5, <1>6, <1>7, DeltaFacts, SMTT(60) DEF EndSomewhere
<1>12. UsageFirst'
  BY <1>1, <1>2, <1>3, <1>4, <1>5, <1>6, <1>7, DeltaFacts, SMTT(60) DEF UsageFirst
<1>13. InOrder'
  <2>. SUFFICES ASSUME Flowing' PROVE CaptureInOrder' /\ HandInOrder' /\ DeltasInOrder' /\ ReadInOrder'
    BY DEF InOrder
  <2>1. CaptureInOrder /\ HandInOrder /\ DeltasInOrder /\ ReadInOrder
    BY <1>1, <1>3, <1>4, <1>5, <1>6, <1>7 DEF InOrder, Flowing, Flags
  <2>0. /\ broken' = FALSE /\ sealed' = FALSE /\ Len(out') = Len(out) + 1
        /\ Passed' = Passed /\ Taken' = Taken /\ Sent' = Sent
    <3>1. broken' = FALSE /\ sealed' = FALSE /\ Len(out') = Len(out) + 1
      BY <1>6 DEF Flowing
    <3>. QED
      BY <1>2, <1>4, <1>7, <3>1 DEF Passed, Taken, Sent
  <2>2. CaptureInOrder'
    <3>. SUFFICES ASSUME NEW k \in 1..Len(capture'), capture'[k] \notin Ends
                  PROVE  capture'[k] = Len(out') + k - Lead
      BY DEF CaptureInOrder
    <3>1. k \in 1..(Len(capture) - 1) /\ k + 1 \in 1..Len(capture)
      BY <1>2, <1>4
    <3>2. capture'[k] = capture[k + 1]
      BY <1>5, <3>1
    <3>3. capture[k + 1] \notin Ends => capture[k + 1] = Len(out) + (k + 1) - Lead
      BY <2>1, <3>1 DEF CaptureInOrder
    <3>. QED
      BY <1>1, <1>2, <1>4, <1>6, <1>7, <2>0, <2>1, DeltaFacts, <3>1, <3>2, <3>3
  <2>3. HandInOrder'
    BY <1>1, <1>2, <1>3, <1>4, <1>5, <1>6, <1>7, <2>1, <2>0, DeltaFacts DEF HandInOrder, Passed,
       Flowing
  <2>4. DeltasInOrder'
    BY <1>1, <1>2, <1>3, <1>4, <1>5, <1>6, <1>7, <2>1, <2>0, DeltaFacts DEF DeltasInOrder,
       Passed, Taken, Flowing
  <2>5. ReadInOrder'
    BY <1>1, <1>2, <1>3, <1>4, <1>5, <1>6, <1>7, <2>1, <2>0, DeltaFacts DEF ReadInOrder, Passed,
       Taken, Sent, Flowing
  <2>. QED
    BY <2>2, <2>3, <2>4, <2>5
<1>. QED
  BY <1>8, <1>9, <1>10, <1>11, <1>12, <1>13 DEF RelayInv

\* It stops early.
LEMMA StopStep == RelayInv /\ Stop => RelayInv'
<1>. SUFFICES ASSUME RelayInv, Stop PROVE RelayInv'
  OBVIOUS
<1>1. /\ Channels /\ Closed /\ Positions /\ Held /\ Flags /\ Hands
      /\ EndOfDeltas /\ EndInHand /\ EndOfCapture /\ EndWritten /\ EndSomewhere /\ UsageFirst /\ InOrder
  BY DEF RelayInv, Typed, EndIsLast
<1>2. /\ Len(deltas) \in Nat /\ Len(capture) \in Nat /\ Len(out) \in Nat
      /\ Passed \in Nat /\ Taken \in Nat /\ Sent \in Nat
      /\ (deltas = <<>> <=> Len(deltas) = 0) /\ (capture = <<>> <=> Len(capture) = 0)
  BY <1>1, CountFacts
<1>3. capture # <<>> /\ capture \in Seq(Delta) /\ handler = "write"
  BY <1>1 DEF Stop, Take, Channels
<1>4. /\ capture' \in Seq(Delta) /\ Len(capture') = Len(capture) - 1
      /\ Head(capture) = capture[1] /\ Head(capture) \in Delta
      /\ (capture' = <<>> <=> Len(capture) = 1)
  BY <1>3, TailFacts DEF Stop, Take
<1>5. \A i \in 1..(Len(capture) - 1) : capture'[i] = capture[i + 1]
  BY <1>3, TailFacts DEF Stop, Take
<1>6. /\ handler' = "aborted" /\ drain' = "run"
      /\ UNCHANGED <<read, deltas, closed, reader, relay, parsed, passing, broken, usage, gone,
                     out, sealed>>
  BY DEF Stop
<1>7. Typed'
  <2>1. Channels'
    BY <1>1, <1>2, <1>3, <1>4, <1>5, <1>6, DeltaFacts DEF Channels
  <2>2. Closed'
    BY <1>1, <1>2, <1>3, <1>4, <1>5, <1>6, DeltaFacts DEF Closed
  <2>3. Positions'
    BY <1>1, <1>2, <1>3, <1>4, <1>5, <1>6, DeltaFacts DEF Positions
  <2>4. Held'
    BY <1>1, <1>2, <1>3, <1>4, <1>5, <1>6, DeltaFacts DEF Held
  <2>5. Flags'
    BY <1>1, <1>2, <1>3, <1>4, <1>5, <1>6, DeltaFacts DEF Flags
  <2>. QED
    BY <2>1, <2>2, <2>3, <2>4, <2>5 DEF Typed
<1>8. Hands'
  BY <1>1, <1>2, <1>3, <1>4, <1>5, <1>6, DeltaFacts DEF Hands
<1>9. EndIsLast'
  <2>1. EndOfDeltas'
    BY <1>1, <1>2, <1>3, <1>4, <1>5, <1>6, DeltaFacts DEF EndOfDeltas
  <2>2. EndInHand'
    BY <1>1, <1>2, <1>3, <1>4, <1>5, <1>6, DeltaFacts DEF EndInHand
  <2>3. EndOfCapture'
    BY <1>1, <1>2, <1>3, <1>4, <1>5, <1>6, DeltaFacts, SMTT(60) DEF EndOfCapture
  <2>4. EndWritten'
    BY <1>1, <1>2, <1>3, <1>4, <1>5, <1>6, DeltaFacts DEF EndWritten
  <2>. QED
    BY <2>1, <2>2, <2>3, <2>4 DEF EndIsLast
<1>10. EndSomewhere'
  BY <1>1, <1>2, <1>3, <1>4, <1>5, <1>6, DeltaFacts DEF EndSomewhere
<1>11. UsageFirst'
  BY <1>1, <1>2, <1>3, <1>4, <1>5, <1>6, DeltaFacts DEF UsageFirst
<1>12. InOrder'
  BY <1>3, <1>4, <1>5, <1>6 DEF InOrder, Flowing
<1>. QED
  BY <1>7, <1>8, <1>9, <1>10, <1>11, <1>12 DEF RelayInv

\* It ends with the stream.
LEMMA EndStep == RelayInv /\ End => RelayInv'
<1>. SUFFICES ASSUME RelayInv, End PROVE RelayInv'
  OBVIOUS
<1>1. /\ Channels /\ Closed /\ Positions /\ Held /\ Flags /\ Hands
      /\ EndOfDeltas /\ EndInHand /\ EndOfCapture /\ EndWritten /\ EndSomewhere /\ UsageFirst /\ InOrder
  BY DEF RelayInv, Typed, EndIsLast
<1>2. /\ Len(deltas) \in Nat /\ Len(capture) \in Nat /\ Len(out) \in Nat
      /\ Passed \in Nat /\ Taken \in Nat /\ Sent \in Nat
      /\ (deltas = <<>> <=> Len(deltas) = 0) /\ (capture = <<>> <=> Len(capture) = 0)
  BY <1>1, CountFacts
<1>3. /\ handler' = "complete" /\ handler = "write" /\ "capture" \in closed
      /\ UNCHANGED <<read, deltas, capture, closed, reader, relay, drain, parsed, passing,
                     broken, usage, gone, out, sealed>>
  BY DEF End
<1>4. Typed'
  <2>1. Channels'
    BY <1>1, <1>2, <1>3, DeltaFacts DEF Channels
  <2>2. Closed'
    BY <1>1, <1>2, <1>3, DeltaFacts DEF Closed
  <2>3. Positions'
    BY <1>1, <1>2, <1>3, DeltaFacts DEF Positions
  <2>4. Held'
    BY <1>1, <1>2, <1>3, DeltaFacts DEF Held
  <2>5. Flags'
    BY <1>1, <1>2, <1>3, DeltaFacts DEF Flags
  <2>. QED
    BY <2>1, <2>2, <2>3, <2>4, <2>5 DEF Typed
<1>5. Hands'
  BY <1>1, <1>2, <1>3, DeltaFacts DEF Hands
<1>6. EndIsLast'
  <2>1. EndOfDeltas'
    BY <1>1, <1>2, <1>3, DeltaFacts DEF EndOfDeltas
  <2>2. EndInHand'
    BY <1>1, <1>2, <1>3, DeltaFacts DEF EndInHand
  <2>3. EndOfCapture'
    BY <1>1, <1>2, <1>3, DeltaFacts DEF EndOfCapture
  <2>4. EndWritten'
    BY <1>1, <1>2, <1>3, DeltaFacts DEF EndWritten
  <2>. QED
    BY <2>1, <2>2, <2>3, <2>4 DEF EndIsLast
<1>7. EndSomewhere'
  BY <1>1, <1>2, <1>3, DeltaFacts DEF EndSomewhere
<1>8. UsageFirst'
  BY <1>1, <1>2, <1>3, DeltaFacts DEF UsageFirst
<1>9. InOrder'
  BY <1>3 DEF InOrder, Flowing
<1>. QED
  BY <1>4, <1>5, <1>6, <1>7, <1>8, <1>9 DEF RelayInv

\* What is left is drained.
LEMMA DrainStep == RelayInv /\ Drain => RelayInv'
<1>. SUFFICES ASSUME RelayInv, Drain PROVE RelayInv'
  OBVIOUS
<1>1. /\ Channels /\ Closed /\ Positions /\ Held /\ Flags /\ Hands
      /\ EndOfDeltas /\ EndInHand /\ EndOfCapture /\ EndWritten /\ EndSomewhere /\ UsageFirst /\ InOrder
  BY DEF RelayInv, Typed, EndIsLast
<1>2. /\ Len(deltas) \in Nat /\ Len(capture) \in Nat /\ Len(out) \in Nat
      /\ Passed \in Nat /\ Taken \in Nat /\ Sent \in Nat
      /\ (deltas = <<>> <=> Len(deltas) = 0) /\ (capture = <<>> <=> Len(capture) = 0)
  BY <1>1, CountFacts
<1>3. drain = "run" /\ drain' \in {"run", "ended"} /\ handler # "write"
  BY <1>1 DEF Drain, Hands
<1>4. \/ capture' = capture
      \/ /\ capture # <<>> /\ capture' \in Seq(Delta) /\ Len(capture') = Len(capture) - 1
         /\ (capture' = <<>> <=> Len(capture) = 1)
         /\ \A i \in 1..(Len(capture) - 1) : capture'[i] = capture[i + 1]
  BY <1>1, TailFacts DEF Drain, Take, Channels
<1>5. UNCHANGED <<read, deltas, closed, reader, relay, handler, parsed, passing, broken, usage,
                  gone, out, sealed>>
  BY DEF Drain
<1>6. Typed'
  <2>1. Channels'
    BY <1>1, <1>2, <1>3, <1>4, <1>5, DeltaFacts DEF Channels
  <2>2. Closed'
    BY <1>1, <1>2, <1>3, <1>4, <1>5, DeltaFacts DEF Closed
  <2>3. Positions'
    BY <1>1, <1>2, <1>3, <1>4, <1>5, DeltaFacts DEF Positions
  <2>4. Held'
    BY <1>1, <1>2, <1>3, <1>4, <1>5, DeltaFacts DEF Held
  <2>5. Flags'
    BY <1>1, <1>2, <1>3, <1>4, <1>5, DeltaFacts DEF Flags
  <2>. QED
    BY <2>1, <2>2, <2>3, <2>4, <2>5 DEF Typed
<1>7. Hands'
  BY <1>1, <1>2, <1>3, <1>4, <1>5, DeltaFacts DEF Hands
<1>8. EndIsLast'
  <2>1. EndOfDeltas'
    BY <1>1, <1>2, <1>3, <1>4, <1>5, DeltaFacts DEF EndOfDeltas
  <2>2. EndInHand'
    BY <1>1, <1>2, <1>3, <1>4, <1>5, DeltaFacts DEF EndInHand
  <2>3. EndOfCapture'
    <3>1. CASE capture' = capture
      BY <1>1, <1>5, <3>1 DEF EndOfCapture
    <3>2. CASE capture' # capture
      <4>. SUFFICES ASSUME NEW k \in 1..Len(capture'), capture'[k] \in Ends
                    PROVE  k = Len(capture') /\ relay' # "send" /\ deltas' = <<>> /\ reader' = "ended"
        BY DEF EndOfCapture
      <4>1. k \in 1..(Len(capture) - 1) /\ k + 1 \in 1..Len(capture) /\ Len(capture') = Len(capture) - 1
        BY <1>2, <1>4, <3>2
      <4>2. capture'[k] = capture[k + 1]
        BY <1>4, <3>2, <4>1
      <4>3. capture[k + 1] \in Ends =>
               k + 1 = Len(capture) /\ relay # "send" /\ deltas = <<>> /\ reader = "ended"
        BY <1>1, <4>1 DEF EndOfCapture
      <4>. QED
        BY <1>2, <1>5, <4>1, <4>2, <4>3
    <3>. QED
      BY <3>1, <3>2
  <2>4. EndWritten'
    BY <1>1, <1>2, <1>3, <1>4, <1>5, DeltaFacts DEF EndWritten
  <2>. QED
    BY <2>1, <2>2, <2>3, <2>4 DEF EndIsLast
<1>9. EndSomewhere'
  BY <1>1, <1>2, <1>3, <1>4, <1>5, DeltaFacts DEF EndSomewhere
<1>10. UsageFirst'
  BY <1>1, <1>2, <1>3, <1>4, <1>5, DeltaFacts DEF UsageFirst
<1>11. InOrder'
  BY <1>3, <1>4, <1>5 DEF InOrder, Flowing
<1>. QED
  BY <1>6, <1>7, <1>8, <1>9, <1>10, <1>11 DEF RelayInv

\* The client leaves.
LEMMA ClientLeavesStep == RelayInv /\ ClientLeaves => RelayInv'
<1>. SUFFICES ASSUME RelayInv, ClientLeaves PROVE RelayInv'
  OBVIOUS
<1>1. /\ Channels /\ Closed /\ Positions /\ Held /\ Flags /\ Hands
      /\ EndOfDeltas /\ EndInHand /\ EndOfCapture /\ EndWritten /\ EndSomewhere /\ UsageFirst /\ InOrder
  BY DEF RelayInv, Typed, EndIsLast
<1>2. /\ Len(deltas) \in Nat /\ Len(capture) \in Nat /\ Len(out) \in Nat
      /\ Passed \in Nat /\ Taken \in Nat /\ Sent \in Nat
      /\ (deltas = <<>> <=> Len(deltas) = 0) /\ (capture = <<>> <=> Len(capture) = 0)
  BY <1>1, CountFacts
<1>3. /\ gone' = TRUE
      /\ UNCHANGED <<read, deltas, capture, closed, reader, relay, handler, drain, parsed,
                     passing, broken, usage, out, sealed>>
  BY DEF ClientLeaves
<1>4. Passed' = Passed /\ Taken' = Taken /\ Sent' = Sent
  BY <1>3 DEF Passed, Taken, Sent
<1>5. Typed'
  <2>1. Channels'
    BY <1>1, <1>2, <1>3, DeltaFacts DEF Channels
  <2>2. Closed'
    BY <1>1, <1>2, <1>3, DeltaFacts DEF Closed
  <2>3. Positions'
    BY <1>1, <1>2, <1>3, DeltaFacts DEF Positions
  <2>4. Held'
    BY <1>1, <1>2, <1>3, DeltaFacts DEF Held
  <2>5. Flags'
    BY <1>1, <1>2, <1>3, DeltaFacts DEF Flags
  <2>. QED
    BY <2>1, <2>2, <2>3, <2>4, <2>5 DEF Typed
<1>6. Hands'
  BY <1>1, <1>2, <1>3, DeltaFacts DEF Hands
<1>7. EndIsLast'
  <2>1. EndOfDeltas'
    BY <1>1, <1>2, <1>3, DeltaFacts DEF EndOfDeltas
  <2>2. EndInHand'
    BY <1>1, <1>2, <1>3, DeltaFacts DEF EndInHand
  <2>3. EndOfCapture'
    BY <1>1, <1>2, <1>3, DeltaFacts DEF EndOfCapture
  <2>4. EndWritten'
    BY <1>1, <1>2, <1>3, DeltaFacts DEF EndWritten
  <2>. QED
    BY <2>1, <2>2, <2>3, <2>4 DEF EndIsLast
<1>8. EndSomewhere'
  BY <1>1, <1>2, <1>3, DeltaFacts DEF EndSomewhere
<1>9. UsageFirst'
  BY <1>1, <1>2, <1>3, DeltaFacts DEF UsageFirst
<1>10. InOrder'
  <2>. SUFFICES ASSUME Flowing' PROVE CaptureInOrder' /\ HandInOrder' /\ DeltasInOrder' /\ ReadInOrder'
    BY DEF InOrder
  <2>1. CaptureInOrder /\ HandInOrder /\ DeltasInOrder /\ ReadInOrder
    BY <1>1, <1>3 DEF InOrder, Flowing
  <2>2. CaptureInOrder'
    BY <1>1, <1>2, <1>3, <2>1, <1>4, DeltaFacts DEF CaptureInOrder
  <2>3. HandInOrder'
    BY <1>1, <1>2, <1>3, <2>1, <1>4, DeltaFacts DEF HandInOrder
  <2>4. DeltasInOrder'
    BY <1>1, <1>2, <1>3, <2>1, <1>4, DeltaFacts DEF DeltasInOrder
  <2>5. ReadInOrder'
    BY <1>1, <1>2, <1>3, <2>1, <1>4, DeltaFacts DEF ReadInOrder
  <2>. QED
    BY <2>2, <2>3, <2>4, <2>5
<1>. QED
  BY <1>5, <1>6, <1>7, <1>8, <1>9, <1>10 DEF RelayInv

\* A step that changes nothing.
LEMMA RelayStutter == RelayInv /\ UNCHANGED vars => RelayInv'
<1>. SUFFICES ASSUME RelayInv, UNCHANGED vars PROVE RelayInv'
  OBVIOUS
<1>1. Typed'
  BY DEF vars, RelayInv, Typed, Channels, Closed, Positions, Held, Flags
<1>2. Hands' /\ EndSomewhere' /\ UsageFirst'
  BY DEF vars, RelayInv, Hands, EndSomewhere, UsageFirst
<1>3. EndIsLast'
  BY DEF vars, RelayInv, EndIsLast, EndOfDeltas, EndInHand, EndOfCapture, EndWritten
<1>4. InOrder'
  BY DEF vars, RelayInv, InOrder, Flowing, CaptureInOrder, HandInOrder, DeltasInOrder,
     ReadInOrder,
         Passed, Taken, Sent
<1>. QED
  BY <1>1, <1>2, <1>3, <1>4 DEF RelayInv

\* Every step keeps it.
LEMMA RelayStep == RelayInv /\ [Next]_vars => RelayInv'
<1>. SUFFICES ASSUME RelayInv, [Next]_vars PROVE RelayInv'
  OBVIOUS
<1>1. CASE Reader
  BY <1>1, ParseStep, ReaderSendStep DEF Reader
<1>2. CASE Relay
  BY <1>2, ReceiveStep, RelaySendStep, RelayEndStep DEF Relay
<1>3. CASE Handler
  BY <1>3, WriteStep, StopStep, EndStep DEF Handler
<1>4. CASE Drain
  BY <1>4, DrainStep
<1>5. CASE ClientLeaves
  BY <1>5, ClientLeavesStep
<1>6. CASE UNCHANGED vars
  BY <1>6, RelayStutter
<1>. QED
  BY <1>1, <1>2, <1>3, <1>4, <1>5, <1>6 DEF Next

\* The inductive invariant holds in every behaviour: who holds what, that the
\* end of a stream is behind everything else of it, and that nothing is lost or
\* overtaken between the reader and the client.
THEOREM RelayAlways == Spec => []RelayInv
  BY RelayInit, RelayStep, PTL DEF Spec

\* Every variable has its type, neither channel holds more than its capacity, and
\* neither is closed while its sender still runs (a send on it would panic).
THEOREM TypesHold == Spec => []TypeOK
<1>1. RelayInv => TypeOK
  BY DEF RelayInv, Typed, Channels, Closed, Positions, Held, Flags, Hands, TypeOK
<1>. QED
  BY <1>1, RelayAlways, PTL

\* When the handler reads the usage for its trace, the goroutine that writes it
\* has ended, and a stream that was finished has its usage: no lock is needed.
THEOREM Settled == Spec => []UsageSettled
<1>1. RelayInv => UsageSettled
  <2>. SUFFICES ASSUME RelayInv PROVE UsageSettled
    OBVIOUS
  <2>. QED
    BY DEF RelayInv, Hands, UsageFirst, UsageSettled
<1>. QED
  BY <1>1, RelayAlways, PTL

\* A frame the client gets is the next of the contract.
LEMMA WriteEmits == RelayInv /\ Write => [Contract!Next]_Contract!vars
<1>. SUFFICES ASSUME RelayInv, Write PROVE [Contract!Next]_Contract!vars
  OBVIOUS
<1>1. /\ handler = "write" /\ handler' = "write" /\ ~broken /\ ~sealed /\ gone' = gone
      /\ capture # <<>> /\ capture \in Seq(Delta) /\ sealed \in BOOLEAN /\ out \in Seq(Delta)
  BY DEF Write, Take, RelayInv, Typed, Channels, Flags, EndIsLast, EndWritten
<1>2. /\ Head(capture) = capture[1] /\ Head(capture) \in Delta /\ Len(capture) \in Nat \ {0}
      /\ Len(out) \in Nat
  BY <1>1, TailFacts
<1>3. CASE ~gone /\ Head(capture) = Finish
  <2>1. sealed' = TRUE /\ out' = out
    BY <1>3 DEF Write
  <2>. QED
    BY <1>1, <2>1 DEF Contract!Next, Contract!Finish
<1>4. CASE ~gone /\ Head(capture) # Finish
  <2>1. out' = Append(out, Head(capture)) /\ sealed' = sealed
    BY <1>1, <1>4 DEF Write
  <2>2. capture[1] = Len(out) + 1 - Lead
    <3>1. CaptureInOrder
      BY <1>1 DEF RelayInv, InOrder, Flowing
    <3>2. capture[1] \notin Ends
      BY <1>2, <1>4, DeltaFacts DEF Write
    <3>. QED
      BY <1>2, <3>1, <3>2, DeltaFacts DEF CaptureInOrder
  <2>3. Head(capture) \in 0..Items
    BY <1>2, <1>4, DeltaFacts DEF Write
  <2>4. Len(out) + 1 \in 1..(Items + Lead)
    BY <1>2, <2>2, <2>3, DeltaFacts
  <2>5. Len(out) < Len(Frames) /\ Frames[Len(out) + 1] = Head(capture)
    BY <1>2, <2>2, <2>4, FrameFacts, DeltaFacts
  <2>. QED
    BY <1>1, <2>1, <2>5 DEF Contract!Next, Contract!Emit
<1>5. CASE gone
  <2>1. out' = out /\ sealed' = sealed
    BY <1>5 DEF Write
  <2>. QED
    BY <1>1, <2>1 DEF Contract!vars
<1>. QED
  BY <1>3, <1>4, <1>5

\* The handler ends a reply as complete only when the finish went out or the
\* client is not there.
LEMMA EndCloses == RelayInv /\ End => [Contract!Next]_Contract!vars
<1>. SUFFICES ASSUME RelayInv, End PROVE [Contract!Next]_Contract!vars
  OBVIOUS
<1>1. /\ handler = "write" /\ handler' = "complete" /\ capture = <<>> /\ relay = "ended"
      /\ out' = out /\ sealed' = sealed /\ gone' = gone
  BY DEF End, RelayInv, Hands
<1>2. reader = "ended" /\ deltas = <<>> /\ passing = Nothing
  BY <1>1 DEF RelayInv, Hands
<1>3. passing \notin Ends
  BY <1>2, DeltaFacts
<1>4. sealed \/ broken
  BY <1>1, <1>2, <1>3 DEF RelayInv, EndSomewhere
<1>5. sealed \/ gone
  BY <1>4 DEF RelayInv, Hands
<1>. QED
  BY <1>1, <1>5 DEF Contract!Next, Contract!Close

\* Every step of the pipeline is a step of the contract, or none of its concern.
LEMMA StepMapped == RelayInv /\ [Next]_vars => [Contract!Next]_Contract!vars
<1>. SUFFICES ASSUME RelayInv, [Next]_vars PROVE [Contract!Next]_Contract!vars
  OBVIOUS
<1>1. CASE Reader \/ Relay \/ Drain \/ UNCHANGED vars
  <2>1. UNCHANGED <<out, sealed, gone, handler>>
    BY <1>1 DEF Reader, Relay, Drain, Parse, ReaderSend, Receive, RelaySend, RelayEnd, vars
  <2>. QED
    BY <2>1 DEF Contract!vars
<1>2. CASE Write
  BY <1>2, WriteEmits
<1>3. CASE Stop
  <2>1. handler = "write" /\ handler' = "aborted" /\ UNCHANGED <<out, sealed, gone>>
    BY <1>3 DEF Stop
  <2>. QED
    BY <2>1 DEF Contract!Next, Contract!Close
<1>4. CASE End
  BY <1>4, EndCloses
<1>5. CASE ClientLeaves
  <2>1. ~gone /\ gone' = TRUE /\ UNCHANGED <<out, sealed, handler>>
    BY <1>5 DEF ClientLeaves
  <2>. QED
    BY <2>1 DEF Contract!Next, Contract!Leave
<1>. QED
  BY <1>1, <1>2, <1>3, <1>4, <1>5 DEF Next, Handler

\* The pipeline of three goroutines and two bounded channels implements the
\* contract of a streamed reply, for any length of stream and any capacity: the
\* frames in order, each once, and complete only when finished.
THEOREM ImplementsContract == Spec => ContractSpec
<1>1. Init => Contract!Init
  BY DEF Init, Contract!Init
<1>. QED
  BY <1>1, RelayAlways, StepMapped, PTL DEF Spec, ContractSpec, Contract!Spec
===============================================================================
