---------------------------- MODULE StreamContract ----------------------------
(***************************************************************************)
(* What a streamed reply promises the client: the frames of the upstream's *)
(* stream, in order, none twice and none left out; a finish frame only     *)
(* after the last of them; and an end, in which a reply counts as complete *)
(* only if it was finished or the client is not there any more.            *)
(***************************************************************************)
EXTENDS Naturals, Sequences

CONSTANT Frames      \* the longest stream: the alert, if any, and the upstream's items

VARIABLES out,       \* frames the client was sent
          finished,  \* the finish frame was sent
          gone,      \* the client has left
          outcome    \* "open", "complete" or "aborted"

vars == <<out, finished, gone, outcome>>

Init == out = <<>> /\ finished = FALSE /\ gone = FALSE /\ outcome = "open"

Emit == /\ outcome = "open" /\ ~finished /\ Len(out) < Len(Frames)
        /\ out' = Append(out, Frames[Len(out) + 1])
        /\ UNCHANGED <<finished, gone, outcome>>

Finish == /\ outcome = "open" /\ ~finished
          /\ finished' = TRUE
          /\ UNCHANGED <<out, gone, outcome>>

Leave == ~gone /\ gone' = TRUE /\ UNCHANGED <<out, finished, outcome>>

Close(how) == /\ outcome = "open"
              /\ how = "complete" => finished \/ gone
              /\ outcome' = how
              /\ UNCHANGED <<out, finished, gone>>

Next == Emit \/ Finish \/ Leave \/ Close("complete") \/ Close("aborted")

Spec == Init /\ [][Next]_vars
===============================================================================
