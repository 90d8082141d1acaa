------------------------------ MODULE MCDialects ------------------------------
(***************************************************************************)
(* The two directions of internal/wire for TLC.  They share nothing, so a  *)
(* behaviour is one of a reply or one of a conversation's requests.        *)
(***************************************************************************)
EXTENDS StreamDialects, RequestDialects

VARIABLE part   \* "reply" or "requests"

allVars == <<vars, requestVars, part>>

\* what the part that stays idle is fixed to
NoReply == /\ from = "" /\ to = "" /\ mode = "" /\ n = 0 /\ said = <<>> /\ rd = <<>>
           /\ x = <<>> /\ sent = <<>> /\ noted = {} /\ told = ""
NoRequest == /\ client = "" /\ upstream = "" /\ ask = <<>> /\ hist = <<>>
             /\ req = Unsent /\ upto = 0

MCInit == \/ part = "reply" /\ Init /\ NoRequest
          \/ part = "requests" /\ RequestInit /\ NoReply
MCNext == \/ part = "reply" /\ Next /\ UNCHANGED <<requestVars, part>>
          \/ part = "requests" /\ RequestNext /\ UNCHANGED <<vars, part>>
MCSpec == MCInit /\ [][MCNext]_allVars
===============================================================================
