------------------------------- MODULE Failover -------------------------------
(***************************************************************************)
(* How handleCore walks the candidates of one request                      *)
(* (internal/proxy/proxy.go): which it skips, how often it sends to each,  *)
(* what it makes of every kind of answer, what it replies and what it      *)
(* records.  The upstreams answer as they like; the client may leave.      *)
(***************************************************************************)
EXTENDS FallbackChain, FiniteSets

CONSTANTS Setups    \* the requests and settings considered

\* The other members of a pool are models of the provider of the one chosen
\* (proxy.go:581), and none is listed twice (poolaffinity.go:60, 217).
ASSUME FailoverAssumption ==
    /\ Setups \subseteq Setup
    /\ \A s \in Setups : \A i \in DOMAIN s.rest :
          /\ ProviderOf[s.rest[i]] = ProviderOf[s.primary] /\ s.rest[i] # s.primary
          /\ \A j \in 1..(i - 1) : s.rest[j] # s.rest[i]

VARIABLES setup, chain,
          pc,        \* "next" candidate, "attempt" in flight, "relay", "done"
          pos,       \* index of the candidate at hand
          attempt,   \* attempt, maxAttempts, droppedParam, cavemanRescued, passthrough
          status,    \* candStatus: has this candidate responded at all
          lastErr,   \* whose failure was noted last
          primaryErr,\* whose failure was noted as the requested provider's
          soft,      \* softErrs is not empty
          gone,      \* the client has left
          reply,     \* what the client was sent
          tried,     \* history: candidates the request was sent to, in order
          rows       \* the traces: one record for each AddTrace, in order

vars == <<setup, chain, pc, pos, attempt, status, lastErr, primaryErr, soft, gone, reply,
          tried, rows>>

request == <<setup, chain>>

Fresh == [n |-> 0, max |-> 2, dropped |-> FALSE, rescued |-> FALSE, passth |-> FALSE]

Blind == "blind"   \* the reason seeded for a primary that cannot see
NoErr == "none"

Init == /\ setup \in Setups
        /\ chain = Chain(setup)
        /\ pc = "next" /\ pos = 1
        /\ attempt = Fresh /\ status = FALSE
        /\ lastErr = IF BlindPrimary(setup) THEN Blind ELSE NoErr
        /\ primaryErr = NoErr
        /\ soft = FALSE /\ gone = FALSE
        /\ reply = "none"
        /\ tried = <<>> /\ rows = <<>>

c == chain[pos]
Home == ProviderOf[setup.primary]

\* AddTrace: the target it is filed under, whether it has an HTTP status, of
\* which kind, what its Err says and whether its Note mentions the fallback
Row(target, stat, err, note) == [target |-> target, stat |-> stat, err |-> err, note |-> note]

-------------------------------------------------------------------------------
\* recordAttemptFailure, then the next candidate
PassOver(stat) ==
    /\ rows' = Append(rows, Row(c.target, IF stat THEN "error" ELSE "none", "failed", TRUE))
    /\ pos' = pos + 1
    /\ pc' = "next"
    /\ attempt' = Fresh /\ status' = FALSE

\* a candidate that cannot see, once the vision chain is in play
Unseen == VisionActive(chain) /\ ~c.vision /\ c.target \notin setup.sees

\* dialectCarriesImages: the dialects in which a picture is sent on; and those in
\* which one that a client sends is read
Carrying == {"openai", "responses"}
Reading  == {"openai"}

\* The client's own body is sent, the model renamed.  Bulky results compressed to
\* fit the window, or because the caller asked for it, would be lost in it.
Passthrough(squeezed) ==
    /\ setup.client = DialectOf[c.target] /\ c.target \notin setup.rewritten /\ ~squeezed
    /\ c.failover => setup.image

\* faulty: only the hops of the vision chain are looked at
FlattensVision(squeezed) ==
    setup.image /\ c.vision /\ ~Passthrough(squeezed) /\ DialectOf[c.target] \notin Carrying
\* a hop whose dialect would flatten the picture
Flattens(squeezed) ==
    setup.image /\ c.failover /\ ~Passthrough(squeezed) /\ DialectOf[c.target] \notin Carrying

Skip == /\ pc = "next" /\ pos <= Len(chain)
        /\ Unseen \/ \E squeezed \in BOOLEAN : Flattens(squeezed)
        /\ lastErr' = c.target /\ soft' = TRUE
        /\ PassOver(FALSE)
        /\ UNCHANGED <<request, primaryErr, gone, reply, tried>>

\* the request goes out once more
Sending == pc' = "attempt" /\ tried' = Append(tried, c)

\* Compression to fit the window is noted among the soft errors, the caller's is not.
Start == /\ pc = "next" /\ pos <= Len(chain) /\ ~Unseen
         /\ \E squeezed \in BOOLEAN, noted \in BOOLEAN :
               /\ ~Flattens(squeezed)
               /\ noted => squeezed
               /\ attempt' = [attempt EXCEPT !.passth = Passthrough(squeezed)]
               /\ soft' = (soft \/ noted)
         /\ Sending
         /\ UNCHANGED <<request, pos, status, lastErr, primaryErr, gone, reply, rows>>

\* the deferred AddTrace of the request itself
Finish(to, row) == /\ reply' = to /\ pc' = "done"
                   /\ rows' = Append(rows, row)

\* the rules do not load or the outbound body cannot be built: 500
Unbuildable == /\ pc = "next" /\ pos <= Len(chain) /\ ~Unseen
               /\ Finish("500", Row(setup.primary, "error", "error", FALSE))
               /\ UNCHANGED <<request, pos, attempt, status, lastErr, primaryErr, soft, gone,
                              tried>>

-------------------------------------------------------------------------------
\* primaryErr keeps the requested provider's first failure
Noted == /\ lastErr' = c.target
         /\ primaryErr' = IF primaryErr = NoErr /\ ProviderOf[c.target] = Home
                            THEN c.target ELSE primaryErr

More == attempt.n + 1 < attempt.max

\* one attempt of the two is spent
Retry(stat) == /\ More
               /\ attempt' = [attempt EXCEPT !.n = @ + 1]
               /\ status' = stat
               /\ Sending
               /\ UNCHANGED <<pos, rows>>

\* connection refused, timeout, TLS: no response
Transport == /\ pc = "attempt" /\ ~gone
             /\ Noted
             /\ \/ Retry(status)
                \/ ~More /\ PassOver(status) /\ UNCHANGED tried
             /\ UNCHANGED <<request, soft, gone, reply>>

\* ... because the client left: nobody to reply to
Abandon == /\ pc = "attempt" /\ gone
           /\ Noted
           /\ Finish("none", Row(setup.primary, "none", "none", FALSE))
           /\ UNCHANGED <<request, pos, attempt, status, soft, gone, tried>>

\* 408, 429, 5xx
Transient == /\ pc = "attempt"
             /\ Noted /\ soft' = TRUE
             /\ \/ Retry(TRUE)
                \/ ~More /\ PassOver(TRUE) /\ UNCHANGED tried
             /\ UNCHANGED <<request, gone, reply>>

\* out of quota, context overflow, the picture refused in known words
Unserved == /\ pc = "attempt"
            /\ Noted /\ soft' = TRUE
            /\ PassOver(TRUE)
            /\ UNCHANGED <<request, gone, reply, tried>>

\* any other 4xx on a picture
ImageRejected == /\ pc = "attempt" /\ setup.image
                 /\ lastErr' = c.target /\ soft' = TRUE
                 /\ PassOver(TRUE)
                 /\ UNCHANGED <<request, primaryErr, gone, reply, tried>>

\* an extra attempt that does not eat into the transient budget
Again(mark) == /\ attempt' = [mark EXCEPT !.n = @ + 1, !.max = @ + 1]
               /\ soft' = TRUE
               /\ Sending
               /\ UNCHANGED <<request, pos, status, lastErr, primaryErr, gone, reply, rows>>

\* context overflow: compress what is bulky, if anything is, and resend.  The body
\* is built anew, also where the client's own was sent.
Rescue == /\ pc = "attempt" /\ ~attempt.rescued
          /\ Again([attempt EXCEPT !.rescued = TRUE])

\* a parameter this model refuses is dropped
DropParam == /\ pc = "attempt" /\ ~attempt.dropped
             /\ Again([attempt EXCEPT !.dropped = TRUE])

\* a response to relay: a completion, or a 4xx of the caller's own making
Respond(answer) ==
    /\ pc = "attempt" /\ (answer = "4xx" => ~setup.image)
    /\ reply' = answer
    /\ pc' = "relay"
    /\ UNCHANGED <<request, pos, attempt, status, lastErr, primaryErr, soft, gone, tried, rows>>

-------------------------------------------------------------------------------
\* faulty: a failover is recorded like a recovery
ServedErrSame == IF soft THEN "recovered" ELSE "none"
\* what the trace of a served request says of the failures before it
ServedErr == IF c.failover THEN "failover_from"
             ELSE IF c.sibling THEN "pool_failover"
             ELSE IF soft THEN "recovered" ELSE "none"

\* Passed through, the body is relayed as far as it comes.  Translated, one that
\* breaks off shows: in a stream after the 200, otherwise as a 502, as does one
\* that does not parse.
Relay == /\ pc = "relay"
         /\ \/ reply = "200" /\ Finish("200", Row(c.target, "ok", ServedErr, FALSE))
            \/ reply = "4xx" /\ Finish("4xx", Row(c.target, "error", "error", FALSE))
            \/ /\ reply = "200" /\ ~attempt.passth /\ setup.stream
               /\ Finish("broken", Row(c.target, "ok", "aborted", FALSE))
            \/ /\ reply = "200" /\ ~attempt.passth /\ ~setup.stream
               /\ Finish("502", Row(c.target, "error", "error", FALSE))
         /\ UNCHANGED <<request, pos, attempt, status, lastErr, primaryErr, soft, gone, tried>>

\* faulty: waits for a soft error to report
AllFailedSoft == /\ pc = "next" /\ pos > Len(chain) /\ soft
                 /\ Finish("502", Row(setup.primary, "error", "error", FALSE))
                 /\ UNCHANGED <<request, pos, attempt, status, lastErr, primaryErr, soft, gone,
                                tried>>
AllFailed == /\ pc = "next" /\ pos > Len(chain)
             /\ Finish("502", Row(setup.primary, "error", "error", FALSE))
             /\ UNCHANGED <<request, pos, attempt, status, lastErr, primaryErr, soft, gone, tried>>

ClientLeaves == /\ pc # "done" /\ ~gone
                /\ gone' = TRUE
                /\ UNCHANGED <<request, pc, pos, attempt, status, lastErr, primaryErr, soft,
                               reply, tried, rows>>

\* what the proxy does by itself, and what it waits for an upstream to let it do
Local == Skip \/ Start \/ Unbuildable \/ AllFailed

Upstream == \/ Transport \/ Abandon \/ Transient \/ Unserved \/ ImageRejected
            \/ Rescue \/ DropParam
            \/ \E answer \in {"200", "4xx"} : Respond(answer)
            \/ Relay

Next == Local \/ Upstream \/ ClientLeaves

Spec == Init /\ [][Next]_vars

\* The proxy goes on by itself.  An upstream call has no deadline by default, so
\* an answer may never come; but the call carries the client's context and ends
\* when the client leaves.
FairSpec == Spec /\ WF_vars(Local) /\ WF_vars(gone /\ Upstream)

-------------------------------------------------------------------------------
Errors == Target \cup {Blind, NoErr}

\* Every variable has its type, and no candidate is sent the request more than
\* four times: one retry, one dropped parameter, one compression.
TypeOK == /\ setup \in Setups
          /\ pc \in {"next", "attempt", "relay", "done"}
          /\ pos \in 1..(Len(chain) + 1)
          /\ attempt.n \in 0..3 /\ attempt.max \in 2..4
          /\ {attempt.dropped, attempt.rescued, attempt.passth, status, soft, gone} \subseteq BOOLEAN
          /\ {lastErr, primaryErr} \subseteq Errors
          /\ reply \in {"none", "200", "4xx", "500", "502", "broken"}
          /\ \A k \in DOMAIN tried : \E i \in DOMAIN chain : i <= pos /\ tried[k] = chain[i]
          /\ \A i \in DOMAIN chain : Cardinality({k \in DOMAIN tried : tried[k] = chain[i]}) <= 4

\* the body in flight has the picture: it is the client's own, or was built from
\* what was read of it in a dialect that has pictures
Whole == \/ attempt.passth /\ ~attempt.rescued
         \/ setup.client \in Reading /\ DialectOf[c.target] \in Carrying

\* visionfallback.go:174, proxy.go:641: once a vision chain is in play only a
\* model that sees is sent the picture, whatever failed before.  A failover hop is
\* sent it whole, however often and in whatever form it is asked; but the question
\* of a client whose pictures are not read goes out blind where the hop's dialect
\* would have carried one, or once its body was built anew to fit the window.
PictureSafe ==
    /\ \A k \in DOMAIN tried :
          VisionActive(chain) => tried[k].vision \/ tried[k].target \in setup.sees
    /\ pc = "attempt" /\ setup.image /\ c.failover =>
          \/ Whole
          \/ /\ setup.client \notin Reading
             /\ attempt.rescued \/ DialectOf[c.target] \in Carrying

\* proxy.go:584: fallback pinned off keeps the request on its provider, and a
\* chain hop goes only to targets offered to this caller or to the providers'
\* own fallbacks.
StaysGranted ==
    \A k \in DOMAIN tried :
        \/ ProviderOf[tried[k].target] = Home
        \/ /\ ~setup.noFallback
           /\ tried[k].target \in setup.offered \cup {setup.fallbackOf[q] : q \in Provider}

\* proxy.go:575: the other cards with the same weights come first.  A text request
\* leaves its provider only after every sibling was tried.
SiblingsFirst ==
    \A k \in DOMAIN tried :
        ~setup.image /\ ProviderOf[tried[k].target] # Home
            => \A i \in DOMAIN setup.rest : \E j \in 1..k : tried[j].target = setup.rest[i]

\* globalfallback.go:46: a target is one candidate.  Once the request has moved
\* past it, it is not sent there again.
NoSecondChance ==
    \A j, k \in DOMAIN tried :
        j < k /\ tried[j].target = tried[k].target
            => \A i \in j..k : tried[i].target = tried[k].target

\* rollupUsage on one trace, and what the smart router counts against a target
Failed(row) == row.stat = "error" \/ (row.stat = "ok" /\ row.err \notin {"none", "failover_from"})
Fellback(row) == row.note
Count(Op(_), t) == Cardinality({i \in DOMAIN rows : rows[i].target = t /\ Op(rows[i])})
Bad(t) == IF Count(Failed, t) >= Count(Fellback, t) THEN Count(Failed, t) ELSE Count(Fellback, t)

\* proxy.go:994, store.go:903: a candidate that did not serve is charged with it
\* under its own name, one the request never reached is not, and one that served
\* as a failover hop is not charged with its predecessors' failures, unless the
\* reply it began broke off, whoever ended it, in a translated stream.
HealthFair ==
    /\ \A i \in DOMAIN chain : i < pos => Bad(chain[i].target) >= 1
    /\ pc = "done" /\ pos <= Len(chain) =>
         /\ \A i \in DOMAIN chain : i > pos /\ chain[i].target # setup.primary
                                      => Bad(chain[i].target) = 0
         /\ reply = "200" /\ c.failover => Bad(c.target) = 0

\* proxy.go:1812: nothing is left unguarded without a ceiling on the calls.  Every
\* request ends, replied to unless the client left, or it waits for one upstream
\* with a client that waits too.
Answered == \/ <>(pc = "done" /\ (gone \/ reply # "none"))
            \/ <>[](pc \in {"attempt", "relay"} /\ ~gone)


-------------------------------------------------------------------------------
(* What the comments say and the code does not do.                         *)

\* the reason the failover banner quotes
BannerReason == IF primaryErr # NoErr THEN primaryErr ELSE lastErr

\* proxy.go:1037: the banner must pair the primary's name with the primary's own
\* reason.
BannerOwnReason ==
    pc = "relay" /\ reply = "200" /\ c.failover
        => BannerReason \in {Blind} \cup {t \in Target : ProviderOf[t] = Home}
===============================================================================
