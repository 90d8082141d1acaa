# cfrproxy in TLA+

cfrproxy is a proxy for language models. Clients (harnesses, chat tools) speak one of
four dialects to it; it picks a provider and a model, translates if it has to, fails
over when the upstream cannot serve, streams the reply back and keeps records. Much of
its code exists to protect one resource: the KV cache of local llama.cpp instances. A
conversation that hops to another instance costs tens of seconds.

This directory models the parts of it that are hard to test: what concurrent requests do
to shared counters and bindings, what the fallback chain does after a sequence of
failures, what the store's memory shows while others write, what a crash leaves of the
pins, whether the smart router keeps a conversation where its cache is, whether the
goroutines of a stream all end, whether a reply or a conversation survives the change of
dialect, and what the smaller services do when a step fails, a file moves or a listing ages.

## The system

| part | source | state | operations |
|---|---|---|---|
| Pool dispatch, prefix affinity | `internal/proxy/poolaffinity.go`, `modelpool.go` | in-flight counters; bindings of conversations and static heads; load snapshots | route, count, rebind; background probe |
| Sticky routes and pins | `routesticky.go` | table of pins with their times, dirty flag, file | get, put, evict, flush, load |
| Store memory cache | `internal/store/store.go` | copies of providers, settings, transforms, endpoints; last seen `data_version`; time of the last probe | look-ups, writes, reload |
| Fallback chain | `proxy.go` 573-645, `globalfallback.go`, `visionfallback.go` | none: built per request | append siblings, hops, vision, global |
| Attempt loop | `proxy.go` 647-1010 | locals of one request; traces | skip, send, retry, rescue, give up |
| Stream relay | `proxy.go` 1085-1119, `internal/wire` | two channels, four goroutines, the client | parse, relay, write, drain |
| Wire dialects | `internal/wire` | a reader's and a writer's bookkeeping; none between requests | read and write replies, parse and build requests |
| Traces, usage, health | `store.go` 865-980, `smartroute.go` 500-650 | traces, daily totals | record, roll up, judge |
| Smart router | `smartroute.go`, `autoroute.go` | running view, slots, health, prefill rates, pins, counted tokens | classify, describe, judge, select, pin, seed the losers |
| KVX restore and seed | `kvxrestore.go`, `kvxseed.go` | debounce table, one seed slot; the daemon's artifacts | restore before, seed after |
| Models and resolution | `models.go`, `modelcontext.go`, `endpoint.go` | listings with a minute to live; what upstreams declared of their models | scan, resolve, list, advertise |
| Fusion, round table | `fusion.go`, `mcp.go`, `websearch.go` | drafts, answers, tokens and look-ups of one run | fan out, judge; two rounds with tools, moderate |
| Web search tool | `websearchtool.go` | one request's searches | ask, search, answer |
| Compression, routing, caveman | `compress.go`, `autoroute.go`, `caveman.go` | summaries, pins of the classic router | cut, summarise, attach, route, shorten |
| Skills | `store/skills.go`, `skillgroups.go`, `proxy/skills.go` | rows of skills, assignments, groups | rescan, assign, resolve, serve |
| Small tables | `proxy.go` 1940-2003, `globalfallback.go`, `store/admin.go`, `cachelog.go` | seats of main agents, announced failovers, verified administrators, the cache log's size | decide, announce, verify, write and rotate |
| Share endpoints, web API, OAuth, CLI, TUI | the rest | rows of the store | management |

How they meet: `handleCore` is the centre. It reads settings through the store's memory,
asks the pool for a member, builds the chain, walks it, streams the winner's reply, and
in its deferred function files the trace from which usage and health are derived. Handlers
run concurrently and share the counters, the binding tables, the store's memory and the
database. Beside them run the ticker that flushes the pins, background probes, and, in
another process, the command line tool that writes the same database.

What is hard about each, and what makes it correct:

* **Pool.** Counters are read one by one, the bindings with one locked call each, so
  every pair of steps can be cut by another request. Correct: each counter is exact on
  every path, and a conversation comes back to the instance that holds its cache.
* **Pins.** The file is written outside the lock, flushes fail, the process dies.
  Correct: what was saved survives, what is not saved is known to be dirty, the bound
  holds and only the oldest go.
* **Store cache.** Reloads overlap, the lock covers the assignment only, probes are
  throttled, queries fail. Correct: a stale row is refreshed in the end.
* **Chain and loop.** Five kinds of failure, three kinds of extra attempt, two chains
  and a picture. Correct: no blind model gets a picture, no request leaves its grant,
  nothing is tried twice, everybody is charged for what he did and everybody is answered.
* **Smart router.** Three caches of facts, each with its own age; a pin read before the
  grading call and written after it; an estimate that undercounts. Correct: nobody is sent
  where he cannot be served, a conversation moves only off a model that became unusable,
  and a head does not stay in the cloud because no local runtime has seen it.
* **Stream.** Two bounded channels and an early stop. Correct: frames in order, each
  once, no goroutine left behind.
* **Dialects.** Five kinds of upstream, four of client, each with its own idea of a block, an
  item, a role, a reason and a count. Correct: nothing is lost, doubled, reordered or mixed
  up on the way, blocks open and close in pairs, a cut reply is not a finished one, and a
  conversation that grows keeps the prefix the upstream has cached.
* **Catalog.** Look-ups scan on their own and store over one another, scans fail. Correct:
  a listing is as old as its time to live allows, and what is advertised is what routing
  does.
* **Skills.** Files move under the index, and every request runs several statements.
  Correct: assignments outlive a move, and a fetch finds a copy while there is one.
* **Panels, search.** Goroutines that write slots others read; calls that fail one by one.
  Correct: what one model said reaches the next one as he said it, under his name, and a
  failure loses what failed and no more.
* **Preparation.** A cut in a conversation that has calls and results, and more that is
  attached to what is left of it. Correct: no result without its call, no gap.
* **Tables.** Bounds, ages, and answers that outlive what they were derived from. Correct:
  they answer for what is the case now.

`PROJECT.json` lists the hazards one by one at their lines, also those no property covers
yet.

## The modules

| module | what it is |
|---|---|
| `PoolLeases` | abstract: a dispatched request holds a lease on one member, the load of a member is its leases |
| `PoolRouting` | the pool: look-ups, cold placement, pins, dispatch, failover, rebinding |
| `PoolLoad` | the load snapshot of a provider and the probe that makes it |
| `PoolRouting_proofs` | type correctness, exact counters, refinement of `PoolLeases`; the conversation returns to its instance |
| `PinTable_proofs` | type correctness, what is saved stays, the flush and the bound |
| `StoreCache_proofs` | type correctness, all reasons for a stale row |
| `Failover_proofs` | facts on the chain; type correctness and the properties of the walk |
| `SmartRouter_proofs` | placed turns fit, a pinned conversation stays; type correctness |
| `StreamRelay_proofs` | type correctness, settled usage, refinement of `StreamContract` |
| `Services_proofs` | the properties of the six service modules and of `PoolLoad` |
| `Dialects_proofs` | a reply is faithful, its end, usage and blocks; nothing of a request is lost, its thinking, results and prefix |
| `PinTable` | the table of pins, its eviction, flush, crash and restart |
| `StoreCache` | the store's memory and its refreshes |
| `FallbackChain` | the list of candidates, as operators |
| `Failover` | the walk along that list; extends `FallbackChain` |
| `KvxSeed` | background seeds of static heads: window, slot, answers of the daemon |
| `SmartRouter` | the smart router's turns over cached facts; extends `KvxSeed` |
| `StreamContract` | abstract: what a streamed reply promises |
| `StreamRelay` | the goroutines and channels that implement it |
| `StreamDialects` | a reply: five readers, four writers, whole replies, raw ones |
| `RequestDialects` | a conversation's requests: four parsers, five builders |
| `Catalog` | listings, resolution of names, what is advertised |
| `Skills` | the index of skills, its rescan, assignments, the fetch |
| `Panels` | a fusion and the round table, with a panelist's tools |
| `WebSearch` | the emulation of the server-side search tool |
| `Preparation` | compression, drafts and briefings, the classic router, shortening |
| `Tables` | seats, notices, verified administrators, the cache log |
| `MCPoolRouting`, `MCStoreCache`, `MCPinTable`, `MCFailover`, `MCSmartRouter` | the instances TLC checks |
| `MCSmartBounded` | the smart router for so many turns and outside changes |
| `MCDialects` | both directions of the dialects in one run |
| `MCServices` | the six service modules and `PoolLoad` in one run, one of them per behaviour |

### PoolRouting

One action is one access to shared state by one handler. `Arrive` reads the setting and
keeps it for the whole request, as `poolSpecFor` does. `LookupConv` and `LookupPrefix` are
the two `boundMember` calls; `ScanOne` reads one counter (the loop of `pickPoolMember`, also
inside `poolDeeperThanSiblings` and `pickColdMember`, whose scores by a load snapshot are
the `weight` of the scan); `ReadNear` and `ReadFar` are the two further reads of
`poolDeeperThanSiblings`. `PinConv`, `SeePrefix` and `PinPrefix` are the three calls at
`poolaffinity.go:253`: the look and the put of the prefix are separate, as in the code.
`Dispatch` raises the counter and fixes the siblings; `TryNext` moves along them and at
last `Elsewhere`, which stands for the chain behind the pool. `Answer` ends the walk with a
completion or a client error, and `RebindConv`, `RebindPrefix` are `rebind`. `Relayed` and
`GiveUp` run the deferred decrement.

`home` and `clean` are history. `home[c]` is the member that last answered a turn of `c`
that no other turn of `c` overlapped; it is forgotten when the binding is (`Forget`), when
turns overlap, or when the setting drops the member or switches affinity off.

A binding has no clock here: `Forget` may drop one at any time, which covers the two-hour
life and an eviction. A request with neither system text nor any message has no key, is never
bound and takes the cold path; such requests are left out. A load snapshot is any of `Loads`.

### PoolLoad

Where such a snapshot comes from. `PlaceCold` is `pickColdMember` with `poolLoad` in it: it picks by
what is there and starts a probe when that is old. `AskRunning`, `AskSlots` and `StoreSnapshot` are
the probe, between whose questions instances load, leave and work (`Shift`), and pools of the same
provider place by the old picture. A snapshot's age counts from the start of its probe, as `at` does. An
instance has one slot. `lasted` is history, how long an instance has been as it is; `PlacedBySight` bounds by it
how wrong a placement may be.

### StoreCache

A row is the number of writes made to it. `Save`, `SetSetting` with `Patch`, and `Toggle` are the three
ways the code writes; `External` is another process, the only one that moves
`data_version` as this connection sees it. `ReadTable` is one query of `reload`, `Install`
the assignment under the lock, `ReadFails` an error from any query or a key that does not
decrypt. `Lookup` ... `Record` are `maybeReload`, split where the code is: throttle, PRAGMA,
comparison, reload, recording of the version seen *before* the reload.

`doubt` is history: the rows a toggle, a failed reload or a crossed refresh may have left
stale. `StaleExplained` says that these are all the reasons there are.

### PinTable

Pins carry the time they were put; `Key` and `Model` stand for fingerprints and models. A
full table drops the oldest share (a quarter in the code, `Share` here), with ties left open as
the sort leaves them. The flush is three steps: copy and clear the flag under the lock,
write the temporary file, rename. `FlushFails` may end it at either of the last two;
`Crash` at any. `fate` follows the last pin of each key: new, copied, saved, lost.

### FallbackChain and Failover

`FallbackChain` builds the list from a `Setup`. Which model sees, resolves and is allowed are
inputs, since these are answers of other parts (`Catalog` has the gate and the look-up), and stay
what they are for the request. So are the dialects of the client and of each target, whether the reply is
streamed, and for which targets the body is no longer the client's (rules, documents, skills, a router).
`Extend` is the loop both chains share; `Ordered` puts the vision chain in front of a
primary that cannot see; `Chain` adds the global chain unless the request is pinned.

`Failover` is `handleCore` from there: `Skip` (the gate and the flattening rule), `Start`,
the answers (`Transport`, `Abandon`, `Transient`, `Unserved`, `ImageRejected`, `Rescue`,
`DropParam`, `Respond`), `Relay`, `AllFailed`, `Unbuildable`. The upstream chooses the
answer. A candidate is sent the client's own body (`Passthrough`) or one built from what was read of
it. The second has the picture only if the client's dialect is one whose pictures are read (`Reading`) and the
target's one that has pictures (`Carrying`); and `Rescue` builds a body anew whatever was sent first.
`PictureSafe` says which attempts of a hop have the picture, and names the two in which the code sends the
question without it. Whether tool results were compressed to fit the window, which also makes a
new body and may be noted, is open at each `Start`. `Relay` ends a reply in
four ways: whole, as the caller's own error, broken off in a translated stream after the 200 (the trace is then
charged to the target, also when it was the client who left), or as a 502 for a body that does not
come or parse. A body passed through raw ends well however far it came. `rows` are the traces:
target, kind of status, kind of error text, mention of the fallback; `Bad` is what `rollupUsage`
and the smart router make of them.

### SmartRouter and KvxSeed

A turn takes three steps, cut where the code calls out. `Begin` is `smartRoute` up to the
grading call: the size is the larger of the estimate and the provider's count of the last
turn, the pin and its tier are read, a role overrides the tier and drops a pin of another
one. `Decide` is the rest: `smartSelect` with its fast path, the pin, `rememberPrefix`,
`seedColdLosers`, and the bindings the dispatch makes. It is one step, so probes of two
decisions do not interleave: what they could disagree about is what lapses and shifts
between two decisions can change. `Finish` is the deferred function: the provider's count is
noted and a head that missed is seeded.

`view` is `p.running` and `health` is `p.health`. A snapshot has no clock here:
`ViewLapses`, `SlotsLapse` and `HealthLapses` may end one at any time, as `PinExpires` and
`BindingExpires` end a pin or a binding. `Shift` changes what the next probe would find:
runtimes load, fill or leave, a provider falls silent, traces make a model look sick, a
listing drops it. A candidate's facts are operators over these (`Local`, `Warm`, `Busy`,
`PrefixKnown`, `Covered`); its verdict is `Soft`, the numbers of `judge`.

Sizes are in one abstract unit; `Est` undercounts as `estTokens` does, `Need` is the
headroom of a tenth. The prefill rate is fixed, so that the budget of seconds is a size.
The grade is an input: a classifier may answer anything. Sticky routing is on. A provider
is in `LlamaSwap` or it is cloud; one of type ollama, whose warmth is never known, is left
out. A pool is the sequence of its members, of which the first is probed and seeded. The
file of the pins is `PinTable`'s business.

`KvxSeed` follows one goroutine per queued key: `AutoSeed` tests and stores the key,
`TakeSlot` gets the one slot, and the daemon seeds, declines or fails. The daemon, kvxd, is
outside of the repository; it wakes no runtime, so `Seeded` takes resident ones.

History: `last` is where a conversation's last turn went, if no other turn of it was in
flight (`alone`); `billed` is the count known when a turn began; `yielded` says that a turn
left a warm local model for its cold prefill.

### StreamRelay

`Parse` and `ReaderSend` are the reader, `Receive`, `RelaySend`, `RelayEnd` the relay,
`Write`, `Stop`, `End` the handler inside `WriteOpenAIStream`, `Drain` the fourth
goroutine. A failed write is remembered (`broken`) and noticed at the next delta, as in
the code. Deltas are numbers; the banner is 0.

### StreamDialects

The upstream's pieces of text, thought and arguments are numbered; the last fragment of a
complete argument text is negative, a damaged one is 0, so that "parses as JSON" is `Valid`.
Each action is an event of the upstream, read by its reader and written by the client's
writer in one step, since `StreamRelay` has the channels between: `SayText`, `SayThought`,
`StartCall`, `SayArgs`, `SayCall` (Ollama's, in one piece), `EndCall` (Command Code's closing event
with its second copy of the arguments), `SayWhy`, `SayError`; `Close` is the end of the body and
`Cut` one that breaks off. `x` is the writer's bookkeeping: `WriteAnthropic` with its held text
(`HoldOrEmit`), `WriteResponses` with its items, `WriteOllama` with the calls it keeps for the
end. `rd` is the reader's: the repaired copy of arguments, the finish, the counts. In mode
`whole` the reply is parsed (`Reply`) and rebuilt (`Build`), in mode `raw` it is passed on and
only its usage lines are read (`Scanned`).

An upstream says what its API lets it say: Anthropic finishes a block before the next, OpenAI
numbers its calls, an argument is unfinished only in a reply cut at its length. Parallel calls
without an index (the OpenAI reader merges them at 0) are left out.

### RequestDialects

The client's conversation grows message by message and is sent whole each turn. `Parse` folds
it into the normal form with one `Take...` per dialect; `BuildMsg` and `Think` make the request.
`TakeAnthropic` is the one with state: system text before the first turn is hoisted, later
reminders wait for the next user turn, results go before the text of their message, and what
still waits goes to the last message (`PlaceTrailing`). `Refuses` is Command Code's builder,
which gives no request rather than one without its picture.

### Catalog

A request resolves its model and, if it carries a picture, asks whether candidates see.
`BeginResolve` is `ResolveModel` up to its first listing, on the settings it saw at that moment, which
it keeps until it is answered (`EndRequest`); `Consult`, or `StartScan` ... `StoreScan`, is one provider's
`ModelsCached`, and `Decided` what the name leads to with that listing in hand. `AskSight` is
`visionCapableFor`: what the upstream said, then what the name says, and where neither says anything a
`ModelsCached` of its own, with the settings of the request's beginning, after which `LookAgain` answers. It
may come as long after the resolving as an earlier attempt takes (`Tick` passes while a request has
its model). Scans of several requests overlap, each stores its own result, an empty one when it
failed, through the filter its request began with. `Lookups` are the requests with a candidate
of their own; each is used once. The scans `AllModelIDs` starts for a listing are as those of a
look-up. The gate reads settings and what was learned in one step; the code reads them one after the
other, without a call in between. Names that match loosely are constants
(`Folds`, `Within`, `Blind`); of a name no upstream lists nothing is learned, and names of providers there
are not are left out.

`Advertised` and `CapableFor` are what the catalogue says of a model's eyes and what the gate does;
`LengthFor` a model's window from its four sources, `ListedWindow` the one the public listing gives,
`ShareWindow` the one a share announces, `LimitFor` the one a request is held to; `Listed`,
`ShareLists` and `ModelAllowed` the ids. `AdvertisedHonest` is about steps: when the gate answers it
answers what the listing says then, unless the rules were saved while it scanned; and when a name
that is listed is resolved, it leads to its model, with its window. It leaves out three things the
code does not do: pinned models, which are listed whatever the filter says; bare names at a share, for which it announces its
cap whatever they stand for; and a window changed while the request looked up (see the findings). `listedAgo` and `keptAgo`
are history: how long ago the upstream listed these ids, or did not answer, and how long ago the
provider, or a request then running, had this filter. A request may run for any time, so
`ListingFresh` cannot promise that a listing obeys a filter of the last minute.

### Skills

Places, names and rows are kept apart: `files` says which name the file at a place gives, or that it
cannot be read, `skills` which row says so. `ScanVisit` is one file of the walk with its upsert, so that
files move before and behind it; `ScanRead` is the query after it, `ScanKeep`, `ScanRepoint`,
`ScanDelete` the statements for the rows not seen, one at a time. A file that moves to a place the walk has
passed is not met: its row goes and what was assigned through it, and `MoveKept` speaks of the names of
which the walk met a copy. Admin requests queue their statements in `todo`; `page` is what the
browser shows, and what it saves may be old. `FetchResolve` picks an entry and counts the load,
`FetchRead` reads its file; where that fails `FetchLook` searches for another copy that is there, which
`FetchAgain` reads, or answers that there is none. What is there (`os.Stat`) need not be readable, and may go between the
two. `LazyLoadHolds` says which failures are left; `AnyCopyServes`, the comment's words, does
not hold. `Restart` ends the process between two statements. Row ids are given out again
(`NextId`), as SQLite does without AUTOINCREMENT. Links are left out: a walk does not enter them.

### Panels, WebSearch, Preparation

`Panels`: an answer is its author and its round, so that a swap or a stale read shows. `Draft` and
`Judge` are the fusion. `Convene`, `Speak` (the prompt is built here), `TurnAnswers`, `TurnCalls`,
`RunTool`, `TurnFails`, `Gather`, `Moderate` are the round table; each seat is a goroutine. An empty
reply is no error: it takes the place of a first answer, and `FirstAnswerStands` says so; an empty summary of
a long context leaves the context as it is, and its tokens count.

`WebSearch`: the loop of `handleWebSearch`, one action per model call and per search. A model
may call several times in a turn, answer from memory, or go on calling past its allowance.

`Preparation`: `Prepare` is one request from compression to shortening, over a conversation that
`Reply`, `Result` and `Ask` let grow, and that `Retry` sends again. The cut moves past tool results (`Cut`); the
summary is either there, made, or the cut given up. The summarizer is shown the last 200000
characters of the head, here its last `Shown` messages, and `Summary` spans no more; the two hundred characters kept of
a call's arguments are not told apart. A briefing goes on the last user message with words, drafts on the last user
message, in that order or the other, which makes no difference. The classic router's pins are kept by the first words of
the user as they are then (`KeyOf`), which are a summary's after a cut; a first message that carries a briefing has new
words each time and finds no pin. That pins age is `PinTable`'s. A message sent
keeps its place in the conversation, by which the property finds gaps.

### Tables

Ages in ticks, one part for each table, restart for all of them. `WriteRecord` has every
error of the code as an input: the size that cannot be had, the rename that fails, the file
that does not reopen, the line written in part. `slipped` marks the two errors after which
the code's counter is not the file's size; `since` is history, when a notice was last shown.
Of `TablesCurrent`, the part on passwords is what could go wrong over several steps; those on seats and notices
state what one locked step does and stand for no hazard of their own.

## What is checked

| run | shows | distinct states |
|---|---|---|
| `pool_routing` | counters exact, home kept, leases implemented | 1.5 million |
| `pool_rebind` (violation) | a sibling's client error takes the binding over | |
| `store_cache` | stale rows have known reasons only; the others are refreshed | 770 thousand |
| `store_external` (violation) | overlapping refreshes hide a foreign write | |
| `pin_table` | bound, recency, survival, no forgotten put | symmetry-reduced |
| `failover` | pictures, grants, order, repetition, health, an answer for everybody | 1.7 million |
| `smart_router` | placed turns fit; a pinned conversation stays while its model is usable | 790 thousand |
| `seed_home` | heads come home from the cloud | 230 thousand |
| `smart_role` (violation) | a role's conversation is moved off a usable model | |
| `stream_relay` | contract, settled usage, nothing left running | 1.0 million |
| `dialects` | replies and requests keep what was said through every pair of dialects | 3.7 million |
| `services` | searches settle, drafts are exact, answers stand, results have their calls, listings are fresh, what is advertised is done, moves keep assignments, fetches find copies, tables are current, the log keeps its bound, no placement by what is long past | 1.3 million |

Some more properties are written down because a comment makes them, and known not to hold:
`RescanKeeps` and `AnyCopyServes` (`Skills`), `BannerOwnReason` (`Failover`) and `ItemAddedOnce`
(`StreamDialects`); see the findings.

**Bounds, and why they are enough.**

* Pool: two requests, two members, two conversations with one head, both forms of the
  setting, two load snapshots. Two is what a race takes; the conversations compete for
  the head and either can be served twice at once. The proofs lift the bound.
* Store: two goroutines; one setting and one transform, so that both kinds of own
  write and both positions in `reload` occur; the transform is written twice, which is
  what it takes to overtake a write of the same row.
* Pins: four keys for three places, so that the table overflows; four clock values and
  one restart, so that a pin can be older than the age limit when it is loaded.
* Failover: four targets on three providers. Every setting is crossed with the others
  inside its half (text, image): siblings, pin, hops that lead back to the start, a global chain with
  duplicates, targets not offered, replies streamed or not; a primary that sees or not, a client
  whose pictures are read or not, targets of both kinds of dialect, with the client's body and with
  another one. `MaxVisionHops` and `MaxGlobalHops` are two, so that the cap cuts.
* Smart router: two requests of one conversation, three turns, two changes outside (a
  lapse counts as one): enough for the pin of an overlapping turn, for a move and a move
  back, and for a fact that changes after it was cached. The sizes 20 and 60 are read as 10
  and 30 until the provider has counted, and 60 fits the cloud's window of 64 without the
  headroom only. `seed_home` has one request, whose turns and changes are not bounded: a
  liveness property needs every loop.
* Stream: 36 deltas and the code's capacity of 16, so that both channels fill and the
  goroutines block with a delta in hand (16 + 16 + 2 in flight, two more behind).
* Dialects: every pair of dialects; four pieces and two calls, which is a text between the
  fragments of a call, two calls interleaved, or a damaged fragment and its repair; six
  messages, which is a call, its results, a reminder, and a further turn whose prefix is compared.
* Services: `part` picks one module per behaviour; the others stand still, for they share no
  state with it. Skills: a live and an archived copy of one name in two spellings, a third
  place, one move (which may also make a file unreadable), one save, one scan and one fetch that interleave. Catalog: two
  providers, two ids of which an upstream may lose one, two requests that look up and ask for sight at
  once, one change outside, a time to live and a timeout of one tick each. Panels: two members and two rounds, one
  tool turn more than is offered. Search: an allowance of two, two calls at once. Preparation:
  six messages, with a threshold of four and two kept, so that the cut meets the results
  of two calls, and two shown to the summarizer, so that a head is longer than that. Tables: each table one entry smaller than what comes; a file of six, twice the
  log's bound, so that failed rotations show. Pool load: two pools of two that share an instance, from
  every condition of these, one change by itself beside what the probe starts, in-flight counters that tie; a snapshot
  is fresh for one tick and used for two, and a probe takes one.

**Fairness.** `PickedUp` assumes that a started call goes on, that time passes, that look-ups
keep coming (a look-up is what probes), and that a PRAGMA that can be answered is answered
in the end (strong fairness: it may fail any finite number of times). `ComesHome` assumes
that a seed ends (`kvxSeedTimeout`), that the slot comes round to whoever waits, that
windows end, and that a daemon asked again and again for a resident runtime seeds in the
end. It assumes nothing of clients and turns, and promises something only if the runtimes
stay loaded. `Answered`
assumes only that the proxy's own steps happen, and that an upstream call ends once the
client has left, for it carries the client's context. The code sets no deadline by
default (`proxy.go:1812`), so nothing else is assumed: a silent upstream with a patient
client is the one way to wait for ever. `NoneLeft` assumes that goroutines are scheduled
and that a read of a closed or cancelled body returns, and nothing of an upstream that
stalls.

`dialects` and `services` check safety only. In `dialects` everything is one goroutine's, and
that the goroutines of a stream end is `NoneLeft`; of the services each loop is bounded by its own
counter, and what they wait for is an upstream call with a deadline (search, panels, scans).

**Deadlock** checking is on in `seed_home`, whose clients may always come again, and off
in the others: there the system may stop when its bounded inputs are used up, requests are
done, or the stream has ended. That nobody
waits for nobody is stated by `Answered` and `NoneLeft`.

**Mutants.** Each property is listed with a faulty variant of a definition of the code
(a decrement that names another member, a flag cleared too late, a table written in
place, a drain forgotten). The variants stand next to the definitions, marked `faulty`.
With the variant in place TLC finds the property violated.

## What is proved

Every theorem is for all values of the constants its module's assumptions admit, and TLC
evaluates those assumptions in a run. Each rests on an inductive invariant in the
`_proofs` module, one lemma per action that may disturb it.

**Pool** (`PoolAssumption`: the request set is finite, a pool lists at least two distinct members,
keys of conversations and heads differ, `Elsewhere` and `None` are no members).

* `TypeCorrect` (`Spec => []TypeOK`). `TypeOK` is not inductive: a scan must be inside the
  members it walks and its best must be one of them before a choice can be typed.
  `TypeInv == TypeOK /\ LocalsOK` adds that.
* `CountsAccurate` (`Spec => []CountsHeld`). From `TypeInv`, by cases on the actions: each either
  keeps every lease and counter, or moves one request in or out of `HeldBy(m)` and the
  counter by one. The step facts are lemmas on the cardinality of `HeldBy`.
* `ImplementsLeases` (`Spec => LeaseSpec`). The same cases: `Dispatch` is `Take`, `Relayed` and
  `GiveUp` are `Drop`, everything else stutters.
* `Returns` (`Spec => []ReturnsHome`) and `BoundBetweenTurns` (`Spec => []BoundToHome`). The
  invariant is `FullInv == TypeInv /\ HomeInv`. `HomeInv` says that an undisturbed turn is
  the only one of its conversation (`Alone`), that a home is only known while turns are
  undisturbed (`Undisturbed`), that the binding names the home between turns
  (`BoundToHome`), and for each position of a running turn how far the binding and the
  choice have come (`Stage`): before the look-up the binding still names the home, after it
  the member does, between answer and rebinding the home is already the sibling and the
  binding follows. `BoundToHome` alone is not inductive, since it says nothing while a
  turn runs.

**Pins** (`PinAssumption`: finitely many keys, a share between one and the bound; `GoneAssumption`:
no pin is the mark of an empty place, which holds of any `Gone` but a pin record).
`TypesHold`, `SavedIsKept`, `FlushSees` and `RecentStays` come from `PinInv`. It says of every
key how far its last pin has come (`FlushHolds`: a copied pin is in the snapshot or the temporary
file until the rename), that a dead process holds nothing unsaved it calls saved
(`DownRests`), that no pin is newer than the clock (`Dated`), and why the last pin of a key may be
missing while the process serves (`Explained`): it was crowded out by so many that were put no
earlier (`Newer`, `Crowd`). The bound itself (`Bounded`) counts pins with
`Cardinality`, so the eviction's two cases, full and not, are lemmas about finite sets.

**Store memory** (`StoreAssumption`). `TypesHold` and `StaleOnlyByGaps` from `CacheInv`. Its heart is
`Accounted`: either the probe has not caught up with the database's version and nobody is about to
record that it has (`Outdated`), or every row in memory is the stored one, is in doubt for a reason the code has, or is promised by a
goroutine that is reading it now. `ReaderRight` and `PatchRight` say what such a promise is worth:
what a reader has read of a table so far is what is stored, unless a write crossed it.

**Chain and walk** (`ChainAssumption`; `FailoverAssumption`: in every setup the siblings are of
the primary's provider, differ from it and from each other, as `poolSiblings` builds them).
The chain is made by recursive functions over lists; that `Extend` adds distinct, granted targets
of the right kind, in order, is proved by the least number for which it would fail (`LeastNat`), not by an
induction theorem of the library. `ChainIsSound` puts this together for all chains. Above it,
`WalkInv` says that the walk is on the chain (`OnChain`), what was sent where (`Sent`) and which
trace was filed for it (`Filed`); `PicturesAreSafe`, `StaysWhereGranted`, `SiblingsComeFirst`,
`OneChance` and `HealthIsFair` follow from it. For the picture it also says of the attempt in flight that it is
the client's body only where that is passed through, and that a hop which was not skipped had one that carries it. `TypeCorrect` needs one more, `Budget`: a target is
sent to at most twice, plus once for each of the two extra attempts it had used.

**Smart router** (`RouterAssumption`: heads are prefixes, a provider of llama-swap has members,
`Default` and `None` are no models, a list's tiers are sequences of models). `PlacesCapable` (`[]Capable`)
and `StaysWithItsModel` (`StaysPut`, an action property) from `RouteInv`: the size a turn is
placed by is the larger of the estimate and the provider's count (`Base`), no other turn of a lone turn's conversation is in flight (`Alone`),
a pin names where the conversation's last turn went (`PinsLast`), and a turn under way
has read that pin (`TurnPins`). `BestIsFit` is about the choice: whoever is chosen is not
ruled out while somebody else is not. `TypeCorrect` (`[]TypeOK`, the seeds' `SeedTypeOK` in it) also needs
`RangesAssumption`: what the lists, roles, grades and estimates range over. `TypeOK` is inductive; the
work is in the choice: every list is of a tier (`ListIsTier`), who is seeded, remembered or bound has a
runtime (`LosersTyped`, `RememberTyped`, `SeatsAre`), and only keys of a head and a runtime are asked for.

**Stream** (`StreamAssumption`: any number of items, any capacity but zero). `TypesHold`, `Settled`
and `ImplementsContract` (`Spec => ContractSpec`) from `RelayInv`: the end is the last delta wherever it is
(`EndIsLast`) and it is somewhere until it is written (`EndSomewhere`), usage goes before it (`UsageFirst`), and while
the client is served the deltas written, buffered and in hand are one run of
consecutive numbers (`InOrder`). `Write` and `End` are the contract's steps, all else stutters.

**Services.**

* `LogKept` (`[]LogBounded`): the counter is the size of the file or more, unless an error is marked.
  `TablesTrue` (`TablesCurrent`): what a table answers is younger than its bound, and a verified
  password is the stored one while the stored hash is the one it was verified with. `TablesAssumption`.
* `SearchAnswers` (`[]SearchSettles`): `SearchInv` says at each stage which searches there are.
* `ListingsFresh` (`[]ListingFresh`) and `AlwaysHonest` (`AdvertisedHonest`, an action property) from
  `CatalogInv`: the history is typed and what is the case now is of age 0 (`HistoryNow`); of each
  request under way, whether it looks a name up or scans for its picture, the filters it holds count as
  being had and the answer in hand is as old as its scan at most (`Sound`); and a stored listing
  was made of ids and through a filter that were so when it was stored (`ListingSeen`, `MadeOf`). For
  `AlwaysHonest` each request is also followed to what it asked for (`AsAsked`: a name with a provider stays with it, and the
  gate only scans for a model whose name says nothing); `GateHonest` and `RouteHonest` are its two parts. That a
  request moves by its own steps only (`OwnStep`), where a look-up ends (`DecidedWhere`), that a share lists nothing it
  does not let pass (`SharesPass`) and that a cap only lowers (`CapLowers`) are lemmas.
* `AnswersStand` (`[]FirstAnswerStands`): `PanelsInv` says which round's answers the table holds
  and what each prompt quotes. `DraftsAreExact` (`[]DraftsExact`): until the judge each place
  holds its member's draft (`Fusing`); that a finite set of seats has an order, and one
  only, is `OrderHolds`.
* `SightedAlways` (`[]PlacedBySight`): a snapshot, and a probe under way, name for each instance what it
  was within the age of the picture (`TrueOnce`). `PoolLoadAssumption` bounds in-flight counts so that
  a resident instance is cheaper than one that is not.
* `MovesKeep` (`MoveKept`) and `LoadsHold` (`LazyLoadHolds`), action properties: rows are distinct
  and of places (`RowsHeld`), and between the query after the walk and the last deletion every kept
  assignment is followed to a row that is still to be repointed or already was (`ScanHeld`). A fetch that
  reads a second time reads a copy its search found, outside of an archive if there was one. Paths
  are finitely many numbers, of which 0 is none.
* `NothingIsOrphaned` (`[]NoOrphanResults`): in the client's conversation every result has its call, with results
  only between them (`Talk`), the cut falls on no result (`CutIsClean`), and compression, attachment and
  shortening each keep `WellSent`, in which the summary spans what the summarizer was shown: all of the
  head, or its last `Shown` messages.

**Dialects.** (`DialectsAssumption`: known dialects and modes, any number of pieces and calls;
`RequestAssumption`: known dialects, known efforts, any budgets, any length of conversation.)

* `CutIsShown` (`[]CutShown`) and `UsageIsNoted` (`[]UsageNoted`) from `EndInv`: the reason and the counts
  the reader has are those the upstream told (`ReasonHeard`).
* `BlocksAlwaysNest` (`[]BlocksNest`) from `BlocksInv`, which is about the writer's bookkeeping while the reply
  goes on: what was sent so far is nested up to the block the writer says is open (`Nested`), the ids
  it keeps are those of the calls (`IdsRight`), each call has started at most one block
  (`Single`) and only the last one's is the writer's (`InTurn`). `BothWritten` puts the two halves of an
  `AndThen` together, so that each event is proved from the pieces it is written in.
* `ThoughtHasRoom` (`[]ThinkingFits`) from `ThinkInv`: the request was made for what was asked.
* `ResultsAlwaysFollow` (`[]ResultsFollow`) and `PrefixIsKept` (`PrefixKept`, an action property) from
  `TalkInv`: the client's messages are a `Conversation`, in which the turn after a message with calls holds
  their results, and the last request was built from a beginning of it that asks. The rest is about
  the pure functions. Parsing is followed one message at a time: `Adds` says what a message
  adds, `Following` that behind every message with calls stand the results or the end
  (`ParsedFollow`), `Continues` that nothing parsed is changed by what comes (`ParsedContinue`),
  `ParsedAlike` that a beginning is parsed as in the whole. `PlaceTrailing` touches only the last
  message (`TrailingKeeps`), and after the user's turn there is one, not the assistant's
  (`UserStands`). `BuiltBoth` builds two parts one after the other: `FlattenSeq` of a concatenation is
  the concatenation (`FlattenBoth`).
* `NothingIsLost` (`[]NothingLost`) from `CarryInv == TalkInv /\ Numbered(client, hist)`: no text stands twice in a
  conversation, so that what is found in a request can only be what was said there. All texts of a
  request, of two kinds (turns and reminders), lie in one row (`Holds`), and each step between
  the conversation and the request - a message parsed, the trailing system text placed, each builder -
  is shown to leave the row of each kind as it was, by `FlattenSeq` over the two parts (`FlatBoth`).
* `RepliesAreFaithful` (`[]Faithful`) from `FaithInv == EndInv /\ SpeechInv /\ ...`. Three parts:
  * What the reader knows (`SpeechInv`): its copy of a call's arguments is as long as what was said,
    differs only where a fragment was damaged (`Shadow`), and is the original where none was (`Copied`).
  * What the frames say: each place in the frames belongs to one call (`Owners`, `Owned`), so that the
    arguments a client collects for a call are the fragments at the places of its id (`ToldArgs`). Each
    writer keeps the text and the arguments so far (`OpenAIKeeps`, `AnthropicKeeps`, `ResponsesKeeps`,
    `OllamaKeeps`, joined in `KeepsTo`): what it sent is what was said less what it holds back, and a
    lemma per writer and kind of delta shows that the next delta is added at the right call. `EndTells` is
    about the end, where each writer says what it held.
  * Both together: while the reply goes on, what is kept is what was said (`Streaming`), and once it has ended well
    all is right (`AllRight`). A reply read whole is rebuilt call by call (`FramesTell`, `WholeRight`).

Only model-checked:

* All liveness (`PickedUp`, `Answered`, `ComesHome`, `NoneLeft`): liveness under fairness and `ENABLED` are
  outside of what the prover can do.

Induction over data cannot be taken from the library, whose theorems have an operator as
a parameter. Where a proof needs it (a chain, a flattened list of tiers, the call of a result, an ordered set)
it looks at the set of numbers for which the claim fails and at the least of them (`LeastNat`). For
the dialects that is done once, in `Climb`: a set of numbers that holds a first one, and each number
after one it holds, holds them all; the claims about conversations and rows of any length cite it.
`ParsingParses` and `FlattenIsJoin` show this way that the functions the parser and `FlattenSeq` choose
exist.

## Where code and comments disagree

`PROJECT.json` has the details under `findings`. Three are runs: the rebinding to a sibling that
refused, the foreign write that stays hidden, the role whose pin is dropped each turn because
it is filed under the list that was walked and not under the role's tier. Others were met while
modelling:

* Pictures: a client's picture that no parser reads is taken for sent on, and a body rebuilt after an
  overflow loses it where the dialect of client and hop has none; the hop answers a question without it.
* Routing: a counter that is not the work once a sibling serves; a banner with another
  provider's reason; the blind primary that is never the last resort; recovered replies, and a stream the client
  left, charged to the model that served; a local winner whose head is only remembered when it leads its
  list; a pool's member that counts as out because another pool's probe did not ask it, and one that the
  probe itself starts; a local provider that counts as cloud for five minutes after one silent probe; a picture's
  bucket that later stands for a tier; a pool that is warm by one member and seeded by another; a
  documented flag the code spells differently.
* Store: a toggled transform that is not reloaded; a failed reload recorded as seen; a failed
  flush that is not retried; a rename of the cache log that fails unnoticed.
* Catalog: a bare name goes to the first provider that matches, not to the only one; ids are
  listed that the filter refuses; a listing stored through the filter of a request that began before it was changed; a
  share that announces its cap for a bare name, above the window of the model it stands for.
* Preparation: the start of a long head that no summarizer sees, though the summary is called accurate
  history; a fingerprint of the stable head that compression and briefing change.
* Skills: one conflict loses everybody's assignments of a moved skill; row ids that come back as
  other skills; two notions of the same name; links that a rescan does not pick up; loads
  counted that were not served; a fetch that fails on one unreadable copy though there is another.
* Dialects: Anthropic's input tokens missed in a raw stream; an item announced again with every
  repeated id; a message after a call that closes with the text of the one before it too. Search: parallel calls left without results. Caveman: a rule that output does not
  depend on the turn, and a window that moves.

Some behaviours are modelled as they are and are no disagreement, but a reader should know them:
an empty second answer takes the first one's place at the round table; a router's pin holds
for every other router of the same conversation; the cut of a compressed conversation moves with
each turn and is summarised anew; a plan's note in the trace replaces the compression's;
`BuildOpenAIResponse` leaves out the text of a reply with calls; the OpenAI reader passes over an
error event in a stream; `ParseResponsesRequest` makes a message of every call; Ollama's results
carry no ids, and the ids of calls it makes up, anew for each message, are kept apart in the model, where nothing refers to
them; system text other than Anthropic's reminders is hoisted wherever it stands, which
changes the prefix; with `vision_models` switched off the catalogue says nothing where the gate
lets pictures through.

## Not modelled

* The hub of live traces: a slow subscriber loses traces by design, and nothing depends on it.
* OAuth management and scan, the web API and UI, the command line, the launcher, the terminal
  UI: decoding, process start, drawing, and calls into parts that are modelled.
* Transforms, images, the text reductions of caveman, JSON encoding: rewriting of strings
  without state.
* Migration, encryption and retention of the store; the text heuristics (classifier keywords,
  fuzzy spelling, error wording), which are inputs wherever they matter.
* The restore before a request (`kvxrestore.go`) but for its debounce, and the daemon itself.

## Plan

Done: the core, the smart router and the seeds, the dialects and the services; proofs of every safety
property and every action property their runs check. What remains is outside of the prover (liveness) or listed above
as not modelled; of the latter the restore before a request and the hub are the next to model.
