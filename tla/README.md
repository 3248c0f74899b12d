# Tckr: formal models of the market-data feed and its client

This directory holds TLA+ specifications of the working parts of the Tckr
repository, the TLC configurations that check them on small instances, and
proofs checked by TLAPS. Paths below are relative to the repository root.

## The system

Tckr generates a simulated market, publishes it over TCP to feed consumers, and
shows it in a browser. Three parts of the repository hold code that runs; the
ingestion, distribution and gateway services (`src/Tckr.MarketData.*`) are
stubs that only start a host.

```
 MockExchange process (C#)                      FeedProbe (C#)
 publisher thread -> FeedServer -> FeedSession* ---TCP---> ProbeSession
   RateGovernor        roster       pipe, loops              gap accounting
   MarketSessionClock
   generator                                    MarketWatch (TypeScript, browser)
   FeedMetrics, reporter                         TckrGatewaySource / SimulatedSource
                                                 -> TickDispatcher -> store -> pages
```

| Component | State it keeps | Operations | What is hard | What makes it correct |
|---|---|---|---|---|
| `Feed/FeedSession.cs` | sequence counter, pipe, state, close flags, discard request | `Start`, `TryPublish`, write loop, backpressure handler, receive loop, heartbeat timer, `StopAsync`, `Teardown` | five threads, two of which read or write the state without the lock; timeouts; a peer that stops reading | the tape is ordered and every gap reported; memory bounded; a close is final, completes and happens once |
| `Feed/FeedServer.cs` | roster, count of admitted sessions, stop flag | accept loop, `Admit`, `Publish`, `OnSessionClosed`, `StopAsync` | admission racing stop, a session closing before it is in the roster | the limit holds; a slot is always given back; nothing stays open after a stop |
| `FeedPublisherService.cs` | the run task, the buffer | `StartAsync`, `Run`, `StopAsync` | a phase read before a wait and used after it; batches larger than the buffer; cancellation and faults of the publishing thread | what is scheduled is published; a stale phase lasts a batch; a loop that ends releases the port |
| `Session/RateGovernor.cs` | next deadline, accrued-through time, fractional carry | `WaitForNextBatchAsync`, `ScheduleBatch` | late wake-ups, catch-up and its cap, rounding | long-run rate is exact, bursts are capped, no time is accrued twice |
| `Session/MarketSessionClock.cs` | anchor, phase, multiplier | `Advance`, `EffectiveEventsPerSecond` | a compressed day that wraps, phases skipped by a late tick, a clock set back before the anchor | the phase is that of the schedule; nothing is emitted while closed |
| `Diagnostics/*` | counters, session ledger, rolling buckets | `Record*`, `Session*`, `Report` | several writers, a bucket that belongs to an older turn of the ring | no session is counted closed that was not accepted; a rate covers its window only |
| `Protocol/*` | none (pure) | `TryReadFrame`, `Write*` | frames split at any byte | the frames read are the frames written |
| `Generation/*`, `Reference/*` | prices, alias table, random state | `NextBatch`, `Pick` | price bounds | prices stay positive and on the tick grid |
| `tools/Tckr.FeedProbe` | expected sequence, gaps, samples | `ProcessBuffer`, `HandleTick`, `HandleHeartbeat` | gaps, reordering, heartbeats behind ticks | what is reported lost is what was lost |
| `client/.../data/TckrGatewaySource.ts`, `reconnect.ts`, `config.ts` | socket, state, subscriptions, outbound queue, timers | `connect`, `disconnect`, `subscribe`, message handlers, reconnect, watchdog | callbacks of a socket that was replaced, timers that outlive it, throttling | one live socket, every wanted symbol subscribed after a reconnect |
| `client/.../data/SimulatedSource.ts`, `marketCalendar.ts`, `simulatedClock.ts` | virtual market, delayed queue, three timers | the same interface in-process; the sessions of EGX | late timers across the open and the close, drops, a change of entitlement, a zone with summer time | the engine runs exactly while the market is open; no tick before its delay has passed; the history is one session |
| `client/.../data/TickDispatcher.ts`, `store.ts`, `display/pacedViews.ts` | pending ticks, per-symbol views, paced views | `push`, `flushNow`, `applyTick`, `applySnapshot`, `resetStream`, the beat | a snapshot that arrives after newer ticks | nothing is lost by merging; what arrived is on the screen in the end |
| `client/.../pages/useDetailQuote.ts`, `detailQuote.ts`, `useBoardUniverse.ts` | phase, quote, baseline, queued and held tick; subscriptions | effects and their clean-ups, snapshot, tick, entitlement handlers | answers for a pane that was left, two owners of a subscription | the newest wins; a pane shows its own symbol; every mounted page is subscribed |
| `client/.../contracts/*`, `display/percent.ts`, `pages/boardColumns.tsx` | none (pure) | parsing, decimals, percentages, compact amounts | truncation, rounding and thresholds in a row | one move reads the same wherever it is printed |
| `client/.../chart/*` | ring buffer, plot, tween | seed, sample, draw in, discard, change of range | a sample due while another draws in, answers late | the chart is of its pane; the tag is the last real sample |
| `client/.../pages/StockList.tsx`, `HeroCards.tsx`, `useBoard*.ts` | order, picks, sort, query, address, focus | beat, sort, search, keys, navigation in transitions | figures read at two moments, navigations that commit late, elements that vanish with the focus | rows in the order of their figures; cards that say what is so; a focus the user can find |
| `client/.../components/ConnectionStatus.tsx`, `StreamBadge.tsx`, `BoardBanners.tsx`, `use*Status.ts` | what each observer last heard | render, subscribe, events, polls, boundary timers | an event between the render and the effect | the parts of a page agree with the source and with each other |
| the rest of the React tree, motion, themes | view state | rendering | - | not modelled |

## The modules

| Module | Models | Extends, instantiates |
|---|---|---|
| `FeedSession` | one consumer's session: `Feed/FeedSession.cs` whole | instantiates `FeedTape` |
| `FeedTape` | the abstract specification of a session: what a consumer is promised | |
| `FeedSessionProofs` | theorems about `FeedSession`: its invariant and order, its account, its end and `FeedTape` | `FeedSession`, TLAPS |
| `FeedServer` | accept loop, roster, slots, fan-out, stop: `Feed/FeedServer.cs` but for the binding of the listener in `StartAsync`, which is a flag | |
| `RateGovernor` | pacing: `Session/RateGovernor.cs` whole | |
| `ExchangeDay` | the publishing loop between clock, governor, server and host: `FeedPublisherService.cs`, `MarketSessionClock.cs`, the session rules of `MockExchangeOptionsValidator.cs` | extends `RateGovernor` |
| `MCExchangeDay` | a short schedule and three settings for `ExchangeDay` | `ExchangeDay` |
| `ExchangeProofs` | theorems about `RateGovernor`, `ExchangeDay` and `FeedServer` | `ExchangeDay`, `FeedServer`, TLAPS |
| `GatewaySource` | the browser's connection: `TckrGatewaySource.ts`, `reconnectSharedSource` of `config.ts` | |
| `BoardAndDetail` | the two pages that share that connection, composed with it | extends `GatewaySource` |
| `PagesProofs` | theorems about `BoardAndDetail` and the connection under it | `BoardAndDetail`, TLAPS |
| `TickView` | prices from the connection to the screen: `TickDispatcher.ts`, `store.ts`, `pacedViews.ts`, `useDetailQuote.ts`, `detailQuote.ts` | |
| `TickViewProofs` | theorems about `TickView` | `TickView`, TLAPS |
| `Decimals` | the arithmetic of prices and how a figure is printed: `decimal.ts`, `percent.ts`, `boardColumns.tsx`, `deltaTone.ts` | |
| `QuoteFigures` | what a price is measured from, and what a row and the pane print of it: parsers, universe, store, pane | extends `Decimals` |
| `FigureProofs` | theorems about `Decimals` and `QuoteFigures` | `QuoteFigures`, TLAPS |
| `MarketCalendar` | sessions of EGX: `marketCalendar.ts`, `simulatedClock.ts` | |
| `SimulatedSource` | the source without a gateway: `SimulatedSource.ts` | extends `MarketCalendar` |
| `MarketHeader` | pill, badge and banners: `ConnectionStatus.tsx`, `StreamBadge.tsx`, `BoardBanners.tsx` and their hooks | extends `MarketCalendar` |
| `CalendarProofs` | theorems about `MarketCalendar`, `MarketHeader` and `SimulatedSource` | `MarketHeader`, `SimulatedSource`, TLAPS |
| `DetailChart` | the chart of the pane: `PriceChart.tsx`, `ringBuffer.ts`, `chartSeed.ts`, `chartOverlays.ts`, `chartRanges.ts` | |
| `ChartProofs` | theorems about `DetailChart` | `DetailChart`, TLAPS |
| `Board` | order, cards, search, keys, navigation and focus: `StockList.tsx`, `HeroCards.tsx`, `useBoardSort.ts`, `useBoardSearch.ts`, `useBoardKeyboard.ts` | |
| `BoardProofs` | theorems about `Board` | `Board`, TLAPS |

Definitions keep the names of the source where TLA+ allows it. An operator
under a comment that begins with "Mutant" is never used by a specification: it
is the form a plausible mistake would give the definition below it, and each
property has been seen to fail when one of them takes that definition's place.

Loops over a sequence are recursive functions (`Served` of a queue of messages,
`Emitted` of a batch of ticks, `Tape` and `Filled` of a chart's seed), which the
proofs can unfold one element at a time. The names of `FeedServer` and
`SimulatedSource` that another module also uses have a prefix (`ServerSpec`,
`SimSpec`), so that a module of theorems can extend both.

### FeedSession

The session's fields are variables of the same name (`nextSequence`,
`lastSequenceQueued`, `state`, `started`, `closeRequested`, `closeReason`,
`discardRequested`, `skippedRecords`, `discardedRecords`, `skippedAtOnset`). `gate` is `_writeGate`,
`cts` is `_cts`, `pipe` with `flush`, `writerDone`, `readerDone` and
`readCanceled` is the `System.IO.Pipelines.Pipe`. Each thread has a variable
that says where it is:

| Thread | Variable | Actions | Code |
|---|---|---|---|
| publisher | `pub`, `batch` | `ReadState`, `SkipBatch`, `RefuseBatch`, `EncodeBatch`, `FlushBatch`, `BeginEpisode`, `EncodeFails`, `PublisherTearsDown` | `TryPublish`, `WriteBatchLocked`, `Skip` |
| write loop | `wl`, `buffer`, `sent`, `lastRead` | `ReadFrames`, `ReadNothing`, `DiscardBuffer`, `TakeBuffer`, `SendFrame`, `SendHeartbeat`, `SendFails`, `LoopCanceled`, `Finish` | `RunWriteLoopAsync`, `SendAllAsync`, `SendHeartbeatAsync`, `Finish` |
| backpressure handler | `handler`, `slowReason` | `FlushResumes`, `FlushEnds`, `FlushCanceled`, `DelayWins`, `ClearDiscard`, `EndEpisode`, `CountSlowConsumer`, `HandlerCloses`, `HandlerTearsDown` | `HandleBackpressureAsync`, `DisconnectSlow` |
| receive loop | `recv` | `PeerGone`, `ReceiverTearsDown`, `ReceiveCanceled` | `RunReceiveLoopAsync`, `CloseFromPeer` |
| heartbeat timer | `heartbeatDue` | `HeartbeatTimer`, `OnHeartbeatDue` | `OnHeartbeatDue` |
| owner | `stop` | `Start`, `StopBegins`, `StopTearsDown` | `Start`, `StopAsync` |

What a thread does under `_writeGate` is one step, except for the publisher:
other threads read `_lastSequenceQueued` and write `_state` without the lock
while it is inside, so its critical section is cut at the numbering of the
batch, the flush and the change of state. The unlocked read of `_state` at the
top of `TryPublish` is a step of its own, and the withholding that follows it
another. A frame is a natural number: 0 is the session start, n the tick with
that sequence number. Bytes, prices and timestamps are left out; the pipe's
limits are counted in frames. `Finish` writes `_state` and cancels `_cts`
without the lock, and the model does too.

The pipe is library code and modelled from how the session relies on it: a
flush that brings the unread frames to `PauseThreshold` stays incomplete until the
reader's `AdvanceTo` brings them below `ResumeThreshold`, the reader completes,
or the writer completes (in which case the awaiting handler gets an exception
or a cancelled result, both of which end in the same code); a cancelled read is
remembered until the next read. `wire`, `checkpoint`, `withheld`, `onset`,
`timedOut`, `aborted`, `slowDisconnects` and `reported` are what an observer of
the socket, of the metrics and of `_onClosed` would have seen.

### FeedServer

A session is named by its connection; `life` says how far `Admit`, the session
and `OnSessionClosed` have come with each. `roster` is `_sessions`, `admitted`
is `_admitted`, `stopped` and `shutdown` are the flag and the token, `accepted`,
`rejected` and `closed` the metrics as the sets they count. Every assignment to
shared state is a step, because the count is changed by `Interlocked` calls
outside `_rosterGate` and the metrics after both. `Publish` takes its snapshot
in one step and visits the sessions in others. The inside of a session is
`FeedSession`'s affair: here it may begin to close whenever it is open, and ends
by running its callback, which is what `CloseCompletes` of `FeedSession` shows.

### RateGovernor

Time is counted in clock ticks and a rate in parts of an event per tick, `Unit`
parts to the event, so that the fraction that the code carries in a `double` is
a natural number here and nothing is rounded. What is proved of the model holds
of the code up to the error of its floating-point sum. The clock is an actor
of its own: it moves by any of `Steps`, and may be set back by any of
`StepsBack`, because the code reads UTC time. A call reads the clock to see if
its batch is due, waits, and reads it again to schedule; `Cancel` leaves the wait
where the token can be observed. `credit`, `paidTicks`, `origin` and `peak` are
history.

### ExchangeDay

The thread of `FeedPublisherService.Run` calls the actions of `RateGovernor`:
`loop` says where it is (`top`, `asking` once the session clock is advanced,
`pacing` inside `WaitForNextBatchAsync`, `emitting` between two passes over the
buffer), `count`, `emitted` and `auction` are its locals. `phase` and
`multiplier` are the properties of `MarketSessionClock`, set by `Construct` and
`Advance` and by nothing else, so that a wait or a long batch leaves them as old
as it lasts; `crossed` is the history that says so. `Largest` and `BatchCapacity`
are `CalculateBatchCapacity`. The host is external: it calls `StopAsync` when
the user asks or when the service has failed, and the second half of
`StopAsync` runs when the thread has ended or, if the host is not `Patient`,
when its shutdown timeout cancels the wait for it. `FeedServer` is here only
whether its listener is bound, which is what its own module promises of start and
stop; the generator is whether it throws. `DayAssumption` is what the validator
admits, with a schedule that is not empty: a phase that is not "Closed", a
multiplier above zero, windows that do not overlap, a base rate under the ceiling.
The exchange's time zone is a fixed offset, and the position in a compressed day
is exact where the code rounds through a `double`.

### GatewaySource and BoardAndDetail

JavaScript runs one callback at a time, so a callback and the microtasks it
releases are one action. The browser's side of a socket (`ready`, the code a
close was asked for) changes in actions of its own, since `close()` only begins
a close and `onclose` comes in a later task. Sockets are numbered in the order
they are made, and every handler acts on the fields of the source whichever
socket called it, as the closures in `#openSocket` do. `asked[s]` is what the
gateway has been asked for on socket s, the sum of the frames sent on it.
Time is left out: an armed timer may fire, and the back-off window is open from
`RATE_LIMITED` until `WindowEnds`. `BoardAndDetail` adds the effects and
clean-ups of `useBoardUniverse`, `useDetailQuote` and the router's mounting of
the pane beside the board; each runs as one action on the shared source, in the
order React runs them (old clean-up, then new effect; parent before child when
both go).

### TickView

What arrives on the connection that `GatewaySource` keeps, and where it goes.
`pending`, `frameRequested` and `frameScheduled` are `TickDispatcher`, `view` the
store's records, `behind` the rows whose paced view is not the store's object (the
comparison in `publish` is one of references), `phase`, `quote`, `queued` and
`held` the state and refs of `useDetailQuote`. `committed` separates the callback
that sets the phase from the effect that runs after its render. A pane has a
number, `mount`, which is what `cancelled` of its closure amounts to. The gateway
is external: it numbers the trades of a symbol (a number is a price and its time at
once), sends them in order on one socket, answers snapshot requests at any time
and sets the user's stream back or forward when the entitlement changes. The
volume beside the pane's quote is left out; that of a row is kept, because the
dispatcher's merge is about it. `owed` is the history the merge is compared with: the
quantity received that no frame has written to a row. A snapshot leaves it alone,
since what a snapshot does to the volume of a row is not the merge's affair (and is
wrong, see `RowCountsTrades` below).

### Decimals and QuoteFigures

A decimal string is the integer its digits make at four places, and a percentage,
a JavaScript number in the code, is counted in its fourth decimal place, which
is the finest `percentChange` produces: both are exact here as there. A printed
figure is a sign and digits; padding, separators and the minus glyph are left
out. `QuoteFigures` follows one instrument with one trading session: `meta` and
`view` are the store's records, `baseline`, `extras`, `quote`, `queued` and
`held` the refs and state of the pane, `cached`, `inFlight` and `waiting` the
universe request that the board and the pane share. Frames and bodies name the
field that is wrong in them, if any, and `Checked` says which fields the parser
of each kind looks at; one that fails is dropped whole. `TickView` asks when a
price reaches the screen; `QuoteFigures` asks what it is compared with, and
prints the store as it is.

### MarketCalendar and SimulatedSource

Instants are half hours, which every boundary of the calendar is a multiple of.
The zone is library code: an offset that changes at two constants, `SpringAt` and
`AutumnAt`, which may be any midnights between a Thursday and a Friday, as Egypt's
are. The code's search for a trading day, its correction of civil times and its
status are the operators of the same names, and `StatusSound` of `MarketHeader`
compares them with a search of the instants around. In `SimulatedSource` the three timers (`marketClock`,
`engine`, `dropTimer`) fire whenever they are set, as late as they like, and the
clock moves along `Instants`. `ensureSessionFor` is `EnsureSession`, a part of
every action whose code calls it. A price is a count of ticks; the random walk
of a day is a fixed function of day and slot, as its seed makes it.

### MarketHeader

Three observers, each with the stages of a React component: `away`, `rendered`
(state seeded) and `watching` (effects run). An event between the last two is
lost on it, which `missed` records. The boundary timer of each `useMarketStatus`
is the instant it is set for. What the viewer reads is defined from the state
(`ConnectionPill`, `StreamBadge`, `MarketClosedBanner`, `ConnectionBanner` ...).

### DetailChart

A point is the time of the trade, the symbol and the stream. `buffer` is
`RingBuffer`, `plot` the series that uPlot was given, `tween` the sample that
draws in. A tick on its way to the header waits in one place, because `TickView`
is about that; here it matters that the chart samples what the header has
rendered (`live`), which a callback sets one step earlier (`quote`).

A switch of the pane is two actions, since `StockDetail` is not keyed by its symbol:
`Switch` is the render, which resets the state (`useDetailQuote.ts:91-100`), and
`RunEffects` the clean-up of the pane before and the effects of this one (110-308),
which React runs some time later but before it renders again. `ran` is the pane whose
effects have run, and a request is `StillWanted` as long as that is the pane that made
it: between the two actions, that of the pane before. What its snapshot sets then, the
effects set anew; the history they leave (121-122), so it is stored in the new pane and
mounts its chart. `strayed` is the history variable that says this has happened.

### Board

The figure of a symbol is one of three: a rise, a rise that prints as 0.00%, a
fall with much traded value, or none. `store` is what was received, `paced` what rows and
cards show. `going` holds the navigations whose view transition has not called
back; `focus` is `document.activeElement`, and when there is none the reason:
it was on nothing before (`page`), the pane took it (`gone`), what had it was re-ranked
or replaced, or the frame that gives it back looked for a row that the query had filtered
out (`unlisted`, `useBoardKeyboard.ts:69-73`).
What a callback sets is rendered in the same step. `Ranked` is the arrangement of the
rows by `Precedes`; that there is one, for any set of rows, is a lemma (`RankingExists`).

## What the runs show

A passing run explores every reachable state within its bounds. The bounds are
constants of the modules, named there.

| Run | Bounds | What it shows |
|---|---|---|
| `session_disconnect` | pause at 2 frames, resume below 1, batches of 1 and 2, 3 records | frames in order and once (`WireInOrder`); a drain that is not cut short is complete (`CleanEndDrains`); a close is final (`ClosingIsFinal`) and completes (`CloseCompletes`) |
| `session_drop_oldest` | pause at 3, resume below 2, batches of 1 and 2, 3 records | with the other policy: the session implements `FeedTape` (`ImplementsTape`); every number sent, waiting or reported lost, and only one of them (`TapeAccounted`); a discard never reaches past the episode that asked for it (`DiscardWithinEpisode`); an episode always resolves (`EpisodeResolves`) |
| `server` | 3 connections, 2 slots, 1 batch | no slot leaked or freed twice (`SlotsConserved`), nobody missed by the fan-out (`OpenSessionsMissNothing`), a stop that leaves nothing open (`NothingOpenAfterStop`), returns (`StopCompletes`) and lets the ledger settle (`LedgerSettles`) |
| `day` | interval 2, one batch of catch-up, an event of 3 parts; three settings: continuous, a compressed day of 5 ticks with a ceiling under the opening's rate, a scheduled day of 8 ticks; an opening, a morning, a lull outside the schedule and a closing; steps of 1 and 5, back by 2, clock up to 7; buffers of 1 to 6 | everything that time and rates came to is published or carried (`ScheduledIsPublished`), no time is paid twice (`TimePaidOnce`), no batch is larger than the buffer was sized for (`OnePass`), rate and stamp are stale for one batch at most (`StaleForOneBatch`), a stop and a failure release the port (`StopReleasesListener`) |
| `pages` | one known and one unknown symbol, 3 sockets, 2 drops, 1 rate limit, 1 retry, in the middle of an attempt too, 1 queued call | one connection, until the close event of a socket that a retry replaced is taken for its successor's, and never without a retry (`OneConnection`); what is subscribed is asked for after any drop (`CarriesSubscriptions`, `DetailCarried`); timers belong to the current connection, until then too (`TimersGuardCurrent`); subscriptions come back (`Recovers`) |
| `tickview` | one symbol of the universe and one unknown, 2 trades, 2 panes, 2 requests and 1 message under way, 1 change of entitlement, push or rejection, starting on LIVE | each write of a frame carries the quantity of all it merges (`NothingCoalescedAway`); a pane shows the newer of what it has and what arrives (`NewerWins`), and no tick of a stream that was left (`PaneDiscardsOldTicks`); what arrived is on the screen in the end (`ScreenCatchesUp`) |
| `simulated` | one symbol, two users, instants in a session, at its close and in the next, 2 ticks, 1 request, drop and switch | the engine runs exactly while the market was last seen open (`EngineFollowsMarket`); the delay is kept and nothing is sent twice or overtakes (`DelayIsKept`); the samples are one session, also across the seam between rebuilt and live ones (`HistoryIsASession`) |
| `header` | three instants, before, at and long after an opening, with a weekend and both changes of the clocks between, 3 events of the source | the status is right at every instant up to them (`StatusSound`); a status that is out of date has its timer due (`BoundaryArmed`); pill, badge and banners agree unless they lost an event while mounting (`PageIsCoherent`) |
| `chart` | two symbols, buffer of 3, trailing window of 1, times up to 2, 2 panes, 1 change of stream | a chart samples no price of another symbol, and holds no point of one unless a history strayed into it between render and effects (`ChartIsOfItsPane`); its price tag is the last real sample, whatever interrupts a draw-in (`TagIsLastSample`) |
| `board` | two symbols, 4 events, phone or not, with and without transitions | rows are in the order of the figures they show (`OrderIsOfTheFigures`), cards say what is so (`PicksAreTrue`), opening and switching the pane never costs the user the focus, and closing it only where the query has filtered out the row that would get it back (`FocusIsLookedAfter`); Enter opens what matches the text as typed, not as last debounced (`EnterOpensWhatWasTyped`) |
| `figures` | prices 1.9999 and 2.0162 with closes and opens a rounding away, 2 trades, 2 messages, 1 answer under way, 1 fault | change, percentage, colour and word of a row are one move from one baseline (`RowFiguresAgree`) |
| `figures_onemove` | the same, open and close equal | what `percent.ts` says of one move and its two surfaces, and does not hold (`OneMoveOneFigure`) |

Why the bounds are enough to be of use. A session needs two batches to be behind
(one to fill the pipe, one to be withheld) and a third number to be sent after
the gap; pausing at two or three frames lets an episode begin with the
session-start frame still in the pipe, and resuming below the pause lets it
end with frames left. Three connections on two slots are one to reject, one to
replace and one to stop; all the races are between two of the accept loop, one
callback, the publisher and the stop. The day's step of 5 over an interval
of 2 passes the cap and is not a whole number of intervals, and setting back by
2 crosses a deadline; within 7 ticks every phase of each schedule begins and ends,
in a wait too, and two cycles of the compressed day begin. A batch of the scheduled
opening that catches up is larger than the largest buffer and takes two passes; one of the compressed day is
exactly what the buffer was rounded up for. Three sockets are a connection, a reconnect that fails in
the handshake and one that succeeds; the second symbol is one the gateway
rejects. Two trades are one that is overtaken and one that overtakes, or two
merged into a frame; two panes are one that is left with its request under way and
its successor, and the third party to the request is the board. The instants of the
simulated source are one before the open, two in the session, its close and the
next open, after a weekend; a timer that is late passes any of them. The header's
are the half hours on both sides of an opening and one after the second change of the
clocks, and `StatusSound` looks at every instant between. The chart's buffer of 3
overflows within three samples. The prices of the figures are 0.0050 % below and
0.81 % above the close, where the thresholds and both roundings decide, and 0.00496 % above the open. `Horizon`, `MaxRecords`, `MaxBatches`, `MaxSockets` and the like only
stop counters; the theorems below hold without them.

The deadlock check is off: a session, a server or a page that is closed has
nothing left to do.

### Fairness

`FeedSession`: weak fairness of each thread of the process in what it can do by
itself. Nothing is assumed of the peer: a send need never succeed or fail, the
peer need never leave, and nobody need stop the session. The delay of the
backpressure handler is a timer and therefore fair, which is what makes
`EpisodeResolves` true of a consumer that never reads again.
`FeedServer`: the accept loop, the stop once begun, and the callbacks; that a
session which is closing ends is `CloseCompletes`. `GatewaySource`: timers fire,
the browser reports an opened socket and the end of a close, and a gateway that
accepts a socket greets it. The last is an assumption about a service whose code
is a stub today, and nothing in the client bounds the handshake if it fails.
`ExchangeDay`: a thread that can go on does; the host stops when a service of it
has failed, which is the default of `BackgroundServiceExceptionBehavior` and not
changed in `Program.cs`; and the second half of `StopAsync` runs when the first has
returned. The clock need not move: a wait ends by the token as well.
`TickView`: frames are drawn, the beat's timer fires and React runs its effects; the
network and the user may do nothing, so `ScreenCatchesUp` speaks of what has
arrived. `SimulatedSource`: a timer that stays set fires and a queued macrotask
runs. `DetailChart` has a fair specification beside the one that is checked: beats,
renders and the chart's interval.

### Where the code and what is said of it differ

`figures_onemove` ends in a counterexample. `percent.ts:2-4` says that one move
never reads as one figure in one place and as another elsewhere. A change of
stream while the pane is open drops its baseline (`useDetailQuote.ts:237`); no
tick sets it again, and `mergeTickIntoQuote` falls back to the tick's own price
(`detailQuote.ts:73`), so the pane reads 0.00% until a snapshot comes, while the
row of the same instrument is measured from the reference price that
`resetStream` restored.

The modules state more of what is said of the program than the runs check. Each
line below is a definition that TLC refutes in seconds when a configuration of its
module names it in place of the listed properties.

| Definition | The statement | The counterexample in short |
|---|---|---|
| `FeedSession!CompleteTape`, policy Disconnect | `FeedSession.cs:484-487`, a Disconnect session delivers a complete tape or closes | the publisher reads "backpressured", the handler finds nothing withheld and resumes, then the publisher withholds its batch; the session goes on with a hole |
| `FeedSession!FirstFrameIsSessionStart`, policy DropOldest | `FeedSession.cs:165-168`, the first frame is the session start | an episode that begins before the first buffer is sent discards it |
| `FeedSession!CheckpointSent` | `FeedSession.cs:713-716`, everything up to a heartbeat's number has left the process | a batch is numbered between the empty read and the encoding of the heartbeat |
| `FeedSession!SlowMeansSlow` | `FeedSession.cs:431-432`, who is counted as slow was slow | a failed send cancels the token the delay is linked to, and the delay ends first |
| `ExchangeDay!ListenerCoversTape`, `Patient = FALSE` | `FeedPublisherService.cs:25-27`, the listener is closed after the last batch | the shutdown timeout cancels the wait for the loop while it is inside a batch; the server stops and the next pass publishes to nobody |
| `GatewaySource!OneConnectionAlways` | `client-contract.md:142`, `config.ts:271-273`, one connection per client | "Retry now" during an automatic attempt; the old socket's close event clears the field that holds the new one, and a reconnect opens a third |
| `GatewaySource!CarriesEverySymbol` | `client-contract.md:142`, `config.ts:274`, the connection carries every symbol | "Retry now" after a drop: `connect()` does not subscribe again; also a message held back by the throttle and overtaken |
| `BoardAndDetail!BoardKept` | `StockList.tsx:78-80`, every row's subscription survives a pane | the pane's clean-up unsubscribes a symbol the board still shows |
| `TickView!BoardDiscardsOldTicks` | `client-contract.md:234-236`, buffered ticks of the old stream are discarded | `resetStream` clears the store but not the dispatcher, whose frame writes the old tick afterwards |
| `TickView!RowCountsTrades` | `store.ts:214`, volume accumulates across ticks, seeded from the last snapshot | a tick waits for its frame, a snapshot that counts its trade arrives, and the frame adds it again |
| `SimulatedSource!TapeStopsWithConnection` | `BoardBanners.tsx:158-159`, the prices are no longer moving while it reconnects | `getHistory` catches the session up and with it starts the engine |
| `MarketHeader!HeldSinceFirstDrop` | `useConnectionState.ts:57-58`, the prices have been held since the first drop | a manual retry passes through "connecting", which forgets the instant |
| `DetailChart!ChartNeverOfAnother` | `useDetailQuote.ts:74-79`, the points never render for a different symbol than the one displayed | the pane is switched, and before its effects run the history of the pane before is answered and stored; the effects do not clear it, and the new chart is seeded with it |
| `DetailChart!NeverMixed` | `client-contract.md:234-236`, the two streams are not mixed on one chart | a history answered on one stream arrives after a change to the other and is the seed of its chart |
| `DetailChart!FirstPaintIsALine` | `chartSeed.ts:16-17`, a lone point is doubled so that the first paint is a line | a history of one point and a snapshot of the same trade: the live price is no newer and the point is not doubled |
| `Board!PaneFollowsFocus` | `StockList.tsx:269`, the pane follows the focused row | a row is clicked and, before that navigation has committed, an arrow goes back to the row whose pane is still open: nothing is navigated, and the pane ends on the other |
| `Board!FocusSurvivesClosing` | `useBoardKeyboard.ts:46-48`, the focus is kept somewhere visible when the detail opens, switches or closes | a pane is open, a query filters its row out, the pane is closed: there is no row to give the focus back to, and it stays on the body |
| `Board!FocusStaysVisible` | `useBoardKeyboard.ts:47-49`, opening a pane moves the focus to its heading | the pane's code arrives, its heading replaces the skeleton's, and the focus is nowhere |

Other definitions hold under the same bounds and are not in a run. Most are proved
(below); `SnapshotsSettle`, `ValueReadsRight` and, under `FairSpec` with times up to 1,
`ChartCatchesUp` have only been model-checked.

In `pages` the user may retry whenever the banner offers it, in the middle of an automatic
attempt too, which leaves a socket behind whose close event comes late. `mistaken` is
the history variable that says that such an event was taken for one of the socket in use
(`CloseEvent` in a source that holds another): from then on the code has more than one
connection, `OneConnection` and `TimersGuardCurrent` exempt it, and `OneConnection` says
that it takes a retry to come to that. The properties about subscriptions are
stated for histories without a retry or a rate limit (`Undisturbed`): those are the
two ways by which the code loses subscriptions.

Smaller things met on the way, where no document is contradicted: a highlight
card whose change is under 0.005 % is spoken as "up 0.00%" (`HeroCards.tsx:199`
has no `isEffectivelyUnchanged`); the pane's pill is coloured by the sign of the
change although its text may read 0.00; an amount that rounds up to a thousand
prints in the next unit from 995 on; a snapshot for a cold deep link is dropped
by a store that has no universe yet; and `applySnapshot` of the store
(`store.ts:188`) is not "newer wins", as the pane is.

## What is proved

The theorems hold for every value of the constants that satisfies the modules'
assumptions, and are checked by TLAPS.

*FeedSessionProofs*, from `SessionAssumption` (the thresholds of a pipe, batches
of at least one record). `Invariance` shows `IInv` inductive: the types; `LoopInv`,
the write loop stays inside the buffer it read; `CloseInv`, whoever holds the
gate found the session running, and only a recorded close ends the loops;
`EpisodeInv`, one handler at a time and no flush pending while the session runs;
`OrderInv`, the wire, the unsent part of the pipe and the numbers not yet used
follow each other. `WireInOrder` alone is not inductive: a send takes the next
frame from the pipe, so its order needs that of the pipe, the position in it and
the publisher's reservation. Then `TypeCorrect` ([]TypeOK), `WireStaysInOrder`
([]WireInOrder) and `ClosingStaysFinal` (the action property `ClosingIsFinal`,
which needs `CloseInv` for the three writes of the state that are not a close).

From the same, `TapeStaysAccounted` is []TapeAccounted: its invariant `Accounted` adds the batch that the publisher has numbered and not yet
queued (`BatchInv`) to the wire, the pipe, the buffer and the two counts of lost
records, and every step moves numbers from one of these to another. On it,
`SessionImplementsTape`: under the mapping of `FeedSession` the initial states and
every step of a session are those of `FeedTape` or leave its variables unchanged.
`CleanEndsDrain` (from `DrainInv`: after the read that found the writer done nothing
is written), `DiscardsStayWithinEpisode` (`DiscardInv`: the request is raised by a
handler and cleared before it returns), `OneFlushInFlight` (`PipeInv`,
`NoFlushYet`), `PipeStaysBounded` if the batches have a largest
(`LargestBatchExists`), and `StartsWithSessionStart` under the Disconnect policy
(`StartInv`).

*ExchangeProofs*, from `GovernorAssumption` and `DayAssumption`. Of the governor:
`IInv` adds to the types and the
three accounts `CallInv`: a call goes on only under a schedule, and one whose
wait is over has seen its deadline on the clock. `EventsConserved`,
`TimeConserved` and `NeverAheadOfClock` follow, and `CatchUpTakesOneCall`. `CarryIsFraction`
and `BurstsAreCapped` also assume `BatchFitsInt`: a capped catch-up at the
highest rate fits an `int`. The clamp in the code leaves whole events in the
carry otherwise, and with the largest settings the options admit it can.
Of the day: `DayImplementsGovernor`, the loop, the clock and the host step the
governor only as `RateGovernor` specifies, so all of the above holds here.
`DayInv` adds that the thread is in the governor while a call is, what is scheduled and
not published is what the batch in hand still holds (`ThreadInv`), the listener stands
by the thread (`HostInv`), and phase and rate are the market's unless a boundary has
passed (`FreshInv`). From them `PublishedAsScheduled`, `StaleAtMostOnce`,
`DayPaysOnce`, `DayTypeCorrect`, and `TapeIsCovered` if the host is patient.
`BatchesFit` needs `BatchFitsInt` again: a batch is less than an event more than
`Largest`, the buffer is `Largest` rounded up, and both are whole; and in a closed phase
the fraction carried is less than an event.

Of the server, from `ServerAssumption` (finitely many connections, at least
one slot): the count of slots is the cardinality of a set, `Holders`: the roster,
what the stop took from it, the connection being admitted, and the closes that
have left the roster but not given back their slot. The rest of `ServerInv` says
enough about who can be in which of these to show that each step adds or removes
at most one. From it: `ServerTypeCorrect`, `AdmissionIsBounded`, `SlotsAreConserved`,
`LedgerIsSound`, `OpenStaysReachable`, `FanOutIsComplete`, `StopIsComplete`.

*PagesProofs*, for any number of sockets, drops, rate limits, retries and symbols. `LinkInv`
relates the fields of the source to the sockets and gives `OneSocketAtATime` and
`TimersStayWithTheirs`: a usable socket is the one held (`UsableIsHeld`), and until a retry
so is every socket whose close event may still come (`FirstReporterIsHeld`), so none
can be mistaken. After a retry there may be one, and the invariant is left with the step
that mistakes it. `SubscriptionsCarried` is about histories without a retry. A live socket has been asked for what
is subscribed, but that is no longer said of one that is still being greeted, so
`Carried` says what will be sent to it: the queue never asks for more than is wanted
(`QueueAsksWanted`), that of a first connection asks for all of it
(`FirstQueueIsAll`), and behind any other socket a reconnect waits that will ask again
(`ReconnectWaits`). What a queue asks for is a recursive function of it (`Served`), and
the lemmas about it are by induction on its length. `PaneIsCarried` adds that
what the pane shows is wished for (`PaneWished`), and `NothingIsLeft` that nothing else is
(`StillWished`).

*TickViewProofs*, from `NoneAssumption`. `NoTradeLost` is about the dispatcher: what waits
in it is the quantity received that no frame has written, which needs that an unprimed
store is empty (`StoreInv`); `OldTicksDiscarded` and `QuoteIsOfItsPane` need of each message on
its way which stream it will find the client on (`WireInStreams`), and of each that
waits for the pane or answers it that it is of its symbol and stream (`PaneInv`).
`NewerAlwaysWins` is an action property from the same.

*CalendarProofs*, from `CalendarAssumption`, `HeaderAssumption` and
`SimulatedAssumption`: for every set of instants and every two midnights of a
Friday on which the clocks change. `CalendarStaysSound` is []StatusSound, and says
more than the run, which looks at the instants of one spring and autumn: `SoundAt`
holds at every instant (`CalendarIsSound`). That the two
corrections of a civil time end at it needs that no session is near a change, and that
a day from now is tomorrow that the day of a change is not traded.
`PageStaysCoherent`: an observer that has not lost an event shows the source's state
from its first render on, not only once it watches (`Agreed`). `BoundaryStaysArmed`: the
timer is set for what the shown status names (`TimerNamesIt`), and a status stands until
the boundary it names (`StatusStands`), which follows from `SoundAt`.
`HeldSinceStays` is []HeldSinceKept: a board that has lost no event knows the source's
state, and an outage without a connection to retry is one the user has retried (`HeldInv`).
Of the simulated source: `EngineStaysWithMarket` (`EngineInv`); `DelayStaysKept`,
whose invariant `DelayInv` adds that what waits is DELAYED and in the order of its
numbers (`QueueInv`) and that nothing that went out on that stream was made later
(`OutInv`); `SourceStaysQuiet`, because a batch asks the calendar before it delivers;
and `HistoryStaysASession`, whose `TapeInv` says of the tape of every symbol that it
lies in the session that was last ensured and is not ahead of it, so that samples taken
live continue those that were rebuilt.

*ChartProofs*, from `ChartAssumption`, for any capacity, lag and symbols. A chart is of
its pane because all it is made of is (`PaneInv`): a request keeps the symbol it was
made for, and once the effects of a pane have run the requests still wanted are its own.
Before that the history of the pane before may be stored, and the points of the chart it
seeds are of any symbols (`OnChart`), while the header's prices are of the pane still.
`ChartStaysWithItsPane` and
`ChartStaysTyped` follow. `TagStaysASample` needs that what is plotted is the buffer
unless a sample draws in, and is empty only with it (`DrawInv`); `NameStaysWithTheLine`
that the name is taken from the buffer and not from the plot.

*BoardProofs*, from `BoardAssumption` (finitely many symbols, none of which is the
name of something else). `Ranked` chooses an arrangement of the rows, so the first lemma
is that there is one (`RankingExists`: the rank of a row is the number of those that do
not follow it) and the second what it is (`RankedIs`: every row once, in order).
`BoardInv` has the rows a permutation of the matches, what is subscribed the rows and
the cards, and the three invariants of the run, which are then inductive:
`RowsStayInOrder`, `PicksStayTrue` and `FocusStaysLookedAfter`. `BoardStaysTyped` and
`EnterStaysWithTheQuery`, the run's action property, are from the same.

*FigureProofs*, from `FiguresAssumption`. `ChipIsExact`, for all prices: the
percentage that is truncated to four places, rounded to two and suppressed under
0.005 % prints what the exact ratio rounds to (`RoundsOnce`: the two roundings
never disagree with one). `RowAgrees` is []RowFiguresAgree from `RowInv`, which says of
every snapshot on its way, and of every record of the store, that change and
percentage were made with the one baseline. `CaptionTrue` is []CaptionIsTrue, that the
pane's caption names what its change was measured from, but no more than for quotes that
were made when there was a snapshot to measure them from, and for one session whose
snapshots all name one close and one open: within it a late snapshot moves the figures
back but not what they are measured from. A pane left open into the next session is
outside the model.

Induction over data. The induction theorems of the library take an operator as a
parameter, which the provers cannot instantiate. `WFMin` and
`NatLessThanWellFounded` take sets, and give that a set of numbers has a least member
(`LeastOf`); from it follow induction along a number for the members of a set
(`Induction`), and greatest members (`MaxOf`). That is enough for the recursive
functions of these modules and for the minima and maxima of the calendar.

## What is only model-checked

The seven liveness properties of the runs: `CloseCompletes`, `EpisodeResolves`,
`StopCompletes`, `LedgerSettles`, `StopReleasesListener`, `Recovers` and
`ScreenCatchesUp`. The prover does not handle fairness or ENABLED. Every invariant and
action property that a passing run checks is also proved.

The other way round, proved and checked by no run: `AdmissionIsBounded`,
`LedgerIsSound`, `OpenStaysReachable`, `CatchUpTakesOneCall`, `CarryIsFraction`,
`BurstsAreCapped`, `EventsConserved`, `NeverAheadOfClock`, `TapeIsCovered`,
`PipeStaysBounded`, `OneFlushInFlight`, `StartsWithSessionStart`, `QuoteIsOfItsPane`,
`NothingIsLeft`, `HeldSinceStays`, `SourceStaysQuiet`, `NameStaysWithTheLine`, `CaptionTrue`,
`ChipIsExact` and the type invariants of the session, the server, the governor, the day,
the chart and the board. The inductive invariants of the pages, the calendar, the chart
and the board were checked by TLC on the instances of the runs before they were proved.

## What is not modelled

- `FeedMetrics`, `RollingRateWindow`, `ThroughputReporter`: counters behind locks, and
  their printing.
- The summer time of the exchange's zone, and the warning of a clamped rate.
- The wire format. Byte layouts are covered by the round-trip tests.
- Record generation and reference data: arithmetic on doubles and a 64-bit random
  source; statistical, and sequential.
- `ProbeSession` and its reports: a measuring tool.
- The volume, the high and low, and the suggestions of the detail pane; sparklines; the
  volumes and depth of the simulated tape; the delay that a back-off draws.
- The rest of the React tree: routing, motion, themes, axes, layout. It renders what
  the modelled state holds.
- `Tckr.MarketData.*`: hosts without behaviour.

## Plan

1. `FeedProbe`: the probe's gap accounting as a client of `FeedTape`, so that
   what it reports lost is what the session withheld.
2. Rolling windows; the frame reader over arbitrary splits.
3. The volume of the pane, in `QuoteFigures`.
4. `SimulatedSource` with the pages, in place of `GatewaySource`.
5. `ExchangeDay` over the actions of `FeedServer`, in place of `listener`.
6. Proofs: `ValueReadsRight`; what is proved of a frame's path through
   `FeedTape` for the probe, once it is modelled.
