--------------------------- MODULE SimulatedSource ---------------------------
(***************************************************************************)
(* The in-browser source: a seeded random walk that follows the trading    *)
(* calendar, behind a delay queue for a DELAYED user.  Three timers drive  *)
(* it (the market clock, the batch engine, the reconnection after a        *)
(* simulated drop); each fires whenever it is set, as late as it likes.    *)
(* Prices are counted in ticks of the instrument's grid.                   *)
(***************************************************************************)
EXTENDS MarketCalendar, Sequences, SequencesExt, FiniteSetsExt

CONSTANTS Symbols,          \* the universe
          Unlisted,         \* a symbol outside it
          Users,            \* the demo users ...
          DelayedUser,      \* ... of whom this one is entitled to DELAYED only
          Reference,        \* the previous close, in ticks
          LiveSteps,        \* most ticks one live step moves
          BackfillSteps,    \* most ticks one backfilled slot moves
          SampleInterval,   \* HISTORY_SAMPLE_INTERVAL_MS
          DelayOffset,      \* delayedOffsetMs
          MaxTicks,         \* bound: ticks generated
          MaxRequests,      \* bound: snapshot requests waiting
          MaxDrops,         \* bound: simulated drops
          MaxSwitches       \* bound: entitlement changes

ASSUME SimulatedAssumption ==
  /\ Unlisted \notin Symbols /\ DelayedUser \in Users
  /\ Reference \in Nat \ {0} /\ LiveSteps \in Nat /\ BackfillSteps \in Nat
  /\ SampleInterval \in Nat \ {0} /\ DelayOffset \in Nat

VARIABLES
  clock,          \* Date.now()
  user,           \* config.demoUser
  stream,         \* identityValue.stream, NoStream before the first connection
  connection,     \* currentConnectionState
  marketClock,    \* marketClockHandle is set
  engine,         \* intervalHandle is set
  dropTimer,      \* dropReconnectTimer is set
  session,        \* currentSessionDateKey, NoSession before the first backfill
  marketState,    \* lastKnownMarketState
  lastSampleAt,   \* lastHistorySampleAt
  runtime,        \* runtimeBySymbol
  generated,      \* globalEventSeq
  subscribed,
  delayQueue,     \* the ticks held back, with the instant each is due
  requests,       \* snapshotRequests
  macrotask,      \* a drain is queued by getSnapshot's setTimeout
  out,            \* every tick handed to the handlers and the dispatcher
  drops, switches \* counted for the bounds

lines    == <<connection, marketClock, dropTimer, drops>>
tape     == <<engine, session, marketState, lastSampleAt, runtime>>
ticks    == <<generated, delayQueue, out>>
viewer   == <<user, stream, switches>>
snaps    == <<requests, macrotask>>
simVars  == <<clock, viewer, lines, tape, ticks, snaps, subscribed>>

NoStream  == "none"
NoSession == -7                        \* the date of no session: instants are of 1970 and after
ResolveStream(u) == IF u = DelayedUser THEN "DELAYED" ELSE "LIVE"
CurrentStream == IF stream = NoStream THEN ResolveStream(user) ELSE stream

(* The seeded walk of a day, as a fixed function of the day and the slot: the same day
   always backfills identically, and never below one tick.                 *)
Walk(date, slot) == Max({1, Reference + ((date + 2 * slot) % (2 * BackfillSteps + 1)) - BackfillSteps})

(* A session rebuilt at once, one sample per slot, from its open to a target instant. *)
Backfilled(openAt, target, date) ==
  LET slots == Max({0, (target - openAt) \div SampleInterval})
      walked == {Walk(date, n) : n \in 0 .. slots}
  IN  [open |-> Walk(date, 0), price |-> Walk(date, slots), high |-> Max(walked),
       low |-> Min(walked), id |-> 0,
       history |-> [n \in 1 .. slots + 1 |->
         [t |-> openAt + (n - 1) * SampleInterval, price |-> Walk(date, n - 1)]]]

(* A live step: a price moved by some ticks, never below one; the range follows it. *)
Step(r, ticksMoved) ==
  LET next == Max({1, r.price + ticksMoved})
  IN  [r EXCEPT !.price = next, !.high = Max({@, next}), !.low = Min({@, next})]

Running(status) == status.state = "open"

(* What ensureSessionFor makes of the tape: a new session, or a market that opened or
   closed, is backfilled up to now or to the close, and the engine runs while it is open. *)
CaughtUp(status) ==
  LET changed == status.session # session \/ status.state # marketState
      target  == IF Running(status) THEN clock ELSE status.closeAt
  IN  [session |-> status.session, state |-> status.state, engine |-> Running(status),
       sampleAt |-> IF changed THEN target ELSE lastSampleAt,
       runtime |-> IF changed
                   THEN [s \in Symbols |-> Backfilled(status.openAt, target, status.session)]
                   ELSE runtime]

(* Every waiting request is answered, or refused for an unknown symbol.    *)
DrainSnapshotRequests == requests' = <<>>

(* Mutant: the engine is started for a market that opens and never stopped. *)
NeverStops(ensured) ==
  /\ session' = ensured.session /\ marketState' = ensured.state
  /\ engine' = (engine \/ ensured.engine) /\ lastSampleAt' = ensured.sampleAt
  /\ runtime' = ensured.runtime

Becomes(ensured) ==
  /\ session' = ensured.session /\ marketState' = ensured.state
  /\ engine' = ensured.engine /\ lastSampleAt' = ensured.sampleAt
  /\ runtime' = ensured.runtime

(* ensureSessionFor as a step: it also answers every snapshot request.     *)
EnsureSession == Becomes(CaughtUp(StatusAt[clock])) /\ DrainSnapshotRequests

SimInit ==
  /\ clock = Min(Instants)
  /\ user \in Users /\ stream = NoStream /\ switches = 0
  /\ connection = "closed" /\ marketClock = FALSE /\ dropTimer = FALSE /\ drops = 0
  /\ engine = FALSE /\ session = NoSession /\ marketState = "none" /\ lastSampleAt = -1
  /\ runtime = [s \in Symbols |->
       [open |-> Reference, price |-> Reference, high |-> Reference, low |-> Reference,
        id |-> 0, history |-> <<>>]]
  /\ generated = 0 /\ delayQueue = <<>> /\ out = <<>>
  /\ requests = <<>> /\ macrotask = FALSE /\ subscribed = {}

(* connect() of a source that is not connected: the session is caught up before
   "connected" is announced.                                               *)
Establish ==
  /\ stream' = ResolveStream(user)
  /\ EnsureSession
  /\ marketClock' = TRUE /\ connection' = "connected"
  /\ UNCHANGED <<clock, user, switches, drops, ticks, macrotask, subscribed>>

(* getSharedSource() connects the source when it creates it.               *)
Connect == stream = NoStream /\ Establish /\ UNCHANGED dropTimer

(* reconnectSharedSource(): disconnect() clears the three timers, connect() starts over. *)
Reconnect == stream # NoStream /\ Establish /\ dropTimer' = FALSE

(* Unknown symbols are reported and skipped.                               *)
Subscribe(wanted) ==
  /\ subscribed' = subscribed \cup (wanted \cap Symbols)
  /\ UNCHANGED <<clock, viewer, lines, tape, ticks, snaps>>

Unsubscribe(unwanted) ==
  /\ subscribed' = subscribed \ unwanted
  /\ UNCHANGED <<clock, viewer, lines, tape, ticks, snaps>>

(* getSnapshot(): answered by the engine's next batch, or by a macrotask when it is idle. *)
GetSnapshot(s) ==
  /\ Len(requests) < MaxRequests
  /\ requests' = Append(requests, s)
  /\ macrotask' = (macrotask \/ ~ engine)
  /\ UNCHANGED <<clock, viewer, lines, tape, ticks, subscribed>>

DrainMacrotask ==
  /\ macrotask
  /\ macrotask' = FALSE /\ DrainSnapshotRequests
  /\ UNCHANGED <<clock, viewer, lines, tape, ticks, subscribed>>

(* getHistory() catches the session up even when nothing is connected.     *)
GetHistory ==
  /\ EnsureSession
  /\ UNCHANGED <<clock, viewer, lines, ticks, macrotask, subscribed>>

(* The points getHistory() answers with: the samples, then the current price while the
   market is open.                                                         *)
HistoryPoints(s) ==
  LET samples == runtime[s].history
      fresh   == samples = <<>> \/ Last(samples).t < clock
  IN  IF StatusAt[clock].state = "open" /\ fresh
      THEN Append(samples, [t |-> clock, price |-> runtime[s].price])
      ELSE samples

(* The demo user moves between entitlements; what is on screen is discarded by
   resetStream(), the delay queue is not touched.                          *)
SimulateEntitlementChange(u) ==
  /\ switches < MaxSwitches /\ u # user
  /\ user' = u /\ switches' = switches + 1
  /\ stream' = IF stream = NoStream THEN NoStream ELSE ResolveStream(u)
  /\ UNCHANGED <<clock, lines, tape, ticks, snaps, subscribed>>

(* The tape drops as a transport would; only a recoverable code is retried. *)
SimulateDrop(recoverable) ==
  /\ marketClock /\ drops < MaxDrops
  /\ drops' = drops + 1
  /\ marketClock' = FALSE /\ engine' = FALSE
  /\ connection' = IF recoverable THEN "reconnecting" ELSE "closed"
  /\ dropTimer' = (recoverable \/ dropTimer)
  /\ UNCHANGED <<clock, viewer, session, marketState, lastSampleAt, runtime, ticks, snaps,
                 subscribed>>

(* The retry: connect() does nothing if the source is connected again.     *)
DropTimerFires ==
  /\ dropTimer /\ dropTimer' = FALSE
  /\ \/ marketClock /\ UNCHANGED <<clock, viewer, tape, ticks, snaps, subscribed, drops,
                                    marketClock, connection>>
     \/ ~ marketClock /\ Establish

MarketClockFires ==
  /\ marketClock
  /\ EnsureSession
  /\ UNCHANGED <<clock, viewer, lines, ticks, macrotask, subscribed>>

(* A tick reaches the handlers and the dispatcher only if its symbol is subscribed: what
   is out after n ticks of a batch.                                        *)
Stamped(tick) == [tick EXCEPT !.emittedAt = clock]

Emitted(batch) ==
  LET after[n \in 0 .. Len(batch)] ==
        IF n = 0 THEN out
        ELSE IF batch[n].s \in subscribed THEN Append(after[n - 1], Stamped(batch[n]))
        ELSE after[n - 1]
  IN  after[Len(batch)]

Emit(batch) == out' = Emitted(batch)

(* Mutant: a held tick is due when it is made. *)
DueEarly(tick) == tick.madeAt <= clock

Due(tick) == tick.madeAt + DelayOffset <= clock

(* deliver() and drainDelayedQueue(): a DELAYED user's tick joins the queue; whatever at
   the head of the queue is due goes out.                                  *)
Deliver(tick) ==
  LET held     == CurrentStream = "DELAYED"
      queue    == IF held THEN Append(delayQueue, tick) ELSE delayQueue
      waiting  == {i \in 1 .. Len(queue) : ~ Due(queue[i])}
      released == IF waiting = {} THEN Len(queue) ELSE Min(waiting) - 1
  IN  /\ delayQueue' = SubSeq(queue, released + 1, Len(queue))
      /\ Emit((IF held THEN <<>> ELSE <<tick>>) \o SubSeq(queue, 1, released))

(* sampleHistory(): every symbol's price joins its history.                *)
Sampled(r) == [r EXCEPT !.history = Append(@, [t |-> clock, price |-> r.price])]

(* generateOne(): one symbol moves by a step, and the tick that says so is delivered. *)
GenerateOne(before, s, moved) ==
  /\ runtime' = [before EXCEPT ![s] = [Step(@, moved) EXCEPT !.id = generated + 1]]
  /\ generated' = generated + 1
  /\ Deliver([s |-> s, id |-> generated + 1, st |-> CurrentStream, madeAt |-> clock, emittedAt |-> 0])

(* Mutant: the first live sample does not wait for the interval. *)
SampleDueAtOnce(at) == clock >= at

SampleDue(at) == clock - at >= SampleInterval

(* generateBatch(): catch up, sample at most once an interval, generate a tick, deliver or
   hold it, release what is due.  A market found closed has just stopped the engine. *)
GenerateBatch(ensured, due) ==
  /\ session' = ensured.session /\ marketState' = ensured.state
  /\ engine' = ensured.engine /\ DrainSnapshotRequests
  /\ \/ /\ ~ ensured.engine
        /\ runtime' = ensured.runtime /\ lastSampleAt' = ensured.sampleAt
        /\ UNCHANGED ticks
     \/ /\ ensured.engine /\ generated < MaxTicks
        /\ lastSampleAt' = IF due THEN clock ELSE ensured.sampleAt
        /\ \E s \in Symbols, moved \in -LiveSteps .. LiveSteps :
             GenerateOne([x \in Symbols |->
               IF due THEN Sampled(ensured.runtime[x]) ELSE ensured.runtime[x]], s, moved)

BatchFires ==
  /\ engine
  /\ LET ensured == CaughtUp(StatusAt[clock])
     IN  GenerateBatch(ensured, SampleDue(ensured.sampleAt))
  /\ UNCHANGED <<clock, viewer, lines, macrotask, subscribed>>

(* Time passes, and no timer is punctual.                                  *)
TimePasses ==
  /\ \E t \in Instants : t > clock
  /\ clock' = Min({t \in Instants : t > clock})
  /\ UNCHANGED <<viewer, lines, tape, ticks, snaps, subscribed>>

SimNext ==
  \/ Connect \/ Reconnect \/ DropTimerFires \/ MarketClockFires \/ BatchFires
  \/ DrainMacrotask \/ GetHistory \/ TimePasses
  \/ \E s \in Symbols \cup {Unlisted} : GetSnapshot(s) \/ Subscribe({s}) \/ Unsubscribe({s})
  \/ \E u \in Users : SimulateEntitlementChange(u)
  \/ \E recoverable \in BOOLEAN : SimulateDrop(recoverable)

(* A timer that stays set fires, and a queued macrotask runs.              *)
Fairness ==
  WF_simVars(DrainMacrotask) /\ WF_simVars(MarketClockFires) /\ WF_simVars(DropTimerFires)

SimSpec == SimInit /\ [][SimNext]_simVars /\ Fairness

-----------------------------------------------------------------------------
(* Types.                                                                  *)
SimTypeOK ==
  /\ clock \in Instants /\ user \in Users /\ stream \in {NoStream, "LIVE", "DELAYED"}
  /\ connection \in {"closed", "connected", "reconnecting"}
  /\ marketClock \in BOOLEAN /\ engine \in BOOLEAN /\ dropTimer \in BOOLEAN
  /\ marketState \in {"none", "open", "closed"}
  /\ subscribed \subseteq Symbols /\ generated \in 0 .. MaxTicks
  /\ Len(requests) <= MaxRequests

(* The engine runs while, and only while, the market was last seen open: a connected
   source never trades a closed market and never sits idle in an open one (SimulatedSource.ts
   ensureSessionFor).                                                      *)
EngineFollowsMarket ==
  /\ engine => marketState = "open"
  /\ marketClock => (engine <=> marketState = "open")

(* No tick leaves the source while EGX is closed, however late the timers that stop the
   engine are, held-back ticks included (generateBatch).                   *)
QuietWhileClosed ==
  \A i \in 1 .. Len(out) : StatusAt[out[i].emittedAt].state = "open"

(* A DELAYED tick is held for the whole offset, is sent once, and never overtakes an
   earlier one of its stream (deliver, drainDelayedQueue).                 *)
DelayIsKept ==
  /\ \A i \in 1 .. Len(out) :
       out[i].st = "DELAYED" => out[i].emittedAt - out[i].madeAt >= DelayOffset
  /\ \A i, j \in 1 .. Len(out) : i < j /\ out[i].st = out[j].st => out[i].id < out[j].id

(* The samples of a session lie inside it, in order, an interval or more apart, across the
   seam between the backfill and the live samples too; what getHistory() answers ends at
   the present while the market is open and inside the session once it has closed; and
   the price shown is inside the day's range (computeBackfilledSession, sampleHistory,
   generateOne, getHistory).                                               *)
HistoryIsASession ==
  session # NoSession =>
    \A s \in Symbols :
      LET r == runtime[s]
          h == r.history
          points == HistoryPoints(s)
          status == StatusAt[clock]
      IN  /\ r.price \in r.low .. r.high /\ r.open \in r.low .. r.high /\ r.low >= 1
          /\ \A i \in 1 .. Len(h) : /\ h[i].t >= SessionOf(session).openAt
                                     /\ h[i].price \in r.low .. r.high
          /\ \A i \in 1 .. Len(h) - 1 : h[i + 1].t - h[i].t >= SampleInterval
          /\ status.session = session /\ status.state = marketState =>
               /\ Last(points).t <= status.closeAt
               /\ status.state = "open" => Last(points).t = clock

(* A snapshot request is answered whatever the market does, unless the source goes down
   first (getSnapshot, ensureSessionFor).                                  *)
SnapshotsSettle == []<>(requests = <<>> \/ ~ marketClock)

(* "Prices below are the last values received and are no longer moving", says the banner
   shown while the source reconnects: no tick is generated until it is connected. *)
TapeStopsWithConnection == engine => connection = "connected"
=============================================================================
