---------------------------- MODULE MarketHeader ----------------------------
(***************************************************************************)
(* What the page says about the market and the stream: the connection pill *)
(* and the stream badge of the header, and the banners of the board.  Each *)
(* is an observer of its own: seeded when it renders, it subscribes to the *)
(* source and sets its timers only when its effects run, so an event in    *)
(* between is lost on it.  The source is any that keeps the MarketDataSource *)
(* contract; time is a set of instants, and timers fire late.              *)
(***************************************************************************)
EXTENDS MarketCalendar, FiniteSetsExt

CONSTANT MaxEvents         \* bound: events of the source

ASSUME HeaderAssumption == MaxEvents \in Nat

VARIABLES
  now,           \* Date.now()
  conn,          \* the source's ConnectionState kind
  identity,      \* the source's identity().stream, or None
  stage,         \* per observer: away, rendered, watching
  status,        \* per observer: what its useMarketStatus() holds
  armed,         \* per observer: the instant its boundary timer is set for, or Never
  pill,          \* ConnectionStatus: the state it shows
  view,          \* the board's useConnectionState(): [state, heldSince]
  viewerStream,  \* the board's useViewerStream()
  badge,         \* StreamBadge: [stream, flips, flippedFrom]
  bell,          \* useOpeningBell(): [shown, previous]
  recovery,      \* useRecoveryMoment(): [shown, interrupted]
  events,        \* counted for the bound
  missed,        \* history: the observers that lost an event and have had none since
  outage,        \* history: [at, retried] of the outage in progress
  heardFrom      \* history: the instant since which the board has lost no event, or Never

source   == <<conn, identity, events, outage>>
clocks   == <<status, armed>>
moments  == <<bell, recovery>>
boardHas == <<view, viewerStream>>
vars     == <<now, source, stage, clocks, pill, boardHas, badge, moments, missed, heardFrom>>

Observers == {"pill", "badge", "board"}
Streams   == {"LIVE", "DELAYED"}
None      == "none"
Never     == -1
IsHeld(state) == state \in {"reconnecting", "closed"}
NoOutage  == [at |-> Never, retried |-> FALSE]

Init ==
  /\ now \in Instants /\ (\A t \in Instants : now <= t)
  /\ conn = "connecting" /\ identity = None /\ events = 0
  /\ outage = NoOutage /\ missed = {} /\ heardFrom = Never
  /\ stage = [w \in Observers |-> "away"]
  /\ status = [w \in Observers |-> StatusAt[now]] /\ armed = [w \in Observers |-> Never]
  /\ pill = "connecting" /\ view = [state |-> "connecting", heldSince |-> Never]
  /\ viewerStream = None /\ badge = [stream |-> None, flips |-> 0, flippedFrom |-> None]
  /\ bell = [shown |-> FALSE, previous |-> StatusAt[now].state]
  /\ recovery = [shown |-> FALSE, interrupted |-> FALSE]

-----------------------------------------------------------------------------
(* Mounting: what each observer reads when it first renders.               *)
Render(w) ==
  /\ stage[w] = "away" /\ stage' = [stage EXCEPT ![w] = "rendered"]
  /\ status' = [status EXCEPT ![w] = StatusAt[now]]
  /\ pill' = IF w = "pill" THEN conn ELSE pill
  /\ badge' = IF w = "badge" THEN [badge EXCEPT !.stream = identity] ELSE badge
  /\ view' = IF w = "board"
             THEN [state |-> conn, heldSince |-> IF IsHeld(conn) THEN now ELSE Never] ELSE view
  /\ viewerStream' = IF w = "board" THEN identity ELSE viewerStream
  /\ bell' = IF w = "board" THEN [bell EXCEPT !.previous = StatusAt[now].state] ELSE bell
  /\ heardFrom' = IF w = "board" THEN now ELSE heardFrom
  /\ UNCHANGED <<now, source, armed, recovery, missed>>

(* Mutant: an interruption is not forgotten when it is over. *)
RecoveringAlways(state) ==
  CASE IsHeld(state) -> [recovery EXCEPT !.interrupted = TRUE]
    [] state = "connected" /\ recovery.interrupted -> [recovery EXCEPT !.shown = TRUE]
    [] OTHER -> recovery

(* useRecoveryMoment's effect, on the state last committed.                *)
Recovering(state) ==
  CASE IsHeld(state) -> [recovery EXCEPT !.interrupted = TRUE]
    [] state = "connected" /\ recovery.interrupted -> [shown |-> TRUE, interrupted |-> FALSE]
    [] OTHER -> recovery

(* The effects run: handlers are registered, the boundary timer is set.    *)
Watch(w) ==
  /\ stage[w] = "rendered" /\ stage' = [stage EXCEPT ![w] = "watching"]
  /\ armed' = [armed EXCEPT ![w] = status[w].nextChangeAt]
  /\ recovery' = IF w = "board" THEN Recovering(view.state) ELSE recovery
  /\ UNCHANGED <<now, source, status, pill, boardHas, badge, bell, missed, heardFrom>>

(* Whoever has rendered and does not watch yet loses an event; a status event repairs an
   observer that has lost one.                                             *)
Heard(hearers, repaired) ==
  /\ missed' = (missed \cup {w \in hearers : stage[w] = "rendered"})
                \ {w \in repaired : stage[w] = "watching"}
  /\ heardFrom' = IF stage["board"] = "rendered" THEN Never ELSE heardFrom

(* A drop keeps the instant of the one before it.                          *)
HeldSince(state) ==
  IF ~ IsHeld(state) THEN Never ELSE IF view.heldSince = Never THEN now ELSE view.heldSince

(* Status handlers: only the last of the events emitted in one task is rendered. *)
StatusEvent(state, stream) ==
  /\ conn' = state /\ identity' = stream
  /\ events < MaxEvents /\ events' = events + 1
  /\ Heard(Observers, Observers)
  /\ pill' = IF stage["pill"] = "watching" THEN state ELSE pill
  /\ badge' = IF stage["badge"] = "watching" THEN [badge EXCEPT !.stream = stream] ELSE badge
  /\ IF stage["board"] = "watching"
     THEN /\ view' = [state |-> state, heldSince |-> HeldSince(state)]
          /\ viewerStream' = stream
          /\ recovery' = Recovering(state)
     ELSE UNCHANGED <<boardHas, recovery>>
  /\ UNCHANGED <<now, stage, clocks, bell>>

(* The server's "connected"; it alone assigns the stream.                  *)
Connected ==
  /\ conn \in {"connecting", "reconnecting"}
  /\ \E stream \in Streams : StatusEvent("connected", stream)
  /\ outage' = NoOutage

(* A transport closes: "closed", followed at once by "reconnecting" when it is retried. *)
Dropped ==
  /\ conn \in {"connecting", "connected", "reconnecting"}
  /\ \E state \in {"closed", "reconnecting"} : StatusEvent(state, identity)
  /\ outage' = IF outage = NoOutage THEN [at |-> now, retried |-> FALSE] ELSE outage

EntitlementChanged ==
  /\ conn = "connected" /\ events < MaxEvents /\ events' = events + 1
  /\ \E stream \in Streams \ {identity} :
       /\ identity' = stream
       /\ badge' = IF stage["badge"] = "watching"
                   THEN [stream |-> stream, flips |-> badge.flips + 1, flippedFrom |-> badge.stream]
                   ELSE badge
       /\ viewerStream' = IF stage["board"] = "watching" THEN stream ELSE viewerStream
  /\ Heard({"badge", "board"}, {})
  /\ UNCHANGED <<now, conn, outage, stage, clocks, pill, view, moments>>

(* The connection banner: which one is shown, and so whether a retry is offered. *)
ConnectionBanner ==
  CASE stage["board"] = "away" -> None
    [] view.state = "reconnecting" -> "dropped, retry now"
    [] view.state = "closed" -> "disconnected, reconnect"
    [] OTHER -> None

(* Its button: reconnectSharedSource() emits "closed" and then "connecting". *)
Retry ==
  /\ ConnectionBanner # None
  /\ StatusEvent("connecting", identity)
  /\ outage' = IF outage = NoOutage THEN outage ELSE [outage EXCEPT !.retried = TRUE]

-----------------------------------------------------------------------------
(* Mutant: the timer is set for the first boundary only. *)
ArmedOnce(w, fresh, pending) == pending

(* useMarketStatus: a poll, and a timer at the boundary the status names, set again only
   when that boundary changes.                                             *)
Armed(w, fresh, pending) ==
  IF fresh.nextChangeAt # status[w].nextChangeAt THEN fresh.nextChangeAt ELSE pending

(* useOpeningBell's effect, on the state last committed.                   *)
Ringing(fresh) ==
  [shown |-> bell.shown \/ (bell.previous = "closed" /\ fresh.state = "open"),
   previous |-> fresh.state]

RefreshStatus(w, pending) ==
  /\ stage[w] = "watching"
  /\ status' = [status EXCEPT ![w] = StatusAt[now]]
  /\ armed' = [armed EXCEPT ![w] = Armed(w, StatusAt[now], pending)]
  /\ bell' = IF w = "board" THEN Ringing(StatusAt[now]) ELSE bell
  /\ UNCHANGED <<now, source, stage, pill, boardHas, badge, recovery, missed, heardFrom>>

Poll(w) == RefreshStatus(w, armed[w])

BoundaryFires(w) == armed[w] # Never /\ armed[w] <= now /\ RefreshStatus(w, Never)

(* useMoment: a moment passes, by its timer or by "Dismiss".               *)
BellEnds ==
  /\ bell.shown /\ bell' = [bell EXCEPT !.shown = FALSE]
  /\ UNCHANGED <<now, source, stage, clocks, pill, boardHas, badge, recovery, missed, heardFrom>>

RecoveryEnds ==
  /\ recovery.shown /\ recovery' = [recovery EXCEPT !.shown = FALSE]
  /\ UNCHANGED <<now, source, stage, clocks, pill, boardHas, badge, bell, missed, heardFrom>>

Advance ==
  /\ \E t \in Instants :
       /\ t > now /\ \A u \in Instants : u > now => t <= u
       /\ now' = t
  /\ UNCHANGED <<source, stage, clocks, pill, boardHas, badge, moments, missed, heardFrom>>

Next ==
  \/ Connected \/ Dropped \/ EntitlementChanged \/ Retry \/ BellEnds \/ RecoveryEnds \/ Advance
  \/ \E w \in Observers : Render(w) \/ Watch(w) \/ Poll(w) \/ BoundaryFires(w)

Spec == Init /\ [][Next]_vars

-----------------------------------------------------------------------------
(* What the viewer reads.                                                  *)
ConnectionPill ==
  [state |-> pill,
   idle |-> IF pill = "connected" /\ status["pill"].state # "open"
            THEN IF IsPreOpenAuction(status["pill"], now) THEN "auction" ELSE "closed" ELSE None]

StreamBadge ==
  [stream |-> badge.stream,
   idle |-> badge.stream = "LIVE" /\ status["badge"].state # "open",
   from |-> IF badge.flips > 0 THEN badge.flippedFrom ELSE None]

FormatUntil(halfHours) ==
  LET wait == Max({0, halfHours})
  IN  CASE wait >= Day  -> [days |-> wait \div Day, hours |-> (wait % Day) \div Hour]
        [] wait >= Hour -> [hours |-> wait \div Hour, halves |-> wait % Hour]
        [] OTHER        -> [halves |-> wait]

MarketClosedBanner ==
  IF status["board"].state # "closed" THEN [shown |-> FALSE]
  ELSE [shown |-> TRUE, preOpen |-> IsPreOpenAuction(status["board"], now),
        opens |-> FormatNextOpen(status["board"], now),
        until |-> FormatUntil(status["board"].nextChangeAt - now)]

DelayedBanner   == viewerStream = "DELAYED"
RecoveredBanner == recovery.shown /\ view.state = "connected"
BellBanner      == bell.shown /\ status["board"].state = "open"
BoardHeld       == IsHeld(view.state)

-----------------------------------------------------------------------------
TradingAt(t) ==
  LET civil == CairoParts(t)
  IN  IsTradingDay(civil.weekday) /\ civil.time \in MarketOpen .. MarketClose - 1

(* The status of an instant against a search of the instants around it.    *)
SoundAt(t) ==
  LET shown   == GetMarketStatus(t)
      away    == CairoDateKey(shown.nextChangeAt) - CairoDateKey(t)
      staged  == CairoParts(SimulatedClockTarget(MarketOpen, t))
  IN  /\ (shown.state = "open") <=> TradingAt(t)
      /\ shown.nextChangeAt = Min({u \in t + 1 .. t + 8 * Day : TradingAt(u) # TradingAt(t)})
      /\ LET before == GetMarketStatus(t - 1)
         IN  before.nextChangeAt > t => shown = before
      /\ shown.openAt <= t /\ TradingAt(shown.openAt) /\ ~ TradingAt(shown.openAt - 1)
      /\ \A u \in shown.openAt + 1 .. t : TradingAt(u) => u < shown.closeAt
      /\ IsPreOpenAuction(shown, t) <=> (~ TradingAt(t) /\ TradingAt(t + 1))
      /\ shown.state = "closed" =>
           FormatNextOpen(shown, t) =
             CASE away = 0 -> TODAY [] away = 1 -> TOMORROW
               [] OTHER -> CairoParts(shown.nextChangeAt).weekday
      /\ IsTradingDay(staged.weekday) /\ staged.time = MarketOpen /\ staged.date <= CairoDateKey(t)

SoundInstants ==
  {t \in Instants : \A u \in Max({Min(Instants) - 1} \cup {v \in Instants : v < t}) + 1 .. t :
     SoundAt(u)}

(* Across weekends and both changes of the clocks: the market is open exactly in trading
   hours, the session shown is the latest that has opened, what it changes to next is the
   first change there is and nothing about it changes before, an opening is called today,
   tomorrow or by its weekday rightly, and the development clock lands on a trading day
   (marketCalendar.ts, simulatedClock.ts). *)
StatusSound == now \in SoundInstants

(* Whenever an observer's status is out of date its boundary timer is due, however often
   it has polled: no page waits for the poll to notice the open (useMarketStatus).   *)
BoundaryArmed ==
  \A w \in Observers :
    stage[w] = "watching" /\ status[w] # StatusAt[now] => armed[w] # Never /\ armed[w] <= now

(* Observers that subscribe one by one agree with the source and with each other, unless
   they lost the last event while mounting; with the same reading of the calendar the pill
   rests exactly when the board says that the market is closed; a recovery is confirmed only
   after an outage (ConnectionStatus, StreamBadge, useConnectionState, useViewerStream, useRecoveryMoment). *)
PageIsCoherent ==
  LET informed(w) == stage[w] = "watching" /\ w \notin missed
  IN  /\ informed("pill") => pill = conn
      /\ informed("badge") => badge.stream = identity
      /\ informed("board") =>
           /\ (ConnectionBanner # None) <=> IsHeld(conn)
           /\ DelayedBanner <=> (identity = "DELAYED")
           /\ RecoveredBanner => (conn = "connected")
      /\ informed("pill") /\ informed("board") /\ status["pill"] = status["board"] =>
           (ConnectionPill.idle # None) <=> (conn = "connected" /\ MarketClosedBanner.shown)
      /\ heardFrom # Never /\ recovery.interrupted => outage # NoOutage

(* The instant a held board names is that of the first drop, through every retry that the
   source makes by itself (useConnectionState).                            *)
HeldSinceKept ==
  stage["board"] = "watching" /\ heardFrom # Never /\ BoardHeld /\ ~ outage.retried =>
    view.heldSince = Max({outage.at, heardFrom})

(* "A retry that fails again keeps the original instant: the prices have been held since
   the first drop, not since the latest attempt" (useConnectionState).     *)
HeldSinceFirstDrop ==
  stage["board"] = "watching" /\ heardFrom # Never /\ BoardHeld =>
    view.heldSince = Max({outage.at, heardFrom})
=============================================================================
