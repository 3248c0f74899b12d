----------------------------- MODULE DetailChart -----------------------------
(***************************************************************************)
(* The chart of the detail pane: a buffer seeded with the session's        *)
(* history when the chart mounts, one sample of the header's price on      *)
(* every beat from then on, and a plot in which a new sample draws in over *)
(* some frames.  Around it the pane is switched to another symbol, another *)
(* range is picked (a chart of its own), requests are answered late, and   *)
(* the entitlement changes.                                                *)
(*                                                                         *)
(* A point is the time of the trade that made its price, the symbol and    *)
(* the stream.  All symbols trade at the same times, the DELAYED stream is *)
(* Lag behind.  What the header does with snapshots and ticks is TickView; *)
(* here a tick waits in one place until it is painted.  One callback is    *)
(* one action; React renders what a callback or an answer has set in a     *)
(* step of its own, what the user does at once.  The effects of a pane,    *)
(* and the clean-up of the pane before, run after its render, in a step of *)
(* their own.                                                              *)
(***************************************************************************)
EXTENDS Integers, Sequences, FiniteSets, SequencesExt

CONSTANTS
  Symbols,    \* what a pane may be opened for
  None,       \* no symbol, no point, no answer
  Capacity,   \* of the ring buffer
  Window,     \* how far back the trailing range goes
  Lag,        \* of the DELAYED stream
  FirstStream, FirstRange,   \* the user's stream to begin with; the range of his last visit
  MaxTime, MaxEvents, MaxMounts   \* bounds

Streams == {"LIVE", "DELAYED"}
Ranges == {"60S", "SESSION"}

(* Points, and samples that draw in. *)
Points == [t : Int, symbol : Symbols \cup {None}, stream : Streams]
Draws  == [before : Seq(Points), sample : Points]

ASSUME ChartAssumption ==
  /\ None \notin Symbols /\ None \notin Points /\ None \notin Seq(Points) /\ None \notin Draws
  /\ Capacity \in Nat \ {0}
  /\ FirstStream \in Streams /\ FirstRange \in Ranges
  /\ {Window, Lag, MaxTime, MaxEvents, MaxMounts} \subseteq Nat

VARIABLES
  now, trades,    \* the clock; the times at which there was a trade
  stream,         \* the stream the user is on
  events,         \* how often it has been changed or stated again
  pane, mount,    \* the symbol of the pane; how many panes there have been
  ran,            \* the pane whose effects have run, and whose clean-up has not
  requests,       \* for snapshots and histories, answered or not
  phase, quote, waiting,   \* the header: its phase, its quote, the tick that is to be painted
  live,           \* livePriceRef: the quote as it was last rendered
  history,        \* historyPoints, or None as long as they are not there
  strayed,        \* a history of the pane before has been stored in this one
  range,          \* the pill that is pressed
  buffer,         \* RingBuffer, or None while no chart is mounted
  plot,           \* the series uPlot shows
  tween,          \* a sample that is drawing in: the series before it, and the sample
  described,      \* the points the high and low of the accessible name are taken from
  noticed         \* the effect on livePrice has run since it was last rendered

tapeVars   == <<now, trades>>
streamVars == <<stream, events>>
headerVars == <<phase, quote, waiting>>
paneVars   == <<pane, mount, ran, range>>
historyVars == <<history, strayed>>
chartVars  == <<buffer, plot, tween, described>>
vars == <<tapeVars, streamVars, requests, headerVars, live, historyVars, paneVars, chartVars,
          noticed>>

Point(t, s, st) == [t |-> t, symbol |-> s, stream |-> st]

(* A place between two samples, where a line end in flight is drawn. *)
InFlight == Point(-1, None, "LIVE")

Delay(st) == IF st = "LIVE" THEN 0 ELSE Lag
Visible(st) == {t \in trades : t <= now - Delay(st)}

NoChart == buffer' = None /\ plot' = <<>> /\ tween' = None /\ described' = {}

Init ==
  /\ now = Lag /\ trades = 0 .. Lag
  /\ stream = FirstStream /\ events = 0
  /\ pane = None /\ mount = 0 /\ ran = 0 /\ range = FirstRange
  /\ requests = {}
  /\ phase = "loading" /\ quote = None /\ waiting = None
  /\ live = None /\ history = None /\ strayed = FALSE /\ noticed = TRUE
  /\ buffer = None /\ plot = <<>> /\ tween = None /\ described = {}

----------------------------------------------------------------------------
(* The buffer                                                              *)

Push(points, p) == Append(IF Len(points) < Capacity THEN points ELSE Tail(points), p)

(* A second point, a second before, makes a line of a lone price. *)
SeedFlat(p) == Push(Push(<<>>, [p EXCEPT !.t = @ - 1]), p)

(* The buffer that is pushed some points, one after the other. *)
Filled(points) ==
  LET filled[n \in 0 .. Len(points)] ==
        IF n = 0 THEN <<>> ELSE Push(filled[n - 1], points[n])
  IN  filled[Len(points)]

(* seedBuffer: the history, then the live price if it is newer. *)
Seeded(points, seed) ==
  LET filled == Filled(points)
  IN  IF seed # None
      THEN IF filled = <<>> THEN SeedFlat(seed)
           ELSE IF seed.t > Last(filled).t THEN Push(filled, seed) ELSE filled
      ELSE IF Len(filled) = 1 THEN SeedFlat(filled[1]) ELSE filled

(* describeRange and pointsInRange, while the market is open: asked at a time. *)
InRange(points, r, at) ==
  LET kept[n \in 0 .. Len(points)] ==
        IF n = 0 THEN <<>>
        ELSE IF r = "SESSION" \/ points[n].t >= at - Window
             THEN Append(kept[n - 1], points[n]) ELSE kept[n - 1]
  IN  kept[Len(points)]

(* The chart mounts: it is seeded, and paints what it is seeded with. *)
Mount(points, r, at, seed) ==
  /\ buffer' = Seeded(InRange(points, r, at), seed)
  /\ plot' = buffer'
  /\ described' = ToSet(buffer')
  /\ tween' = None

Charted == history # None /\ phase # "not-found"

----------------------------------------------------------------------------
(* What the pane is sent.                                                  *)

(* A tick is painted with the next beat, unless a newer one comes. *)
Receive(t) ==
  waiting' = IF pane # None /\ ran = mount /\ phase # "not-found"
             THEN Point(t, pane, stream) ELSE waiting

(* Time passes, with or without a trade.  The tick that is due on the user's
   stream may miss the pane, whose subscription is under way. *)
Advance ==
  /\ now < MaxTime
  /\ now' = now + 1
  /\ trades' \in {trades, trades \cup {now'}}
  /\ LET due == now' - Delay(stream)
     IN  UNCHANGED waiting \/ (due \in trades' /\ Receive(due))
  /\ UNCHANGED <<streamVars, requests, phase, quote, live, historyVars, paneVars, chartVars,
                 noticed>>

Request(kind, m) == [kind |-> kind, mount |-> m, symbol |-> pane, answer |-> None]

(* A symbol's points that may be seen on a stream, oldest first. *)
Tape(symbol, st) ==
  LET upTo[t \in 0 .. now] ==
        LET earlier == IF t = 0 THEN <<>> ELSE upTo[t - 1]
        IN  IF t \in Visible(st) THEN Append(earlier, Point(t, symbol, st)) ELSE earlier
  IN  upTo[now]

(* The history is answered with all of them, the snapshot with the last one. *)
Answer(r) ==
  /\ r.answer = None
  /\ LET points == Tape(r.symbol, stream)
     IN  /\ points # <<>>
         /\ requests' = (requests \ {r}) \cup {[r EXCEPT !.answer = points]}
  /\ UNCHANGED <<tapeVars, streamVars, headerVars, live, historyVars, paneVars, chartVars, noticed>>

(* Mutant: the answer to a pane that has been left is used. *)
AnyPane(r) == pane # None

(* `cancelled` of the pane that asked is not set: its clean-up has not run. *)
StillWanted(r) == r.mount = ran

(* Between a render and its effects a snapshot is still taken, for the pane before;
   but the effects set anew what it sets, before it is rendered. *)
TakesSnapshot(r) == StillWanted(r) /\ ran = mount /\ phase # "not-found"

NewerOf(shown, p) == IF shown # None /\ shown.t > p.t THEN shown ELSE p

SnapshotArrives(r) ==
  /\ r.kind = "snapshot" /\ r.answer # None
  /\ requests' = requests \ {r}
  /\ IF TakesSnapshot(r)
     THEN phase' = "ready" /\ quote' = NewerOf(quote, Last(r.answer))
     ELSE UNCHANGED <<phase, quote>>
  /\ UNCHANGED <<tapeVars, streamVars, waiting, live, historyVars, paneVars, chartVars, noticed>>

(* What has been set is rendered: the chart has it through its refs. *)
Rendered == live' = quote /\ noticed' = (noticed /\ live = quote)

(* The instrument is not found, and the pane has no chart. *)
SnapshotFails(r) ==
  /\ r.kind = "snapshot" /\ r.answer = None
  /\ requests' = requests \ {r}
  /\ IF TakesSnapshot(r)
     THEN phase' = "not-found" /\ Rendered /\ NoChart
     ELSE UNCHANGED <<phase, live, chartVars, noticed>>
  /\ UNCHANGED <<tapeVars, streamVars, quote, waiting, historyVars, paneVars>>

(* The history is there, or cannot be had: now the chart mounts, unless it is there
   already, which does not look at its history again.  The market status, and with
   it the end of the range, is polled; it may be one behind. *)
Seeds(points) ==
  /\ ran = mount
  /\ history' = points /\ UNCHANGED strayed
  /\ Rendered
  /\ IF buffer = None /\ phase # "not-found"
     THEN \E at \in {now - 1, now} : Mount(points, range, at, quote)
     ELSE UNCHANGED chartVars

(* The history of the pane before, between the render of this one and its effects,
   which do not set the history anew. *)
Strays(points) ==
  /\ ran # mount
  /\ history' = points /\ strayed' = TRUE
  /\ UNCHANGED <<live, chartVars, noticed>>

HistoryIs(r, points) ==
  /\ r.kind = "history"
  /\ requests' = requests \ {r}
  /\ IF StillWanted(r) THEN Seeds(points) \/ Strays(points)
     ELSE UNCHANGED <<historyVars, live, chartVars, noticed>>
  /\ UNCHANGED <<tapeVars, streamVars, headerVars, paneVars>>

HistoryArrives(r) == r.answer # None /\ HistoryIs(r, r.answer)
HistoryFails(r) == r.answer = None /\ HistoryIs(r, <<>>)

----------------------------------------------------------------------------
(* The header                                                              *)

(* mergeTickIntoQuote, on a beat or when the snapshot has been rendered. *)
Paint ==
  /\ phase = "ready" /\ waiting # None
  /\ waiting' = None
  /\ quote' = IF quote # None /\ quote.t >= waiting.t THEN quote ELSE waiting
  /\ UNCHANGED <<tapeVars, streamVars, requests, phase, live, historyVars, paneVars, chartVars,
                 noticed>>

Render ==
  /\ ran = mount /\ live # quote
  /\ Rendered
  /\ UNCHANGED <<tapeVars, streamVars, requests, headerVars, historyVars, paneVars, chartVars>>

Afresh ==
  /\ phase' = "loading" /\ quote' = None /\ waiting' = None /\ live' = None /\ noticed' = TRUE
  /\ history' = None /\ strayed' = FALSE /\ NoChart

(* Another symbol, or none: the state is reset in the same render, which comes after
   the effects of the one before.  A pane that is closed is unmounted and keeps nothing. *)
Switch(s) ==
  /\ s # pane /\ mount < MaxMounts /\ ran = mount
  /\ pane' = s /\ mount' = mount + 1
  /\ ran' = IF s = None THEN mount' ELSE ran
  /\ Afresh
  /\ UNCHANGED <<tapeVars, streamVars, requests, range>>

(* The clean-up of the pane before, the effects of this one and what they render: its
   requests are made, and a history that has strayed into it mounts a chart. *)
RunEffects ==
  /\ ran # mount
  /\ ran' = mount
  /\ requests' = requests \cup {Request("snapshot", mount), Request("history", mount)}
  /\ IF history # None
     THEN \E at \in {now - 1, now} : Mount(history, range, at, None)
     ELSE UNCHANGED chartVars
  /\ UNCHANGED <<tapeVars, streamVars, headerVars, live, historyVars, pane, mount, range,
                 noticed>>

(* Another pill: the key changes, so a new chart is seeded with the history
   that was fetched when the pane was opened. *)
Pick(r) ==
  /\ pane # None /\ ran = mount /\ r # range
  /\ range' = r
  /\ IF Charted THEN Mount(history, r, now, live) ELSE UNCHANGED chartVars
  /\ UNCHANGED <<tapeVars, streamVars, requests, headerVars, live, historyVars, pane, mount,
                 ran, noticed>>

----------------------------------------------------------------------------
(* The chart's own timers                                                  *)

Describe(points) == described' = ToSet(points)

(* redraw, which leaves an empty chart alone. *)
Redraw == IF buffer' = <<>> THEN UNCHANGED <<plot, described>>
          ELSE plot' = buffer' /\ Describe(buffer')

TakeSample == buffer' = Push(buffer, live)

(* sampleAndDraw.  A sample that is drawing in is settled first; whether the
   new one draws in is up to the viewer's motion preference and the tab. *)
Sample ==
  /\ buffer # None
  /\ IF live = None
     THEN UNCHANGED buffer /\ tween' = None /\ Redraw
     ELSE /\ TakeSample
          /\ \/ tween' = None /\ Redraw
             \/ /\ buffer # <<>>
                /\ tween' = [before |-> buffer, sample |-> live]
                /\ UNCHANGED plot
                /\ Describe(buffer')
  /\ UNCHANGED <<tapeVars, streamVars, requests, headerVars, live, historyVars, paneVars, noticed>>

(* A frame of the draw-in, and the last one. *)
Fly ==
  /\ tween # None
  /\ plot' = Append(tween.before, InFlight)
  /\ UNCHANGED <<tapeVars, streamVars, requests, headerVars, live, historyVars, paneVars, buffer,
                 tween, described, noticed>>

Land ==
  /\ tween # None
  /\ tween' = None
  /\ UNCHANGED buffer
  /\ Redraw
  /\ UNCHANGED <<tapeVars, streamVars, requests, headerVars, live, historyVars, paneVars, noticed>>

(* The effect on livePrice: an empty chart gets its first line. *)
Notice ==
  /\ ~noticed
  /\ noticed' = TRUE
  /\ IF buffer = <<>> /\ live # None
     THEN buffer' = SeedFlat(live) /\ plot' = buffer' /\ Describe(buffer')
     ELSE UNCHANGED <<buffer, plot, described>>
  /\ UNCHANGED <<tapeVars, streamVars, requests, headerVars, live, historyVars, paneVars, tween>>

(* Mutant: what is drawing in goes on drawing in. *)
NotSettled == UNCHANGED tween

Settled == tween' = None

(* The entitlement changes, or is stated again.  The store's reset reaches the
   chart first, if the stream is another, then the pane clears its quote. *)
Entitle(st) ==
  /\ events < MaxEvents
  /\ events' = events + 1 /\ stream' = st
  /\ IF st # stream /\ buffer # None
     THEN Settled /\ buffer' = <<>> /\ plot' = <<>> /\ described' = {}
     ELSE UNCHANGED chartVars
  /\ quote' = None /\ waiting' = None
  /\ UNCHANGED <<tapeVars, requests, phase, live, historyVars, paneVars, noticed>>

----------------------------------------------------------------------------
Server == Advance \/ (\E r \in requests : Answer(r)) \/ (\E st \in Streams : Entitle(st))
Answers == \E r \in requests :
  SnapshotArrives(r) \/ SnapshotFails(r) \/ HistoryArrives(r) \/ HistoryFails(r)
Header == Paint \/ Render \/ RunEffects
Chart == Sample \/ Fly \/ Land \/ Notice
User == (\E s \in Symbols \cup {None} : Switch(s)) \/ (\E r \in Ranges : Pick(r))

Next == Server \/ Answers \/ Header \/ Chart \/ User

Spec == Init /\ [][Next]_vars

(* The beat and the chart's interval fire, and React renders what was set.
   Nothing is assumed of the server, of the frames of a tab or of the user. *)
FairSpec == Spec /\ WF_vars(Paint) /\ WF_vars(Render) /\ WF_vars(Sample)

----------------------------------------------------------------------------
(* The chart is there exactly when the pane has something to chart, and its
   buffer does not outgrow its arrays. *)
TypeOK ==
  /\ phase \in {"loading", "ready", "not-found"} /\ stream \in Streams
  /\ buffer # None <=> pane # None /\ ran = mount /\ Charted
  /\ buffer # None => Len(buffer) <= Capacity

(* A chart shows one symbol, that of its pane, and samples no price of another: not
   those of the pane before, whose history or snapshot may be answered late.  But
   for the one case in which the chart is seeded with them: the history of the pane
   before is answered after the render of this one and before its effects. *)
ChartIsOfItsPane ==
  /\ live # None => live.symbol = pane
  /\ buffer # None /\ ~strayed => \A p \in ToSet(buffer) : p.symbol = pane

(* The price tag shows "the real sample", while "only its position is in
   flight": through samples that overtake a draw-in, a discard in the middle of
   one and another chart, the chart never prints a price that was not traded,
   and nothing stays plotted that has left the buffer. *)
TagOf(series) == IF tween # None THEN tween.sample ELSE Last(series)

TagIsLastSample ==
  buffer # None =>
    /\ plot = <<>> <=> buffer = <<>>
    /\ plot # <<>> => TagOf(plot) = Last(buffer)

(* The high and low a screen reader is told are those of all points. *)
NameFitsTheLine == buffer # None => described = ToSet(buffer)

(* The chart and the header do not go on showing two prices: again and again the
   line ends with the price of the header. *)
ChartCatchesUp == []<>(buffer # None /\ live # None => buffer # <<>> /\ Last(buffer) = live)

(* "`historyPoints` must never render stale for a different symbol than the one
   currently being displayed." *)
ChartNeverOfAnother == buffer # None => \A p \in ToSet(buffer) : p.symbol = pane

(* "Discard any buffered ticks from the old stream rather than mixing the two on
   one chart." *)
NeverMixed == buffer # None => \A p, q \in ToSet(buffer) : p.stream = q.stream

(* "A lone point (from either) is doubled ... so the first paint is already a
   line." *)
FirstPaintIsALine == buffer # None /\ buffer # <<>> => Len(buffer) > 1
=============================================================================
