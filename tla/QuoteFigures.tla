---------------------------- MODULE QuoteFigures -----------------------------
(***************************************************************************)
(* The figures of one instrument, on its row of the board and in the       *)
(* detail pane: what the frames of the gateway and the answers to REST     *)
(* requests must look like to be taken, what a price is measured from, and *)
(* what is printed.  The row reads the store, which knows an instrument    *)
(* only once the universe has been loaded; the pane keeps a quote and a    *)
(* baseline of its own.                                                    *)
(*                                                                         *)
(* Which figure is on the screen at which moment is the matter of TickView:*)
(* here the row prints the store as it is.  The instrument trades in one   *)
(* session, in lots of Quantity.  The socket delivers in order, answers    *)
(* come when they like.  One callback and its microtasks are one action.   *)
(***************************************************************************)
EXTENDS Decimals, Naturals, Sequences

CONSTANTS
  Prices,     \* what it may trade at
  Closes,     \* what the session before may have closed at
  Opens,      \* what this one may have opened at
  Quantity,   \* the shares of a trade
  None, Asked,
  Fragile,    \* the fields that may be wrong in a frame or a body
  MaxTrades, MaxSaid, MaxInFlight, MaxFaults   \* bounds

ASSUME FiguresAssumption ==
  /\ Prices \cup Closes \cup Opens \subseteq Nat \ {0} /\ None \notin Nat
  /\ Quantity \in Nat
  /\ {MaxTrades, MaxSaid, MaxInFlight, MaxFaults} \subseteq Nat

Callers == {"board", "pane"}

VARIABLES
  day,        \* previous close, open, and whether snapshots carry the former
  last,       \* the exchange: price, number and cumulative volume of the last trade
  stream,     \* the gateway: the stream of this user
  wire,       \* frames on their way
  said, faults,  \* how many frames other than ticks, and how many faults, so far
  identity,   \* #identityValue.stream
  cached, inFlight,   \* #universeCache, #universeInFlight
  waiting,    \* the callers that await the universe
  asked,      \* of each caller: its snapshot request, or the answer to it
  board,      \* useBoardUniverse: "loading", "listed", "failed"
  meta, view, \* store: the SymbolMeta and the SymbolView of the instrument
  pending,    \* TickDispatcher: the merged tick that waits for the frame
  pane,       \* useDetailQuote: "closed" or phaseRef
  baseline,   \* baselineRef
  quote, extras,
  queued, held,  \* queuedTickRef, pendingTick
  anchored    \* history: when the quote was made there was a snapshot to measure it from

exchangeVars == <<day, last>>
gatewayVars  == <<stream, said, faults>>
sourceVars   == <<identity, cached, inFlight, waiting, asked, board>>
storeVars    == <<meta, view, pending>>
paneVars     == <<pane, baseline, quote, extras, queued, held, anchored>>
vars == <<exchangeVars, gatewayVars, wire, sourceVars, storeVars, paneVars>>

Init ==
  /\ day \in [close : Closes, open : Opens, carries : BOOLEAN]
  /\ last = [price |-> day.open, at |-> 0, volume |-> 0]
  /\ stream = "LIVE" /\ wire = <<>> /\ said = 0 /\ faults = 0
  /\ identity = None
  /\ cached = FALSE /\ inFlight = FALSE /\ waiting = {}
  /\ asked = [c \in Callers |-> None]
  /\ board = "loading"
  /\ meta = None /\ view = None /\ pending = None
  /\ pane = "closed"
  /\ baseline = None /\ quote = None /\ extras = None /\ queued = None /\ held = None
  /\ anchored = FALSE

----------------------------------------------------------------------------
(* What a frame or a body must look like                                   *)

(* The fields of a snapshot, pushed or asked for, that must be there and of the right
   kind; previousClose may be missing, but not wrong. *)
SnapshotFields ==
  {"symbol", "stream", "price", "change", "changePercent", "open", "previousClose", "high", "low",
   "volume", "lastEventId", "exchangeTimestamp", "snapshotAge", "simulated"}

(* Those of the universe, its entries' included. *)
UniverseFields ==
  {"asOf", "simulated", "symbols",
   "symbol", "name", "currency", "tickSize", "lotSize", "referencePrice"}

(* The fields a parser reads with a check. *)
Checked == [
  connected |-> {"userId", "stream", "sessionId", "heartbeatIntervalMs", "serverTime"},
  subscribed |-> {"stream", "accepted", "rejected"},
  unsubscribed |-> {"accepted"},
  heartbeat |-> {"serverTime"},
  error |-> {"code", "message"},
  tick |-> {"s", "p", "q", "k", "t", "id", "st"},
  snapshot |-> SnapshotFields,
  entitlementChanged |-> {"stream", "resubscribeRequired", "effectiveFrom"},
  universe |-> UniverseFields ]

(* What else may be wrong with one: a requestId that is no text, a field nobody knows. *)
Ignored == {"requestId", "unknown"}

(* A frame goes wrong in one field at most, and only so often. *)
Sound == None
Spoilt(type) == {Sound} \cup (IF faults < MaxFaults THEN Fragile \cap (Checked[type] \cup Ignored) ELSE {})
CountFault(wrong) == faults' = IF wrong = Sound THEN faults ELSE faults + 1

(* A check fails: a field is missing or of another kind, a price is no decimal, a stream
   or a code is not one of those known, a heartbeat interval is under a second. *)
Fails(message) == message.wrong \in Checked[message.type]

(* parseServerMessage and the parsers of REST bodies return rather than throw. *)
Parses(message) == ~Fails(message)

----------------------------------------------------------------------------
(* The gateway, as far as the client knows it                              *)

Tick(price, at, wrong) ==
  [type |-> "tick", wrong |-> wrong, price |-> price, at |-> at, quantity |-> Quantity]

Snapshot(wrong) ==
  [type |-> "snapshot", wrong |-> wrong, price |-> last.price, at |-> last.at,
   volume |-> last.volume, open |-> day.open,
   close |-> IF day.carries /\ wrong /= "previousClose" THEN day.close ELSE None]

Room == Len(wire) < MaxInFlight

(* A trade; its tick is sent unless the instrument is not subscribed just now. *)
Trade(price) ==
  /\ last.at < MaxTrades
  /\ last' = [price |-> price, at |-> last.at + 1, volume |-> last.volume + Quantity]
  /\ \/ /\ Room /\ identity /= None
        /\ \E wrong \in Spoilt("tick") :
             wire' = Append(wire, Tick(price, last.at + 1, wrong)) /\ CountFault(wrong)
     \/ UNCHANGED <<wire, faults>>
  /\ UNCHANGED <<day, stream, said, sourceVars, storeVars, paneVars>>

Say(message) ==
  /\ Room /\ said < MaxSaid
  /\ said' = said + 1
  /\ CountFault(message.wrong)
  /\ wire' = Append(wire, message)
  /\ UNCHANGED <<exchangeVars, sourceVars, storeVars, paneVars>>

Welcome ==
  /\ \E wrong \in Spoilt("connected") :
       Say([type |-> "connected", wrong |-> wrong, stream |-> stream])
  /\ UNCHANGED stream

(* The stream of the user changes, or is stated again. *)
Entitle(st) ==
  /\ \E wrong \in Spoilt("entitlementChanged") :
       Say([type |-> "entitlementChanged", wrong |-> wrong, stream |-> st])
  /\ stream' = st

PushSnapshot ==
  /\ \E wrong \in Spoilt("snapshot") : Say(Snapshot(wrong))
  /\ UNCHANGED stream

(* Frames that say nothing about a price; a subscribed names a rejected symbol, an
   error has the code UNKNOWN_SYMBOL. *)
Chatter ==
  /\ \E type \in {"subscribed", "unsubscribed", "heartbeat", "error"} :
       \E wrong \in Spoilt(type) : Say([type |-> type, wrong |-> wrong])
  /\ UNCHANGED stream

Answer(c) ==
  /\ asked[c] = Asked
  /\ \E wrong \in Spoilt("snapshot") :
       asked' = [asked EXCEPT ![c] = Snapshot(wrong)] /\ CountFault(wrong)
  /\ UNCHANGED <<exchangeVars, stream, said, wire, identity, cached, inFlight, waiting, board,
                 storeVars, paneVars>>

----------------------------------------------------------------------------
(* The store                                                               *)

(* What a snapshot says a change is measured from. *)
Basis(snapshot) == IF snapshot.close = None THEN snapshot.open ELSE snapshot.close

View(price, from, volume) ==
  [price |-> price, change |-> Subtract(price, from), percent |-> PercentChange(from, price),
   volume |-> volume]

(* primeUniverse: a baseline that is known already stays. *)
PrimeUniverse ==
  meta' = [reference |-> day.close,
           baseline |-> IF meta = None THEN day.close ELSE meta.baseline]

(* Mutant: the snapshot is shown but its baseline is forgotten. *)
ShowSnapshot(snapshot) ==
  IF meta = None THEN UNCHANGED <<meta, view>>
  ELSE UNCHANGED meta /\ view' = View(snapshot.price, Basis(snapshot), snapshot.volume)

(* applySnapshot: nothing for an instrument that is not in the universe. *)
ApplySnapshot(snapshot) ==
  IF meta = None THEN UNCHANGED <<meta, view>>
  ELSE /\ meta' = [meta EXCEPT !.baseline = Basis(snapshot)]
       /\ view' = View(snapshot.price, Basis(snapshot), snapshot.volume)

ApplyTick(tick) ==
  IF meta = None THEN UNCHANGED view
  ELSE view' = View(tick.price, meta.baseline,
                    tick.quantity + IF view = None THEN 0 ELSE view.volume)

ResetStream ==
  /\ view' = None
  /\ meta' = IF meta = None THEN None ELSE [meta EXCEPT !.baseline = meta.reference]

(* TickDispatcher.push and the flush at the next frame. *)
Push(tick) ==
  pending' = IF pending = None THEN tick
             ELSE [tick EXCEPT !.quantity = pending.quantity + tick.quantity]

Frame ==
  /\ pending /= None
  /\ ApplyTick(pending) /\ pending' = None
  /\ UNCHANGED <<exchangeVars, gatewayVars, wire, sourceVars, meta, paneVars>>

----------------------------------------------------------------------------
(* The pane                                                                *)

Closed == pane = "closed"
Deaf == pane \in {"closed", "not-found"}

(* The state with which the effect of a pane begins. *)
Afresh ==
  baseline' = None /\ quote' = None /\ extras' = None /\ queued' = None /\ held' = None
  /\ anchored' = FALSE

Quote(price, at, from) ==
  [price |-> price, at |-> at, change |-> Subtract(price, from),
   text |-> PercentFigure(PercentChange(from, price))]

(* mergeTickIntoQuote, with what the tick is measured from. *)
Loses(tick) == quote /= None /\ quote.at >= tick.at
EffectiveBaseline(tick) == IF baseline = None THEN tick.price ELSE baseline

MergeTick(tick) ==
  IF Loses(tick) THEN UNCHANGED <<quote, anchored>>
  ELSE /\ quote' = Quote(tick.price, tick.at, EffectiveBaseline(tick))
       /\ anchored' = (extras /= None)

(* ingestSnapshot *)
Newer(shown, snapshot) == shown /= None /\ shown.at > snapshot.at

(* Mutant: the tiles are filled but the baseline is not kept. *)
IngestWithoutBaseline(snapshot) ==
  IF Deaf THEN UNCHANGED paneVars
  ELSE /\ extras' = IF Newer(extras, snapshot) THEN extras
                    ELSE [open |-> snapshot.open, baseline |-> Basis(snapshot),
                          isPreviousClose |-> snapshot.close /= None, at |-> snapshot.at]
       /\ IF Newer(quote, snapshot) THEN UNCHANGED <<quote, anchored>>
          ELSE quote' = Quote(snapshot.price, snapshot.at, Basis(snapshot)) /\ anchored' = TRUE
       /\ pane' = "ready"
       /\ UNCHANGED <<baseline, queued, held>>

IngestSnapshot(snapshot) ==
  IF Deaf THEN UNCHANGED paneVars
  ELSE /\ baseline' = Basis(snapshot)
       /\ extras' = IF Newer(extras, snapshot) THEN extras
                    ELSE [open |-> snapshot.open, baseline |-> Basis(snapshot),
                          isPreviousClose |-> snapshot.close /= None, at |-> snapshot.at]
       /\ IF Newer(quote, snapshot) THEN UNCHANGED <<quote, anchored>>
          ELSE /\ quote' = Quote(snapshot.price, snapshot.at, Basis(snapshot))
               /\ anchored' = TRUE
       /\ pane' = "ready"
       /\ UNCHANGED <<queued, held>>

(* The pane's handler of a tick: queued until the snapshot, then held for the beat. *)
PaneTick(tick) ==
  /\ queued' = IF pane = "loading" THEN tick ELSE queued
  /\ held' = IF pane = "ready" /\ (held = None \/ tick.at >= held.at) THEN tick ELSE held
  /\ UNCHANGED <<pane, baseline, quote, extras, anchored>>

(* markNotFound *)
NotFound == /\ pane' = IF Closed THEN pane ELSE "not-found"
            /\ UNCHANGED <<baseline, quote, extras, queued, held, anchored>>

(* The pane's handler of a change of entitlement. *)
Discards == IF Closed THEN UNCHANGED paneVars ELSE Afresh /\ UNCHANGED pane

ApplyQueued ==
  /\ pane = "ready" /\ queued /= None
  /\ MergeTick(queued) /\ queued' = None
  /\ UNCHANGED <<exchangeVars, gatewayVars, wire, sourceVars, storeVars, pane, baseline, extras, held>>

Beat ==
  /\ ~Closed /\ held /= None
  /\ MergeTick(held) /\ held' = None
  /\ UNCHANGED <<exchangeVars, gatewayVars, wire, sourceVars, storeVars, pane, baseline, extras, queued>>

----------------------------------------------------------------------------
(* The source takes a frame: one that does not parse is dropped.           *)

Handle(message) ==
  CASE message.type = "connected" ->
         identity' = message.stream /\ UNCHANGED <<storeVars, paneVars>>
    [] message.type = "tick" ->
         Push(message) /\ PaneTick(message) /\ UNCHANGED <<identity, meta, view>>
    [] message.type = "snapshot" ->
         ApplySnapshot(message) /\ IngestSnapshot(message) /\ UNCHANGED <<identity, pending>>
    [] message.type = "entitlementChanged" ->
         /\ identity' = IF identity = None THEN None ELSE message.stream
         /\ IF identity \in {None, message.stream} THEN UNCHANGED <<meta, view>> ELSE ResetStream
         /\ Discards /\ UNCHANGED pending
    [] message.type \in {"subscribed", "error"} -> NotFound /\ UNCHANGED <<identity, storeVars>>
    [] OTHER -> UNCHANGED <<identity, storeVars, paneVars>>

Receive ==
  /\ wire /= <<>>
  /\ wire' = Tail(wire)
  /\ IF Parses(Head(wire)) THEN Handle(Head(wire))
     ELSE UNCHANGED <<identity, storeVars, paneVars>>
  /\ UNCHANGED <<exchangeVars, gatewayVars, cached, inFlight, waiting, asked, board>>

----------------------------------------------------------------------------
(* The universe: one request, whoever asks, and its answer kept.           *)

(* getUniverse: the answer there is, else the request there is, else a new one. *)
Await(callers) ==
  /\ waiting' = waiting \cup callers
  /\ inFlight' = TRUE

(* What a caller does with it: the board subscribes and asks for a snapshot. *)
Listed(callers) ==
  /\ board' = IF "board" \in callers THEN "listed" ELSE board
  /\ asked' = IF "board" \in callers THEN [asked EXCEPT !["board"] = Asked] ELSE asked

(* The board's effect runs when it mounts, and again when the user retries. *)
LoadBoard ==
  /\ board = "failed" \/ (board = "loading" /\ "board" \notin waiting)
  /\ IF cached THEN Listed({"board"}) /\ UNCHANGED <<waiting, inFlight>>
     ELSE board' = "loading" /\ Await({"board"}) /\ UNCHANGED asked
  /\ UNCHANGED <<exchangeVars, gatewayVars, wire, identity, cached, storeVars, paneVars>>

UniverseArrives ==
  /\ inFlight
  /\ \E wrong \in Spoilt("universe") :
       /\ CountFault(wrong)
       /\ IF Parses([type |-> "universe", wrong |-> wrong])
          THEN PrimeUniverse /\ cached' = TRUE /\ Listed(waiting)
          ELSE /\ board' = IF "board" \in waiting THEN "failed" ELSE board
               /\ UNCHANGED <<meta, cached, asked>>
  /\ inFlight' = FALSE /\ waiting' = {}
  /\ UNCHANGED <<exchangeVars, stream, said, wire, identity, view, pending, paneVars>>

UniverseFails ==
  /\ inFlight /\ faults < MaxFaults
  /\ faults' = faults + 1
  /\ board' = IF "board" \in waiting THEN "failed" ELSE board
  /\ inFlight' = FALSE /\ waiting' = {}
  /\ UNCHANGED <<exchangeVars, stream, said, wire, identity, cached, asked, storeVars, paneVars>>

----------------------------------------------------------------------------
(* Opening and closing the pane, and the snapshots                         *)

OpenPane ==
  /\ Closed /\ asked["pane"] = None
  /\ pane' = "loading" /\ Afresh
  /\ asked' = [asked EXCEPT !["pane"] = Asked]
  /\ IF cached THEN UNCHANGED <<waiting, inFlight>> ELSE Await({"pane"})
  /\ UNCHANGED <<exchangeVars, gatewayVars, wire, identity, cached, board, storeVars>>

ClosePane ==
  /\ ~Closed
  /\ pane' = "closed" /\ Afresh
  /\ UNCHANGED <<exchangeVars, gatewayVars, wire, sourceVars, storeVars>>

(* getSnapshot writes to the store and returns; only the pane looks at it. *)
SnapshotArrives(c) ==
  /\ asked[c] \notin {None, Asked}
  /\ asked' = [asked EXCEPT ![c] = None]
  /\ IF Parses(asked[c])
     THEN /\ ApplySnapshot(asked[c])
          /\ IF c = "pane" THEN IngestSnapshot(asked[c]) ELSE UNCHANGED paneVars
     ELSE /\ UNCHANGED <<meta, view>>
          /\ IF c = "pane" THEN NotFound ELSE UNCHANGED paneVars
  /\ UNCHANGED <<exchangeVars, gatewayVars, wire, identity, cached, inFlight, waiting, board, pending>>

SnapshotFails(c) ==
  /\ asked[c] = Asked /\ faults < MaxFaults
  /\ faults' = faults + 1
  /\ asked' = [asked EXCEPT ![c] = None]
  /\ IF c = "pane" THEN NotFound ELSE UNCHANGED paneVars
  /\ UNCHANGED <<exchangeVars, stream, said, wire, identity, cached, inFlight, waiting, board,
                 storeVars>>

----------------------------------------------------------------------------

Next ==
  \/ \E price \in Prices : Trade(price)
  \/ Welcome \/ (\E st \in {"LIVE", "DELAYED"} : Entitle(st)) \/ PushSnapshot \/ Chatter
  \/ \E c \in Callers : Answer(c) \/ SnapshotArrives(c) \/ SnapshotFails(c)
  \/ Frame \/ ApplyQueued \/ Beat \/ Receive
  \/ LoadBoard \/ UniverseArrives \/ UniverseFails
  \/ OpenPane \/ ClosePane

Spec == Init /\ [][Next]_vars

----------------------------------------------------------------------------
(* What is printed                                                         *)

(* The row: its chip, the colour and the word that go with it, and the traded value. *)
Chip == SignedPercent(view.percent)
DirectionWord == IF Unchanged(view.percent) THEN "flat" ELSE DeltaTone(view.percent)
TradedValue == MultiplyByQuantity(view.price, view.volume)

(* The pane: the arrow and the colour of both pills go by the sign of the change; the Open
   tile notes the move since the open where the headline is measured from elsewhere. *)
DeltaDirection == Compare(quote.change, 0)
SinceOpen == PercentFigure(PercentChange(extras.open, quote.price))
OpenTileNote == IF extras.isPreviousClose THEN SinceOpen ELSE None

TypeOK ==
  /\ day.close \in Closes /\ day.open \in Opens
  /\ waiting \subseteq Callers /\ (waiting /= {} => inFlight) /\ cached = (meta /= None)
  /\ (view /= None => meta /= None /\ view.price \in Prices \cup Opens /\ view.volume \in Nat)
  /\ (meta /= None => {meta.reference, meta.baseline} \subseteq Closes \cup Opens)
  /\ pane \in {"closed", "loading", "ready", "not-found"}
  /\ (quote /= None => quote.price \in Prices \cup Opens)

(* Everything a row says of a move is the same move: its change and its percentage are
   measured from the one baseline the store has, whatever came last, a snapshot or a tick
   (store.ts:188-252); the percentage, computed to four places and rounded to two, is
   what the exact ratio rounds to (decimal.ts:180-182); and the sign, the colour and the
   spoken word never claim a direction that the printed figure does not show
   (boardColumns.tsx:255-287). *)
RowFiguresAgree ==
  view /= None =>
    /\ view.change = Subtract(view.price, meta.baseline)
    /\ Chip = PercentChangeText(meta.baseline, view.price)
    /\ PercentTone(view.percent) = DeltaTone(Chip.sign)
    /\ DirectionWord = PercentTone(view.percent)
    /\ Chip.sign /= 0 => FormatSigned(view.change).sign = Chip.sign

(* The pane's change is measured from what its caption and its tiles name: the previous
   close where the snapshots carry one, else the open; its text is what the exact ratio
   rounds to and never points against the arrow; the note on the Open tile is the move of
   the same price from the open of the day.  It is said of the quotes of one trading
   session, whose snapshots all name one close and one open, and of those that were made
   when there was a snapshot to measure them from: one that a tick made after a change of
   the stream, before the next snapshot, is measured from itself (useDetailQuote.ts:132-242,
   StockDetail.tsx:145-198). *)
CaptionIsTrue ==
  (quote /= None /\ extras /= None /\ anchored) =>
    /\ extras.isPreviousClose = day.carries
    /\ extras.baseline = IF day.carries THEN day.close ELSE day.open
    /\ quote.change = Subtract(quote.price, extras.baseline)
    /\ quote.text = PercentChangeText(extras.baseline, quote.price)
    /\ quote.text.sign \in {0, DeltaDirection}
    /\ day.carries => OpenTileNote = PercentChangeText(day.open, quote.price)

(* The traded value of a row is printed to the nearest hundredth of its unit, and never
   as a thousand of a unit where the next one would do (decimal.ts:117-123). *)
ValueReadsRight ==
  view /= None =>
    LET print == FormatCompact(TradedValue)
        amount == print.hundredths * print.unit
        step == IF print.unit = 1 THEN Scale ELSE print.unit * (Scale \div 100)
    IN  /\ 2 * Magnitude(TradedValue - amount * (Scale \div 100)) <= step
        /\ \A unit \in Units : unit > print.unit => amount < 100 * unit

(* What percent.ts:1-5 says: one move never reads as one figure on the board and as
   another in the pane.  An instrument at one price shows one percentage. *)
OneMoveOneFigure ==
  (view /= None /\ quote /= None /\ view.price = quote.price) => Chip = quote.text

=============================================================================
