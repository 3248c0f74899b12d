------------------------------ MODULE TickView ------------------------------
(***************************************************************************)
(* How prices get from the gateway's messages to the screen: the source    *)
(* hands every tick to the detail pane and to the dispatcher, which merges *)
(* them until the next animation frame and writes them into the store; the *)
(* board shows the store as it was at the last beat, the pane a quote of   *)
(* its own in which the newer of a snapshot and a tick wins.               *)
(*                                                                         *)
(* A price is the number of the trade that made it, which also stands for  *)
(* the time of that trade; every trade is of quantity 1, so the exchange's *)
(* cumulative volume at trade n is n.  The DELAYED stream runs behind the  *)
(* LIVE one.  The messages of the one WebSocket arrive in order, answers   *)
(* of REST requests whenever they like.                                    *)
(*                                                                         *)
(* One callback and its microtasks are one action.  The board stays        *)
(* mounted.                                                                *)
(***************************************************************************)
EXTENDS Integers, Sequences, FiniteSets

CONSTANTS
  Symbols,    \* what a pane may be opened for
  Unknown,    \* those among them that are not in the universe
  None,       \* no symbol, no tick, no view
  FirstStream,   \* the stream the user is on to begin with
  MaxTrades, MaxInFlight, MaxEvents, MaxMounts, MaxRequests   \* bounds

Known == Symbols \ Unknown
Streams == {"LIVE", "DELAYED"}
Ticks == [type : {"tick"}, symbol : Known, at : Nat, quantity : Nat, stream : Streams]
Snapshots == [type : {"snapshot"}, symbol : Known, at : Nat, stream : Streams]
Views == [at : Nat, volume : Nat, stream : Streams, from : {"tick", "snapshot"}]
Quotes == [symbol : Known, at : Nat, stream : Streams, from : {"tick", "snapshot"}]

ASSUME NoneAssumption == None \notin Ticks \cup Snapshots \cup Views \cup Quotes
ASSUME ViewAssumption ==
  /\ Unknown \subseteq Symbols /\ None \notin Symbols /\ FirstStream \in Streams
  /\ {MaxTrades, MaxInFlight, MaxEvents, MaxMounts, MaxRequests} \subseteq Nat

VARIABLES
  position,     \* the gateway: the last trade of each symbol on this user's stream
  entitled,     \* the gateway: which stream that is
  wire,         \* messages on their way
  requests,     \* snapshot requests: asked for, or answered and on their way
  identity,     \* #identityValue.stream
  primed,       \* the universe has been registered with the store
  pending,      \* TickDispatcher: the merged tick of each symbol
  frameRequested, frameScheduled,  \* its flag, and whether a frame will call it
  view,         \* store: the view of each symbol
  behind,       \* pacedViews: the symbols whose row does not show the view of the store
  pane, mount,  \* the symbol of the detail pane; how many panes there have been
  phase,        \* phaseRef
  committed,    \* React has rendered the phase, and its effects have run
  quote,        \* the quote of the pane
  queued, held, \* queuedTickRef; pendingTick, which waits for the beat
  owed,         \* history: the quantity received that no row has been given yet
  events   \* changes of entitlement, pushes and rejections so far

gatewayVars == <<position, entitled, events>>
storeVars   == <<primed, pending, frameRequested, frameScheduled, view, behind, owed>>
quoteVars   == <<phase, committed, quote, queued, held>>
paneVars    == <<pane, mount, quoteVars>>
vars == <<gatewayVars, wire, requests, identity, storeVars, paneVars>>

Init ==
  /\ position = [s \in Known |-> 0]
  /\ entitled = FirstStream /\ identity = FirstStream
  /\ wire = <<>> /\ requests = {}
  /\ primed = FALSE
  /\ pending = [s \in Known |-> None]
  /\ frameRequested = FALSE /\ frameScheduled = FALSE
  /\ view = [s \in Known |-> None] /\ behind = {}
  /\ owed = [s \in Known |-> 0]
  /\ pane = None /\ mount = 0
  /\ phase = "loading" /\ committed = TRUE /\ quote = None
  /\ queued = None /\ held = None
  /\ events = 0

----------------------------------------------------------------------------
(* The gateway, as far as the client knows it.                             *)

Tick(s, n, st) == [type |-> "tick", symbol |-> s, at |-> n, quantity |-> 1, stream |-> st]
Quoted(s, n, st) == [type |-> "snapshot", symbol |-> s, at |-> n, stream |-> st]
Moved(st) == [type |-> "entitlementChanged", stream |-> st]
UnknownSymbol == [type |-> "error"]

Room == Len(wire) < MaxInFlight

(* A trade reaches this user's stream; the tick is sent, unless the symbol is
   not subscribed at the moment. *)
Trade(s) ==
  /\ position[s] < MaxTrades
  /\ position' = [position EXCEPT ![s] = @ + 1]
  /\ \/ Room /\ wire' = Append(wire, Tick(s, position[s] + 1, entitled))
     \/ UNCHANGED wire
  /\ UNCHANGED <<entitled, events, requests, identity, storeVars, paneVars>>

(* What the gateway says now and then. *)
Say(message) ==
  /\ Room /\ events < MaxEvents
  /\ events' = events + 1
  /\ wire' = Append(wire, message)
  /\ UNCHANGED <<requests, identity, storeVars, paneVars>>

(* The entitlement changes, or is merely stated again; the DELAYED stream is
   behind the LIVE one, by how much depends on the trading. *)
Entitle(st) ==
  /\ Say(Moved(st))
  /\ entitled' = st
  /\ position' \in [Known -> 0 .. MaxTrades]
  /\ \A s \in Known : CASE st = entitled -> position'[s] = position[s]
                       [] st = "DELAYED" -> position'[s] <= position[s]
                       [] OTHER -> position'[s] >= position[s]

(* A snapshot pushed after a resubscribe. *)
PushSnapshot(s) ==
  /\ Say(Quoted(s, position[s], entitled))
  /\ UNCHANGED <<position, entitled>>

(* Somebody subscribed to a symbol the gateway does not know. *)
RejectSymbol ==
  /\ pane \in Unknown
  /\ Say(UnknownSymbol)
  /\ UNCHANGED <<position, entitled>>

(* A snapshot request: who asked (the board is 0, a pane its number), for what,
   and the answer once there is one. *)
Request(s, m) == [symbol |-> s, mount |-> m, answer |-> None]

AnswerSnapshot(r) ==
  /\ r \in requests /\ r.answer = None /\ r.symbol \in Known
  /\ requests' = (requests \ {r}) \cup
       {[r EXCEPT !.answer = Quoted(r.symbol, position[r.symbol], entitled)]}
  /\ UNCHANGED <<gatewayVars, wire, identity, storeVars, paneVars>>

----------------------------------------------------------------------------
(* TickDispatcher and store                                                *)

(* Mutant: the latest tick replaces the one that waits. *)
Latest(waiting, tick) == tick

(* Latest wins, but quantities add up. *)
Merged(waiting, tick) ==
  IF waiting = None THEN tick ELSE [tick EXCEPT !.quantity = waiting.quantity + tick.quantity]

(* TickDispatcher.push *)
Push(tick) ==
  LET s == tick.symbol
  IN  /\ pending' = [pending EXCEPT ![s] = Merged(@, tick)]
      /\ frameRequested' = TRUE
      /\ frameScheduled' = (frameScheduled \/ ~frameRequested)
      /\ owed' = [owed EXCEPT ![s] = @ + tick.quantity]

(* Mutant: flushing leaves the flag as it is. *)
StaysRequested == frameRequested' = frameRequested

NoFrameRequested == frameRequested' = FALSE

VolumeOf(v) == IF v = None THEN 0 ELSE v.volume
Waiting(s) == IF pending[s] = None THEN 0 ELSE pending[s].quantity

(* store.applyTick, for every tick that waits: symbols the universe does not
   have are dropped. *)
Applied(s) ==
  IF pending[s] = None \/ ~primed THEN view[s]
  ELSE [at |-> pending[s].at, volume |-> VolumeOf(view[s]) + pending[s].quantity,
        stream |-> pending[s].stream, from |-> "tick"]

(* The frame comes: flushNow.  What a row's volume grows by is no longer owed; without
   a universe what waits is dropped. *)
Frame ==
  /\ frameScheduled
  /\ frameScheduled' = FALSE
  /\ NoFrameRequested
  /\ pending' = [s \in Known |-> None]
  /\ view' = [s \in Known |-> Applied(s)]
  /\ behind' = behind \cup {s \in Known : primed /\ pending[s] # None}
  /\ owed' = [s \in Known |-> owed[s] - (IF primed THEN VolumeOf(view'[s]) - VolumeOf(view[s])
                                         ELSE Waiting(s))]
  /\ UNCHANGED <<gatewayVars, wire, requests, identity, primed, paneVars>>

(* store.applySnapshot: whatever was there is replaced, by an older row too, and what
   waits for the frame is added to it whether or not the snapshot counts it already. *)
ApplySnapshot(snapshot) ==
  IF primed
  THEN /\ view' = [view EXCEPT ![snapshot.symbol] =
                     [at |-> snapshot.at, volume |-> snapshot.at, stream |-> snapshot.stream,
                      from |-> "snapshot"]]
       /\ behind' = behind \cup {snapshot.symbol}
  ELSE UNCHANGED <<view, behind>>

(* primeUniverse: the board and the pane have asked for the universe. *)
Prime ==
  /\ ~primed /\ Cardinality(requests) < MaxRequests
  /\ primed' = TRUE
  /\ requests' = requests \cup {Request(s, 0) : s \in Known}
  /\ UNCHANGED <<gatewayVars, wire, identity, pending, frameRequested, frameScheduled, view,
                 behind, owed, paneVars>>

----------------------------------------------------------------------------
(* The pane                                                                *)

Open == pane # None /\ phase # "not-found"

(* Mutant: a snapshot always wins. *)
SnapshotWins(snapshot) == TRUE

SnapshotIsNewer(snapshot) == quote = None \/ quote.at <= snapshot.at
TickIsNewer(tick) == quote = None \/ quote.at < tick.at

(* ingestSnapshot *)
IngestSnapshot(snapshot) ==
  /\ quote' = IF SnapshotIsNewer(snapshot)
              THEN [symbol |-> snapshot.symbol, at |-> snapshot.at, stream |-> snapshot.stream,
                    from |-> "snapshot"]
              ELSE quote
  /\ phase' = "ready"
  /\ committed' = (committed /\ phase = "ready")
  /\ UNCHANGED <<queued, held>>

(* mergeTickIntoQuote *)
MergeTick(tick) ==
  quote' = IF TickIsNewer(tick)
           THEN [symbol |-> tick.symbol, at |-> tick.at, stream |-> tick.stream,
                 from |-> "tick"]
           ELSE quote

NotFound ==
  /\ phase' = "not-found"
  /\ UNCHANGED <<committed, quote, queued, held>>

(* The tick handler: a tick waits for the snapshot, later ones for the beat. *)
PaneTick(tick) ==
  IF Open /\ tick.symbol = pane
  THEN /\ IF phase = "loading"
          THEN queued' = tick /\ UNCHANGED held
          ELSE /\ held' = IF held = None \/ tick.at >= held.at THEN tick ELSE held
               /\ UNCHANGED queued
       /\ UNCHANGED <<phase, committed, quote>>
  ELSE UNCHANGED quoteVars

PaneSnapshot(snapshot) ==
  IF Open /\ snapshot.symbol = pane THEN IngestSnapshot(snapshot) ELSE UNCHANGED quoteVars

(* Mutant: the tick that waits for the beat survives the switch. *)
HeldKept == UNCHANGED held

HeldDiscarded == held' = None

(* The entitlement handler clears what the old stream left. *)
PaneDiscards ==
  IF pane = None THEN UNCHANGED quoteVars
  ELSE /\ queued' = None /\ HeldDiscarded
       /\ quote' = None
       /\ UNCHANGED <<phase, committed>>

----------------------------------------------------------------------------
(* Messages, in the order they were sent.                                  *)

Receive(type) ==
  /\ wire # <<>> /\ Head(wire).type = type
  /\ wire' = Tail(wire)
  /\ UNCHANGED <<gatewayVars, requests, pane, mount>>

(* #handleTick: the pane's handler, then the dispatcher. *)
ReceiveTick ==
  /\ Receive("tick")
  /\ PaneTick(Head(wire))
  /\ Push(Head(wire))
  /\ UNCHANGED <<identity, primed, view, behind>>

(* #ingestSnapshot of a push: the store, then the pane's handler. *)
ReceiveSnapshot ==
  /\ Receive("snapshot")
  /\ ApplySnapshot(Head(wire))
  /\ PaneSnapshot(Head(wire))
  /\ UNCHANGED <<identity, primed, pending, frameRequested, frameScheduled, owed>>

(* #handleEntitlementChanged: resetStream if the stream is another, with the
   paced views as its listener, then the pane's handler. *)
ReceiveEntitlement ==
  /\ Receive("entitlementChanged")
  /\ identity' = Head(wire).stream
  /\ IF identity' # identity
     THEN view' = [s \in Known |-> None] /\ behind' = {}
     ELSE UNCHANGED <<view, behind>>
  /\ PaneDiscards
  /\ UNCHANGED <<primed, pending, frameRequested, frameScheduled, owed>>

(* UNKNOWN_SYMBOL, whoever's symbol it was. *)
ReceiveError ==
  /\ Receive("error")
  /\ IF Open THEN NotFound ELSE UNCHANGED quoteVars
  /\ UNCHANGED <<identity, storeVars>>

(* Mutant: the answer to a pane that has been left is used. *)
AnyPane(r) == pane # None /\ r.mount > 0

StillWanted(r) == pane # None /\ r.mount = mount

(* getSnapshot resolves: the store has it first, then whoever asked, unless
   the pane has been left meanwhile (cancelled). *)
SnapshotArrives(r) ==
  /\ r \in requests /\ r.answer # None
  /\ requests' = requests \ {r}
  /\ ApplySnapshot(r.answer)
  /\ IF StillWanted(r) /\ Open THEN IngestSnapshot(r.answer) ELSE UNCHANGED quoteVars
  /\ UNCHANGED <<gatewayVars, wire, identity, primed, pending, frameRequested,
                 frameScheduled, owed, pane, mount>>

(* getSnapshot rejects: the board does not mind, the pane shows not-found. *)
SnapshotFails(r) ==
  /\ r \in requests /\ r.answer = None
  /\ requests' = requests \ {r}
  /\ IF StillWanted(r) /\ Open THEN NotFound ELSE UNCHANGED quoteVars
  /\ UNCHANGED <<gatewayVars, wire, identity, storeVars, pane, mount>>

----------------------------------------------------------------------------
(* The pane is opened or switched: its refs start afresh and it asks.  Until  *)
(* its effect runs the handlers of the pane before still set quote and phase, *)
(* but React runs the effect before it renders again, and the effect sets     *)
(* both anew; what does survive, the chart's history, is DetailChart's.       *)

Afresh ==
  /\ phase' = "loading" /\ committed' = TRUE /\ quote' = None
  /\ queued' = None /\ held' = None

OpenPane(s) ==
  /\ s # pane
  /\ mount < MaxMounts /\ Cardinality(requests) < MaxRequests
  /\ pane' = s /\ mount' = mount + 1
  /\ Afresh
  /\ requests' = requests \cup {Request(s, mount + 1)}
  /\ UNCHANGED <<gatewayVars, wire, identity, storeVars>>

ClosePane ==
  /\ pane # None
  /\ pane' = None
  /\ Afresh
  /\ UNCHANGED <<gatewayVars, wire, requests, identity, storeVars, mount>>

(* The universe does not have the pane's symbol. *)
NotInUniverse ==
  /\ primed /\ pane \in Unknown /\ phase # "not-found"
  /\ NotFound
  /\ UNCHANGED <<gatewayVars, wire, requests, identity, storeVars, pane, mount>>

(* The effect that runs once the snapshot's render has been committed. *)
ApplyQueued ==
  /\ pane # None /\ phase = "ready" /\ ~committed
  /\ committed' = TRUE
  /\ queued' = None
  /\ IF queued = None THEN UNCHANGED quote ELSE MergeTick(queued)
  /\ UNCHANGED <<gatewayVars, wire, requests, identity, storeVars, pane, mount, phase, held>>

(* The beat: every row advances to the store, then the pane to its tick. *)
Beat ==
  /\ behind' = {}
  /\ IF pane = None \/ held = None
     THEN UNCHANGED <<held, quote>>
     ELSE held' = None /\ MergeTick(held)
  /\ UNCHANGED <<gatewayVars, wire, requests, identity, primed, pending, frameRequested,
                 frameScheduled, view, owed, pane, mount, phase, committed, queued>>

(* flushPacedSymbol, two frames after the pane showed something new. *)
RowCatchesUp ==
  /\ pane \in Known /\ phase = "ready" /\ quote # None
  /\ behind' = behind \ {pane}
  /\ UNCHANGED <<gatewayVars, wire, requests, identity, primed, pending, frameRequested,
                 frameScheduled, view, owed, paneVars>>

----------------------------------------------------------------------------
Gateway ==
  \/ \E s \in Known : PushSnapshot(s) \/ Trade(s)
  \/ (\E st \in Streams : Entitle(st)) \/ RejectSymbol
  \/ \E r \in requests : AnswerSnapshot(r)
Messages == ReceiveTick \/ ReceiveSnapshot \/ ReceiveEntitlement \/ ReceiveError
Answers == \E r \in requests : SnapshotArrives(r) \/ SnapshotFails(r)
Screen == Frame \/ Beat \/ ApplyQueued \/ RowCatchesUp
User == Prime \/ ClosePane \/ NotInUniverse \/ \E s \in Symbols : OpenPane(s)

Next == Gateway \/ Messages \/ Answers \/ Screen \/ User

Spec == Init /\ [][Next]_vars

(* The browser draws frames, the beat's timer fires and React commits what it
   rendered.  Nothing is assumed of the network or of the user. *)
FairSpec == Spec /\ WF_vars(Frame) /\ WF_vars(Beat) /\ WF_vars(ApplyQueued)

----------------------------------------------------------------------------
(* Every variable holds a value of its kind, and nothing outlives a pane. *)
TypeOK ==
  /\ position \in [Known -> Nat]
  /\ {entitled, identity} \subseteq Streams
  /\ {primed, frameRequested, frameScheduled, committed} \subseteq BOOLEAN
  /\ pending \in [Known -> Ticks \cup {None}]
  /\ view \in [Known -> Views \cup {None}] /\ behind \subseteq Known
  /\ owed \in [Known -> Nat]
  /\ pane \in Symbols \cup {None} /\ mount \in Nat
  /\ phase \in {"loading", "ready", "not-found"}
  /\ quote \in Quotes \cup {None}
  /\ {queued, held} \subseteq Ticks \cup {None}
  /\ pane = None => {quote, queued, held} = {None}

(* However many ticks are merged into one frame, and whatever becomes of the row
   meanwhile, the frame's write carries the quantity of all of them and no other
   (TickDispatcher.ts:44-76): what waits in the dispatcher is what was received and
   no row has been given.  It says nothing of what a snapshot makes of the volume: a
   trade the snapshot counts and the dispatcher holds is added to it again, and an
   answer that is late takes back the trades after it (store.ts:188-211). *)
NothingCoalescedAway == \A s \in Known : Waiting(s) = owed[s]

(* What the pane shows is of its own symbol: not of the pane it replaced, whose
   snapshot may still be on its way. *)
PaneShowsItsSymbol == quote # None => quote.symbol = pane

(* The newer of what the pane has and what arrives wins, whether a snapshot or
   a tick, on time, late, queued or held back: a price never gives way to an
   older one of the same stream. *)
NewerWins ==
  [][quote # None /\ quote' # None /\ mount' = mount => quote'.at >= quote.at]_vars

(* After a change of entitlement no tick of the old stream is shown in the pane, nor
   still waits to be shown, though one may have been queued for the snapshot, held
   back for the beat, or on its way.  A snapshot of the old stream is another matter:
   an answer that was on its way is shown until something newer comes. *)
PaneDiscardsOldTicks ==
  /\ quote # None /\ quote.from = "tick" => quote.stream = identity
  /\ \A tick \in {queued, held} \ {None} : tick.stream = identity

(* Whatever arrived is on the screen in the end: no tick stays behind in the
   dispatcher, in the store or in the pane. *)
Shown == /\ held = None /\ (phase = "ready" => queued = None)
       /\ behind = {} /\ \A s \in Known : pending[s] = None
ScreenCatchesUp == <>[]Shown

(* "Volume accumulates across ticks, seeded from the last snapshot's cumulative
   volume": a row counts no trade that was not made. *)
RowCountsTrades ==
  \A s \in Known : view[s] # None /\ view[s].stream = entitled => view[s].volume <= position[s]

(* "Discard any buffered ticks from the old stream rather than mixing the two":
   what a row shows of a tick is of the stream the user is on. *)
BoardDiscardsOldTicks ==
  \A s \in Known : view[s] # None /\ view[s].from = "tick" => view[s].stream = identity
=============================================================================
