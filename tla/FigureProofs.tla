---------------------------- MODULE FigureProofs -----------------------------
(***************************************************************************)
(* Theorems about Decimals and QuoteFigures, for all prices, quantities    *)
(* and units: what a row prints of a move, and that a row never mixes two  *)
(* baselines.                                                              *)
(***************************************************************************)
EXTENDS QuoteFigures, TLAPS

(* What the quotient of a division says of the dividend, and what it is.   *)
LEMMA Quotient ==
  ASSUME NEW a \in Nat, NEW b \in Nat \ {0}
  PROVE  /\ a \div b \in Nat
         /\ (a \div b) * b <= a
         /\ a < (a \div b) * b + b
  OBVIOUS

(* There is only one number of whole b in a. *)
LEMMA QuotientIsUnique ==
  ASSUME NEW a \in Nat, NEW b \in Nat \ {0}, NEW h \in Nat,
         h * b <= a, a < h * b + b
  PROVE  a \div b = h
<1> DEFINE q == a \div b
<1>1. q \in Nat /\ q * b <= a /\ a < q * b + b
  BY Quotient
<1> HIDE DEF q
<1>2. h * b \in Nat /\ q * b \in Nat
  BY <1>1
<1>3. CASE q < h
  <2>1. h = q + (h - q) /\ h - q \in Nat /\ h - q >= 1
    BY <1>1, <1>3
  <2>2. (h - q) * b >= b
    BY <2>1, <1>1
  <2>3. h * b = q * b + (h - q) * b
    BY <1>1
  <2> QED  BY <2>1, <2>2, <2>3, <1>1, <1>2
<1>4. CASE h < q
  <2>1. q - h \in Nat /\ q - h >= 1
    BY <1>1, <1>4
  <2>2. (q - h) * b >= b
    BY <2>1, <1>1
  <2>3. q * b = h * b + (q - h) * b
    BY <1>1
  <2> QED  BY <2>1, <2>2, <2>3, <1>1, <1>2
<1> QED  BY <1>1, <1>3, <1>4 DEF q

(* Dropping what is beyond the fourth decimal place before rounding to the second
   does not change what is rounded: a half has no more than four places. *)
LEMMA RoundsOnce ==
  ASSUME NEW a \in Nat, NEW b \in Nat \ {0}
  PROVE  ((100 * a) \div b + 50) \div 100 = (a + b \div 2) \div b
<1> DEFINE q == (100 * a) \div b
           h == (q + 50) \div 100
           k == b \div 2
<1>1. q \in Nat /\ q * b <= 100 * a /\ 100 * a < q * b + b
  BY Quotient
<1>2. k \in Nat /\ 2 * k <= b /\ b <= 2 * k + 1
  OBVIOUS
<1> HIDE DEF q, k
<1>3. h \in Nat /\ 100 * h <= q + 50 /\ q + 50 < 100 * h + 100
  BY <1>1
<1> HIDE DEF h
<1>4. (100 * h - 50) * b <= q * b
  BY <1>1, <1>3
<1>5. (q + 1) * b <= (100 * h + 50) * b
  BY <1>1, <1>3
<1>6. /\ (100 * h - 50) * b = 100 * (h * b) - 50 * b
      /\ (100 * h + 50) * b = 100 * (h * b) + 50 * b
      /\ (q + 1) * b = q * b + b
      /\ h * b \in Nat /\ q * b \in Nat
  BY <1>1, <1>3
<1>7. 2 * (h * b) <= 2 * a + b /\ 2 * a < 2 * (h * b) + b
  BY <1>1, <1>4, <1>5, <1>6
<1>8. h * b <= a + k /\ a + k < h * b + b
  BY <1>2, <1>6, <1>7
<1>9. (a + k) \div b = h
  BY <1>2, <1>3, <1>8, QuotientIsUnique
<1> QED  BY <1>9 DEF h, q, k

(* A percentage, computed to four places and printed at two, is what the exact ratio
   rounds to: a row prints what the wire says (decimal.ts:160-207). *)
THEOREM ChipIsExact ==
  \A from \in Nat \ {0}, to \in Nat :
    SignedPercent(PercentChange(from, to)) = PercentChangeText(from, to)
<1> SUFFICES ASSUME NEW from \in Nat \ {0}, NEW to \in Nat
             PROVE  SignedPercent(PercentChange(from, to)) = PercentChangeText(from, to)
  OBVIOUS
<1> DEFINE d == to - from
           s == SignOf(d)
           a == Magnitude(d) * 10000
           q == (100 * a) \div from
           h == (a + from \div 2) \div from
<1>1. a \in Nat /\ d \in Int
  BY DEF Magnitude
<1>2. /\ SignOf(d * 100 * 10000) = s /\ SignOf(d * 100 * 100) = s /\ SignOf(from) = 1
      /\ Magnitude(d * 100 * 10000) = 100 * a /\ Magnitude(d * 100 * 100) = a
      /\ Magnitude(from) = from
  BY <1>1 DEF SignOf, Magnitude
<1>3. q \in Nat /\ h \in Nat
  <2>1. 100 * a \in Nat /\ a + from \div 2 \in Nat
    BY <1>1
  <2>2. \A n \in Nat : n \div from \in Nat
    BY Quotient
  <2> QED  BY <2>1, <2>2
<1>4. (q + 50) \div 100 = h
  <2>1. \A n \in Nat : ((100 * n) \div from + 50) \div 100 = (n + from \div 2) \div from
    BY RoundsOnce
  <2>2. a \in Nat
    BY <1>1
  <2> HIDE DEF a
  <2> QED  BY <2>1, <2>2, Zenon
<1>5. s \in {-1, 0, 1} /\ (s = 0 => q = 0)
  <2>1. s \in {-1, 0, 1} /\ (s = 0 => a = 0)
    BY <1>1 DEF SignOf, Magnitude
  <2>2. 0 \div from = 0
    BY QuotientIsUnique
  <2>3. a = 0 => 100 * a = 0
    OBVIOUS
  <2> QED  BY <2>1, <2>2, <2>3
<1>6. PercentChange(from, to) = s * q
  BY <1>2, <1>5, <1>3 DEF PercentChange, Truncated
<1>7. PercentChangeText(from, to) = Printed(SignOf(s * h), Magnitude(s * h))
  BY <1>2, <1>5, <1>3 DEF PercentChangeText, Rounded
<1> HIDE DEF s, q, h, a, d
<1>8. Magnitude(s * q) = IF s = 0 THEN 0 ELSE q
  BY <1>3, <1>5 DEF Magnitude
<1>9. CASE q < 50
  <2>1. h = 0
    BY <1>3, <1>4, <1>9
  <2>2. Unchanged(s * q)
    BY <1>3, <1>5, <1>8, <1>9 DEF Unchanged
  <2> QED  BY <1>5, <1>6, <1>7, <2>1, <2>2 DEF SignedPercent, Printed, SignOf, Magnitude
<1>10. CASE q >= 50
  <2>1. s \in {-1, 1} /\ ~Unchanged(s * q)
    BY <1>3, <1>5, <1>8, <1>10 DEF Unchanged
  <2>2. SignOf(s * q) = s /\ Magnitude(s * q) = q
    BY <1>3, <1>8, <1>10, <2>1 DEF SignOf
  <2>3. Rounded(s * q, 100) = s * h
    BY <1>4, <2>2 DEF Rounded
  <2> QED  BY <1>6, <1>7, <2>1, <2>3 DEF SignedPercent, PercentFigure
<1> QED  BY <1>3, <1>9, <1>10

----------------------------------------------------------------------------
(* The inductive invariant: what travels is priced, the store's view is measured
   from the baseline it has, and there is neither view nor baseline before the one
   answer that registers the instrument.                                         *)

Money == Nat \ {0}
Streams == {"LIVE", "DELAYED"}
Wrongs == {Sound} \cup Fragile

Ticks == [type : {"tick"}, wrong : Wrongs, price : Money, at : Nat, quantity : Nat]
Snapshots == [type : {"snapshot"}, wrong : Wrongs, price : Money, at : Nat, volume : Nat,
              open : Money, close : Money \cup {None}]
Changes == [type : {"connected", "entitlementChanged"}, wrong : Wrongs, stream : Streams]
Others == [type : {"subscribed", "unsubscribed", "heartbeat", "error"}, wrong : Wrongs]
Messages == Ticks \cup Snapshots \cup Changes \cup Others

ExchangeOK ==
  /\ day \in [close : Money, open : Money, carries : BOOLEAN]
  /\ last \in [price : Money, at : Nat, volume : Nat]
  /\ stream \in Streams

InTransit ==
  /\ wire \in Seq(Messages)
  /\ asked \in [Callers -> {None, Asked} \cup Snapshots]
  /\ pending \in {None} \cup Ticks

Measured ==
  /\ meta \in {None} \cup [reference : Money, baseline : Money]
  /\ meta /= None => cached
  /\ inFlight => ~cached
  /\ view /= None =>
       /\ cached
       /\ view.price \in Money
       /\ view.change = Subtract(view.price, meta.baseline)
       /\ view.percent = PercentChange(meta.baseline, view.price)
       /\ meta \in [reference : Money, baseline : Money]

RowInv == ExchangeOK /\ InTransit /\ Measured

(* A view made by a price and a baseline. *)
LEMMA ViewOf ==
  ASSUME NEW price, NEW from, NEW volume
  PROVE  LET made == View(price, from, volume)
         IN  made.price = price /\ made.change = Subtract(price, from)
             /\ made.percent = PercentChange(from, price)
  BY DEF View

LEMMA BasisOf == ASSUME NEW s \in Snapshots PROVE Basis(s) \in Money
  BY DEF Basis, Snapshots

(* applySnapshot keeps the view measured from the baseline. *)
LEMMA SnapshotMeasured ==
  ASSUME Measured, NEW s \in Snapshots, ApplySnapshot(s), UNCHANGED <<cached, inFlight>>
  PROVE  Measured'
<1>1. CASE meta = None
  BY <1>1 DEF ApplySnapshot, Measured
<1>2. CASE meta /= None
  <2>1. /\ meta' = [meta EXCEPT !.baseline = Basis(s)]
        /\ view' = View(s.price, Basis(s), s.volume)
    BY <1>2 DEF ApplySnapshot
  <2>2. meta \in [reference : Money, baseline : Money] /\ cached
    BY <1>2 DEF Measured
  <2>3. meta' \in [reference : Money, baseline : Money] /\ meta'.baseline = Basis(s)
    BY <2>1, <2>2, BasisOf
  <2>4. s.price \in Money
    BY DEF Snapshots
  <2>5. /\ view'.price = s.price /\ view'.change = Subtract(s.price, Basis(s))
        /\ view'.percent = PercentChange(Basis(s), s.price)
    BY <2>1, ViewOf
  <2> QED  BY <2>2, <2>3, <2>4, <2>5 DEF Measured
<1> QED  BY <1>1, <1>2

(* applyTick measures from it. *)
LEMMA TickMeasured ==
  ASSUME Measured, NEW t \in Ticks, ApplyTick(t), UNCHANGED <<meta, cached, inFlight>>
  PROVE  Measured'
<1>1. CASE meta = None
  BY <1>1 DEF ApplyTick, Measured
<1>2. CASE meta /= None
  <2>1. PICK volume : view' = View(t.price, meta.baseline, volume)
    BY <1>2 DEF ApplyTick
  <2>2. meta \in [reference : Money, baseline : Money] /\ cached
    BY <1>2 DEF Measured
  <2>3. t.price \in Money
    BY DEF Ticks
  <2>4. /\ view'.price = t.price /\ view'.change = Subtract(t.price, meta.baseline)
        /\ view'.percent = PercentChange(meta.baseline, t.price)
    BY <2>1, ViewOf
  <2> QED  BY <2>2, <2>3, <2>4 DEF Measured
<1> QED  BY <1>1, <1>2

(* resetStream takes the view away with the baseline. *)
LEMMA ResetMeasured ==
  ASSUME Measured, ResetStream, UNCHANGED <<cached, inFlight>>
  PROVE  Measured'
<1>1. CASE meta = None
  BY <1>1 DEF ResetStream, Measured
<1>2. CASE meta /= None
  <2>1. meta' = [meta EXCEPT !.baseline = meta.reference] /\ view' = None
    BY <1>2 DEF ResetStream
  <2>2. meta \in [reference : Money, baseline : Money] /\ cached
    BY <1>2 DEF Measured
  <2>3. meta' \in [reference : Money, baseline : Money]
    BY <2>1, <2>2
  <2> QED  BY <2>1, <2>2, <2>3 DEF Measured
<1> QED  BY <1>1, <1>2

LEMMA InitRow == Init => RowInv
<1> SUFFICES ASSUME Init PROVE RowInv
  OBVIOUS
<1> USE FiguresAssumption DEF Money
<1>1. ExchangeOK
  BY DEF Init, ExchangeOK, Streams
<1>2. InTransit
  BY DEF Init, InTransit
<1>3. Measured
  BY DEF Init, Measured
<1> QED  BY <1>1, <1>2, <1>3 DEF RowInv

(* What a snapshot of the gateway looks like, and what may be wrong with one. *)
LEMMA SnapshotTyped ==
  ASSUME ExchangeOK, NEW wrong \in Wrongs
  PROVE  Snapshot(wrong) \in Snapshots
  BY DEF ExchangeOK, Snapshot, Snapshots

LEMMA SpoiltTyped == ASSUME NEW type PROVE Spoilt(type) \subseteq Wrongs
  BY DEF Spoilt, Wrongs

LEMMA SayKeeps ==
  ASSUME RowInv, NEW m \in Messages, Say(m)
  PROVE  InTransit' /\ Measured' /\ UNCHANGED <<day, last>>
<1>1. wire' = Append(wire, m) /\ UNCHANGED <<exchangeVars, sourceVars, storeVars, paneVars>>
  BY DEF Say
<1>2. UNCHANGED <<asked, pending, meta, view, cached, inFlight, day, last>>
  BY <1>1 DEF exchangeVars, sourceVars, storeVars
<1>3. wire' \in Seq(Messages)
  BY <1>1 DEF RowInv, InTransit
<1> QED  BY <1>2, <1>3 DEF RowInv, InTransit, Measured

(* What the source does with a frame. *)
LEMMA HandleKeeps ==
  ASSUME RowInv, NEW m \in Messages, Handle(m), UNCHANGED <<cached, inFlight>>
  PROVE  Measured' /\ pending' \in {None} \cup Ticks
<1>1. m.type \in {"connected", "tick", "snapshot", "entitlementChanged", "subscribed",
                   "unsubscribed", "heartbeat", "error"}
  BY DEF Messages, Ticks, Snapshots, Changes, Others
<1>2. pending \in {None} \cup Ticks /\ Measured
  BY DEF RowInv, InTransit
<1>3. CASE m.type = "tick"
  <2>1. m \in Ticks
    BY <1>3 DEF Messages, Ticks, Snapshots, Changes, Others
  <2>2. Push(m) /\ UNCHANGED <<meta, view>>
    BY <1>3 DEF Handle
  <2>3. pending' \in Ticks
    <3>1. CASE pending = None
      BY <2>1, <2>2, <3>1 DEF Push
    <3>2. CASE pending /= None
      <4>1. pending \in Ticks
        BY <1>2, <3>2
      <4>2. m.quantity \in Nat /\ pending.quantity \in Nat
        BY <2>1, <4>1 DEF Ticks
      <4>3. pending' = [m EXCEPT !.quantity = pending.quantity + m.quantity]
        BY <2>2, <3>2 DEF Push
      <4> QED  BY <2>1, <4>2, <4>3 DEF Ticks
    <3> QED  BY <3>1, <3>2
  <2> QED  BY <1>2, <2>2, <2>3 DEF Measured
<1>4. CASE m.type = "snapshot"
  <2>1. m \in Snapshots
    BY <1>4 DEF Messages, Ticks, Snapshots, Changes, Others
  <2>2. ApplySnapshot(m) /\ UNCHANGED pending
    BY <1>4 DEF Handle
  <2> QED  BY <1>2, <2>1, <2>2, SnapshotMeasured
<1>5. CASE m.type = "entitlementChanged"
  <2>1. UNCHANGED pending /\ (UNCHANGED <<meta, view>> \/ ResetStream)
    BY <1>5 DEF Handle
  <2>2. CASE UNCHANGED <<meta, view>>
    BY <1>2, <2>1, <2>2 DEF Measured
  <2> QED  BY <1>2, <2>1, <2>2, ResetMeasured
<1>6. CASE m.type \in {"connected", "subscribed", "unsubscribed", "heartbeat", "error"}
  <2>1. UNCHANGED storeVars
    BY <1>6 DEF Handle
  <2> QED  BY <1>2, <2>1 DEF storeVars, Measured
<1> QED  BY <1>1, <1>3, <1>4, <1>5, <1>6

LEMMA NextRow == RowInv /\ [Next]_vars => RowInv'
<1> SUFFICES ASSUME RowInv, [Next]_vars PROVE RowInv'
  OBVIOUS
<1>0. ExchangeOK /\ InTransit /\ Measured
  BY DEF RowInv
<1> USE DEF exchangeVars, gatewayVars, sourceVars, storeVars
<1>1. ASSUME NEW price \in Prices, Trade(price) PROVE RowInv'
  <2>1. price \in Money /\ Quantity \in Nat
    BY FiguresAssumption DEF Money
  <2>2. last' = [price |-> price, at |-> last.at + 1, volume |-> last.volume + Quantity]
        /\ UNCHANGED <<day, stream, sourceVars, storeVars>>
    BY <1>1 DEF Trade
  <2>3. ExchangeOK'
    BY <1>0, <2>1, <2>2 DEF ExchangeOK
  <2>4. wire' \in Seq(Messages)
    <3>1. CASE UNCHANGED wire
      BY <1>0, <3>1 DEF InTransit
    <3>2. ASSUME NEW wrong \in Spoilt("tick"), wire' = Append(wire, Tick(price, last.at + 1, wrong))
          PROVE  wire' \in Seq(Messages)
      <4>1. Tick(price, last.at + 1, wrong) \in Ticks
        BY <1>0, <2>1, <3>2, SpoiltTyped DEF Tick, Ticks, ExchangeOK
      <4> QED  BY <1>0, <3>2, <4>1 DEF InTransit, Messages
    <3> QED  BY <1>1, <3>1, <3>2 DEF Trade
  <2> QED  BY <1>0, <2>2, <2>3, <2>4 DEF RowInv, InTransit, Measured
<1>2. CASE Welcome
  <2>1. PICK wrong \in Spoilt("connected") :
          Say([type |-> "connected", wrong |-> wrong, stream |-> stream]) /\ UNCHANGED stream
    BY <1>2 DEF Welcome
  <2>2. [type |-> "connected", wrong |-> wrong, stream |-> stream] \in Messages
    BY <1>0, SpoiltTyped DEF Messages, Changes, ExchangeOK
  <2> QED  BY <1>0, <2>1, <2>2, SayKeeps DEF RowInv, ExchangeOK
<1>3. ASSUME NEW st \in {"LIVE", "DELAYED"}, Entitle(st) PROVE RowInv'
  <2>1. PICK wrong \in Spoilt("entitlementChanged") :
          Say([type |-> "entitlementChanged", wrong |-> wrong, stream |-> st]) /\ stream' = st
    BY <1>3 DEF Entitle
  <2>2. [type |-> "entitlementChanged", wrong |-> wrong, stream |-> st] \in Messages
    BY SpoiltTyped DEF Messages, Changes, Streams
  <2>3. st \in Streams
    BY DEF Streams
  <2> QED  BY <1>0, <2>1, <2>2, <2>3, SayKeeps DEF RowInv, ExchangeOK
<1>4. CASE PushSnapshot
  <2>1. PICK wrong \in Spoilt("snapshot") : Say(Snapshot(wrong)) /\ UNCHANGED stream
    BY <1>4 DEF PushSnapshot
  <2>2. Snapshot(wrong) \in Messages
    BY <1>0, SpoiltTyped, SnapshotTyped DEF Messages
  <2> QED  BY <1>0, <2>1, <2>2, SayKeeps DEF RowInv, ExchangeOK
<1>5. CASE Chatter
  <2>1. PICK type \in {"subscribed", "unsubscribed", "heartbeat", "error"}, wrong \in Wrongs :
          Say([type |-> type, wrong |-> wrong]) /\ UNCHANGED stream
    BY <1>5, SpoiltTyped DEF Chatter
  <2>2. [type |-> type, wrong |-> wrong] \in Messages
    BY DEF Messages, Others
  <2> QED  BY <1>0, <2>1, <2>2, SayKeeps DEF RowInv, ExchangeOK
<1>6. ASSUME NEW c \in Callers, Answer(c) PROVE RowInv'
  <2>1. PICK wrong \in Spoilt("snapshot") : asked' = [asked EXCEPT ![c] = Snapshot(wrong)]
    BY <1>6 DEF Answer
  <2>2. Snapshot(wrong) \in Snapshots
    BY <1>0, SpoiltTyped, SnapshotTyped
  <2>3. UNCHANGED <<exchangeVars, stream, wire, cached, inFlight, storeVars>>
    BY <1>6 DEF Answer
  <2>4. asked' \in [Callers -> {None, Asked} \cup Snapshots]
    BY <1>0, <2>1, <2>2 DEF InTransit
  <2> QED  BY <1>0, <2>3, <2>4 DEF RowInv, ExchangeOK, InTransit, Measured
<1>7. ASSUME NEW c \in Callers, SnapshotArrives(c) PROVE RowInv'
  <2>1. /\ asked[c] \notin {None, Asked} /\ asked' = [asked EXCEPT ![c] = None]
        /\ UNCHANGED <<exchangeVars, stream, wire, cached, inFlight, pending>>
        /\ ApplySnapshot(asked[c]) \/ UNCHANGED <<meta, view>>
    BY <1>7 DEF SnapshotArrives
  <2>2. asked[c] \in Snapshots /\ asked' \in [Callers -> {None, Asked} \cup Snapshots]
    BY <1>0, <2>1 DEF InTransit
  <2>3. Measured'
    <3>1. CASE UNCHANGED <<meta, view>>
      BY <1>0, <2>1, <3>1 DEF Measured
    <3> QED  BY <1>0, <2>1, <2>2, <3>1, SnapshotMeasured
  <2> QED  BY <1>0, <2>1, <2>2, <2>3 DEF RowInv, ExchangeOK, InTransit
<1>8. ASSUME NEW c \in Callers, SnapshotFails(c) PROVE RowInv'
  <2>1. /\ asked' = [asked EXCEPT ![c] = None]
        /\ UNCHANGED <<exchangeVars, stream, wire, cached, inFlight, storeVars>>
    BY <1>8 DEF SnapshotFails
  <2>2. asked' \in [Callers -> {None, Asked} \cup Snapshots]
    BY <1>0, <2>1 DEF InTransit
  <2> QED  BY <1>0, <2>1, <2>2 DEF RowInv, ExchangeOK, InTransit, Measured
<1>9. CASE Frame
  <2>1. /\ pending /= None /\ ApplyTick(pending) /\ pending' = None
        /\ UNCHANGED <<exchangeVars, stream, wire, asked, cached, inFlight, meta>>
    BY <1>9 DEF Frame
  <2>2. pending \in Ticks
    BY <1>0, <2>1 DEF InTransit
  <2>3. Measured'
    BY <1>0, <2>1, <2>2, TickMeasured
  <2> QED  BY <1>0, <2>1, <2>3 DEF RowInv, ExchangeOK, InTransit
<1>10. CASE ApplyQueued \/ Beat \/ ClosePane
  <2>1. UNCHANGED <<exchangeVars, gatewayVars, wire, sourceVars, storeVars>>
    BY <1>10 DEF ApplyQueued, Beat, ClosePane
  <2> QED  BY <1>0, <2>1 DEF RowInv, ExchangeOK, InTransit, Measured
<1>11. CASE Receive
  <2>1. /\ wire /= <<>> /\ wire' = Tail(wire)
        /\ UNCHANGED <<exchangeVars, gatewayVars, cached, inFlight, asked>>
        /\ Handle(Head(wire)) \/ UNCHANGED storeVars
    BY <1>11 DEF Receive
  <2>2. Head(wire) \in Messages /\ wire' \in Seq(Messages)
    BY <1>0, <2>1 DEF InTransit
  <2>3. Measured' /\ pending' \in {None} \cup Ticks
    <3>1. CASE UNCHANGED storeVars
      BY <1>0, <2>1, <3>1 DEF Measured, InTransit
    <3> QED  BY <2>1, <2>2, <3>1, HandleKeeps
  <2> QED  BY <1>0, <2>1, <2>2, <2>3 DEF RowInv, ExchangeOK, InTransit
<1>12. CASE LoadBoard
  <2>1. UNCHANGED <<exchangeVars, gatewayVars, wire, cached, storeVars>>
    BY <1>12 DEF LoadBoard
  <2>2. asked' \in [Callers -> {None, Asked} \cup Snapshots]
    BY <1>0, <1>12 DEF LoadBoard, Listed, InTransit
  <2>3. inFlight' => ~cached'
    <3>1. cached => inFlight' = inFlight
      BY <1>12 DEF LoadBoard
    <3>2. inFlight => ~cached
      BY <1>0 DEF Measured
    <3> QED  BY <2>1, <3>1, <3>2
  <2> QED  BY <1>0, <2>1, <2>2, <2>3 DEF RowInv, ExchangeOK, InTransit, Measured
<1>13. CASE UniverseArrives
  <2>1. /\ inFlight /\ inFlight' = FALSE
        /\ UNCHANGED <<exchangeVars, stream, wire, view, pending>>
        /\ \/ PrimeUniverse /\ cached' = TRUE /\ Listed(waiting)
           \/ UNCHANGED <<meta, cached, asked>>
    BY <1>13 DEF UniverseArrives
  <2>2. asked' \in [Callers -> {None, Asked} \cup Snapshots]
    BY <1>0, <2>1 DEF Listed, InTransit
  <2>3. ~cached /\ meta = None /\ view = None
    BY <1>0, <2>1 DEF Measured
  <2>4. Measured'
    <3>1. CASE PrimeUniverse /\ cached' = TRUE
      <4>1. meta' = [reference |-> day.close, baseline |-> day.close]
        BY <2>3, <3>1 DEF PrimeUniverse
      <4>2. day.close \in Money
        BY <1>0 DEF ExchangeOK
      <4> QED  BY <2>1, <2>3, <3>1, <4>1, <4>2 DEF Measured
    <3>2. CASE UNCHANGED <<meta, cached, asked>>
      BY <1>0, <2>1, <3>2 DEF Measured
    <3> QED  BY <2>1, <3>1, <3>2
  <2> QED  BY <1>0, <2>1, <2>2, <2>4 DEF RowInv, ExchangeOK, InTransit
<1>14. CASE UniverseFails
  <2>1. inFlight' = FALSE /\ UNCHANGED <<exchangeVars, stream, wire, cached, asked, storeVars>>
    BY <1>14 DEF UniverseFails
  <2> QED  BY <1>0, <2>1 DEF RowInv, ExchangeOK, InTransit, Measured
<1>15. CASE OpenPane
  <2>1. /\ asked' = [asked EXCEPT !["pane"] = Asked]
        /\ UNCHANGED <<exchangeVars, gatewayVars, wire, cached, storeVars>>
    BY <1>15 DEF OpenPane
  <2>2. asked' \in [Callers -> {None, Asked} \cup Snapshots]
    BY <1>0, <2>1 DEF InTransit
  <2>3. inFlight' => ~cached'
    <3>1. cached => inFlight' = inFlight
      BY <1>15 DEF OpenPane
    <3>2. inFlight => ~cached
      BY <1>0 DEF Measured
    <3> QED  BY <2>1, <3>1, <3>2
  <2> QED  BY <1>0, <2>1, <2>2, <2>3 DEF RowInv, ExchangeOK, InTransit, Measured
<1>16. CASE UNCHANGED vars
  BY <1>0, <1>16 DEF vars, RowInv, ExchangeOK, InTransit, Measured
<1> QED
  BY <1>1, <1>2, <1>3, <1>4, <1>5, <1>6, <1>7, <1>8, <1>9, <1>10, <1>11, <1>12, <1>13, <1>14,
     <1>15, <1>16 DEF Next

(* What the invariant says of a row: the figures on it follow from one baseline. *)
LEMMA RowFollows == RowInv => RowFiguresAgree
<1> SUFFICES ASSUME RowInv, view /= None PROVE RowFiguresAgree
  BY DEF RowFiguresAgree
<1> DEFINE from == meta.baseline
<1>1. /\ view.price \in Money /\ from \in Money
      /\ view.change = Subtract(view.price, from)
      /\ view.percent = PercentChange(from, view.price)
  BY DEF RowInv, Measured
<1>2. Chip = PercentChangeText(from, view.price)
  BY <1>1, ChipIsExact DEF Chip, Money
<1> DEFINE d == view.price - from
           p == view.percent
<1>3. d \in Int /\ p \in Int /\ SignOf(p) \in {0, SignOf(d)}
  <2>1. d \in Int /\ from \in Nat \ {0} /\ SignOf(d * 100 * 10000) = SignOf(d)
        /\ Magnitude(d * 100 * 10000) \in Nat /\ SignOf(from) = 1 /\ Magnitude(from) = from
    BY <1>1 DEF Money, SignOf, Magnitude
  <2> DEFINE q == Magnitude(d * 100 * 10000) \div from
  <2>2. q \in Nat
    BY <2>1, Quotient
  <2>3. p = SignOf(d) * 1 * q
    BY <1>1, <2>1 DEF PercentChange, Truncated
  <2> HIDE DEF q, p, d
  <2>4. SignOf(d) \in {-1, 0, 1}
    BY <2>1 DEF SignOf
  <2>5. CASE SignOf(d) = 0
    BY <2>1, <2>2, <2>3, <2>5 DEF SignOf
  <2>6. CASE SignOf(d) = 1
    BY <2>1, <2>2, <2>3, <2>6 DEF SignOf
  <2>7. CASE SignOf(d) = -1
    BY <2>1, <2>2, <2>3, <2>7 DEF SignOf
  <2> QED  BY <2>1, <2>4, <2>5, <2>6, <2>7
<1>4. Chip.sign = IF Unchanged(p) THEN 0 ELSE SignOf(p)
  <2> HIDE DEF p, d
  <2>1. CASE Unchanged(p)
    BY <2>1 DEF Chip, SignedPercent, Printed, p
  <2>2. CASE ~Unchanged(p)
    <3>1. Rounded(p, 100) \in Int /\ SignOf(Rounded(p, 100)) = SignOf(p)
      BY <1>3, <2>2 DEF Unchanged, Rounded, SignOf, Magnitude
    <3>2. Chip = PercentFigure(p)
      BY <2>2 DEF Chip, SignedPercent, p
    <3> QED  BY <2>2, <3>1, <3>2 DEF PercentFigure, Printed
  <2> QED  BY <2>1, <2>2
<1>5. PercentTone(p) = DeltaTone(Chip.sign) /\ DirectionWord = PercentTone(p)
  <2> HIDE DEF d
  <2> QED  BY <1>3, <1>4 DEF PercentTone, DirectionWord, DeltaTone, SignOf
<1>6. Chip.sign /= 0 => FormatSigned(view.change).sign = Chip.sign
  BY <1>1, <1>3, <1>4 DEF FormatSigned, Printed, Subtract
<1> QED  BY <1>1, <1>2, <1>5, <1>6 DEF RowFiguresAgree

(* For every price, universe and order of frames, answers and failures, what a row says
   of a move is one move: its change and its percentage have one baseline, the printed
   percentage is what the exact ratio rounds to, and sign, colour and word agree with it
   (store.ts:153-284, boardColumns.tsx:255-287). *)
THEOREM RowAgrees == Spec => []RowFiguresAgree
<1>1. Init => RowInv
  BY InitRow
<1>2. RowInv /\ [Next]_vars => RowInv'
  BY NextRow
<1>3. RowInv => RowFiguresAgree
  BY RowFollows
<1> QED  BY <1>1, <1>2, <1>3, PTL DEF Spec

----------------------------------------------------------------------------
(* The pane.  Every snapshot that parses tells of the one session, so there is one
   thing to measure from; the pane has it whenever its tiles are filled.         *)

TheBasis == IF day.carries THEN day.close ELSE day.open

TellsOf(s, d) ==
  Parses(s) => /\ s.open = d.open
               /\ s.close = IF d.carries THEN d.close ELSE None

Tells(s) == TellsOf(s, day)

AllTell ==
  /\ \A i \in 1 .. Len(wire) : wire[i].type = "snapshot" => Tells(wire[i])
  /\ \A c \in Callers : asked[c] \notin {None, Asked} => Tells(asked[c])

Captioned ==
  /\ queued \in {None} \cup Ticks /\ held \in {None} \cup Ticks
  /\ extras /= None => /\ extras.isPreviousClose = day.carries
                      /\ extras.open = day.open
                      /\ extras.baseline = TheBasis
                      /\ baseline = TheBasis
  /\ (quote /= None /\ anchored) =>
       /\ quote.price \in Money
       /\ quote.change = Subtract(quote.price, TheBasis)
       /\ quote.text = PercentFigure(PercentChange(TheBasis, quote.price))

PaneInv == RowInv /\ AllTell /\ Captioned

LEMMA BasisIsMoney ==
  ASSUME ExchangeOK PROVE TheBasis \in Money /\ TheBasis /= None
  BY FiguresAssumption DEF ExchangeOK, TheBasis, Money

LEMMA QuoteOf ==
  ASSUME NEW price, NEW at, NEW from
  PROVE  LET made == Quote(price, at, from)
         IN  made.price = price /\ made.change = Subtract(price, from)
             /\ made.text = PercentFigure(PercentChange(from, price))
  BY DEF Quote

(* A snapshot that tells of the session implies its basis. *)
LEMMA TellsBasis ==
  ASSUME ExchangeOK, NEW s \in Snapshots, Tells(s), Parses(s)
  PROVE  Basis(s) = TheBasis /\ (s.close /= None) = day.carries /\ s.open = day.open
<1>1. day.close \in Nat /\ day.carries \in BOOLEAN
  BY DEF ExchangeOK, Money
<1>2. day.close /= None
  BY <1>1, FiguresAssumption
<1> QED  BY <1>1, <1>2 DEF Tells, TellsOf, Basis, TheBasis

LEMMA IngestCaptioned ==
  ASSUME ExchangeOK, Captioned, NEW s \in Snapshots, Tells(s), Parses(s), IngestSnapshot(s),
         UNCHANGED day
  PROVE  Captioned'
<1>1. CASE Deaf
  BY <1>1 DEF IngestSnapshot, paneVars, Captioned, TheBasis
<1>2. CASE ~Deaf
  <2>1. Basis(s) = TheBasis /\ (s.close /= None) = day.carries /\ s.open = day.open /\ s.price \in Money
        /\ TheBasis' = TheBasis
    BY TellsBasis DEF Snapshots, TheBasis
  <2>2. baseline' = TheBasis /\ UNCHANGED <<queued, held>>
    BY <1>2, <2>1 DEF IngestSnapshot
  <2>3. extras' /= None => /\ extras'.isPreviousClose = day.carries
                           /\ extras'.open = day.open
                           /\ extras'.baseline = TheBasis
    <3>1. CASE Newer(extras, s)
      BY <1>2, <3>1 DEF IngestSnapshot, Newer, Captioned
    <3>2. CASE ~Newer(extras, s)
      BY <1>2, <2>1, <3>2 DEF IngestSnapshot
    <3> QED  BY <3>1, <3>2
  <2>4. (quote' /= None /\ anchored') =>
          /\ quote'.price \in Money
          /\ quote'.change = Subtract(quote'.price, TheBasis)
          /\ quote'.text = PercentFigure(PercentChange(TheBasis, quote'.price))
    <3>1. CASE Newer(quote, s)
      BY <1>2, <3>1 DEF IngestSnapshot, Captioned
    <3>2. CASE ~Newer(quote, s)
      <4>1. quote' = Quote(s.price, s.at, TheBasis)
        BY <1>2, <2>1, <3>2 DEF IngestSnapshot
      <4> QED  BY <2>1, <4>1, QuoteOf
    <3> QED  BY <3>1, <3>2
  <2> QED  BY <2>1, <2>2, <2>3, <2>4 DEF Captioned
<1> QED  BY <1>1, <1>2

(* A tick is measured from the basis once the tiles are filled. *)
LEMMA MergeCaptioned ==
  ASSUME ExchangeOK, Captioned, NEW t \in Ticks, MergeTick(t), UNCHANGED <<day, baseline, extras>>,
         queued' \in {None} \cup Ticks, held' \in {None} \cup Ticks
  PROVE  Captioned'
<1>1. TheBasis' = TheBasis
  BY DEF TheBasis
<1>2. CASE Loses(t)
  BY <1>1, <1>2 DEF MergeTick, Captioned
<1>3. CASE ~Loses(t)
  <2>1. quote' = Quote(t.price, t.at, EffectiveBaseline(t)) /\ anchored' = (extras /= None)
    BY <1>3 DEF MergeTick
  <2>2. anchored' => EffectiveBaseline(t) = TheBasis
    BY <2>1, BasisIsMoney DEF Captioned, EffectiveBaseline
  <2>3. t.price \in Money
    BY DEF Ticks
  <2> QED  BY <1>1, <2>1, <2>2, <2>3, QuoteOf DEF Captioned
<1> QED  BY <1>2, <1>3

LEMMA AfreshCaptioned == ASSUME Afresh, UNCHANGED day PROVE Captioned'
  BY DEF Afresh, Captioned

LEMMA StillCaptioned ==
  ASSUME Captioned, UNCHANGED <<day, baseline, quote, extras, anchored>>,
         queued' \in {None} \cup Ticks, held' \in {None} \cup Ticks
  PROVE  Captioned'
  BY DEF Captioned, TheBasis

LEMMA InitPane == Init => PaneInv
<1> SUFFICES ASSUME Init PROVE PaneInv
  OBVIOUS
<1>1. AllTell
  BY DEF Init, AllTell
<1>2. Captioned
  BY DEF Init, Captioned
<1> QED  BY <1>1, <1>2, InitRow DEF PaneInv

(* The gateway tells of the session in every snapshot that parses. *)
LEMMA SnapshotTells ==
  ASSUME NEW wrong PROVE Tells(Snapshot(wrong))
<1> SUFFICES ASSUME Parses(Snapshot(wrong))
             PROVE  /\ Snapshot(wrong).open = day.open
                    /\ Snapshot(wrong).close = IF day.carries THEN day.close ELSE None
  BY DEF Tells, TellsOf
<1>1. Snapshot(wrong).wrong = wrong /\ Snapshot(wrong).type = "snapshot"
  BY DEF Snapshot
<1>2. wrong /= "previousClose"
  BY <1>1 DEF Parses, Fails, Checked, SnapshotFields
<1> QED  BY <1>2 DEF Snapshot

LEMMA AppendTells ==
  ASSUME wire \in Seq(Messages), AllTell, NEW m \in Messages, m.type = "snapshot" => Tells(m),
         wire' = Append(wire, m), UNCHANGED <<day, asked>>
  PROVE  AllTell'
<1>1. ASSUME NEW i \in 1 .. Len(wire'), wire'[i].type = "snapshot" PROVE TellsOf(wire'[i], day')
  <2>1. Len(wire') = Len(wire) + 1 /\ Len(wire) \in Nat
        /\ wire'[i] = IF i = Len(wire) + 1 THEN m ELSE wire[i]
    OBVIOUS
  <2>2. Tells(wire'[i])
    BY <1>1, <2>1 DEF AllTell
  <2> QED  BY <2>2 DEF Tells
<1>2. ASSUME NEW c \in Callers, asked[c] \notin {None, Asked} PROVE TellsOf(asked'[c], day')
  BY <1>2 DEF AllTell, Tells
<1> QED  BY <1>1, <1>2 DEF AllTell, Tells

LEMMA TailTells ==
  ASSUME wire \in Seq(Messages), wire /= <<>>, AllTell, wire' = Tail(wire), UNCHANGED <<day, asked>>
  PROVE  AllTell'
<1>1. ASSUME NEW i \in 1 .. Len(wire'), wire'[i].type = "snapshot" PROVE TellsOf(wire'[i], day')
  <2>1. Len(wire') = Len(wire) - 1 /\ Len(wire) \in Nat /\ wire'[i] = wire[i + 1]
    OBVIOUS
  <2>2. Tells(wire'[i])
    BY <1>1, <2>1 DEF AllTell
  <2> QED  BY <2>2 DEF Tells
<1>2. ASSUME NEW c \in Callers, asked[c] \notin {None, Asked} PROVE TellsOf(asked'[c], day')
  BY <1>2 DEF AllTell, Tells
<1> QED  BY <1>1, <1>2 DEF AllTell, Tells

(* Nothing on its way changes but one caller's request. *)
LEMMA AskTells ==
  ASSUME AllTell, NEW c \in Callers, NEW v, v \notin {None, Asked} => Tells(v),
         asked \in [Callers -> {None, Asked} \cup Snapshots],
         asked' = [asked EXCEPT ![c] = v], UNCHANGED <<day, wire>>
  PROVE  AllTell'
<1>1. ASSUME NEW i \in 1 .. Len(wire), wire[i].type = "snapshot" PROVE TellsOf(wire'[i], day')
  BY <1>1 DEF AllTell, Tells
<1>2. ASSUME NEW e \in Callers, asked'[e] \notin {None, Asked} PROVE TellsOf(asked'[e], day')
  <2>1. Tells(asked'[e])
    BY <1>2 DEF AllTell
  <2> QED  BY <2>1 DEF Tells
<1> QED  BY <1>1, <1>2 DEF AllTell, Tells

LEMMA SameTells == ASSUME AllTell, UNCHANGED <<day, wire, asked>> PROVE AllTell'
  BY DEF AllTell, Tells

(* What the pane does with a frame. *)
LEMMA PaneHandles ==
  ASSUME PaneInv, NEW m \in Messages, Handle(m), Parses(m), m.type = "snapshot" => Tells(m),
         UNCHANGED day
  PROVE  Captioned'
<1>1. m.type \in {"connected", "tick", "snapshot", "entitlementChanged", "subscribed",
                   "unsubscribed", "heartbeat", "error"}
  BY DEF Messages, Ticks, Snapshots, Changes, Others
<1>2. ExchangeOK /\ Captioned
  BY DEF PaneInv, RowInv
<1>3. CASE m.type = "tick"
  <2>1. m \in Ticks
    BY <1>3 DEF Messages, Ticks, Snapshots, Changes, Others
  <2>2. PaneTick(m)
    BY <1>3 DEF Handle
  <2>3. queued' \in {None} \cup Ticks /\ held' \in {None} \cup Ticks
    BY <1>2, <2>1, <2>2 DEF PaneTick, Captioned
  <2> QED  BY <1>2, <2>2, <2>3, StillCaptioned DEF PaneTick
<1>4. CASE m.type = "snapshot"
  <2>1. m \in Snapshots
    BY <1>4 DEF Messages, Ticks, Snapshots, Changes, Others
  <2>2. IngestSnapshot(m)
    BY <1>4 DEF Handle
  <2> QED  BY <1>2, <1>4, <2>1, <2>2, IngestCaptioned
<1>5. CASE m.type = "entitlementChanged"
  <2>1. Discards
    BY <1>5 DEF Handle
  <2>2. CASE Afresh
    BY <2>2, AfreshCaptioned
  <2>3. CASE UNCHANGED paneVars
    BY <1>2, <2>3, StillCaptioned DEF paneVars, Captioned
  <2> QED  BY <2>1, <2>2, <2>3 DEF Discards
<1>6. CASE m.type \in {"connected", "subscribed", "unsubscribed", "heartbeat", "error"}
  <2>1. UNCHANGED <<baseline, quote, extras, queued, held, anchored>>
    BY <1>6 DEF Handle, NotFound, paneVars
  <2> QED  BY <1>2, <2>1, StillCaptioned DEF Captioned
<1> QED  BY <1>1, <1>3, <1>4, <1>5, <1>6

LEMMA NextPane == PaneInv /\ [Next]_vars => PaneInv'
<1> SUFFICES ASSUME PaneInv, [Next]_vars PROVE AllTell' /\ Captioned'
  BY NextRow DEF PaneInv
<1>0. /\ ExchangeOK /\ wire \in Seq(Messages) /\ asked \in [Callers -> {None, Asked} \cup Snapshots]
      /\ AllTell /\ Captioned
  BY DEF PaneInv, RowInv, InTransit
<1> USE DEF exchangeVars, gatewayVars, sourceVars, storeVars
<1>a. UNCHANGED paneVars /\ UNCHANGED day => Captioned'
  BY <1>0, StillCaptioned DEF paneVars, Captioned
<1>b. ASSUME NEW m \in Messages, Say(m), m.type = "snapshot" => Tells(m)
      PROVE  AllTell' /\ Captioned'
  <2>1. wire' = Append(wire, m) /\ UNCHANGED <<day, asked, paneVars>>
    BY <1>b DEF Say
  <2> QED  BY <1>0, <1>a, <1>b, <2>1, AppendTells
<1>1. ASSUME NEW price \in Prices, Trade(price) PROVE AllTell' /\ Captioned'
  <2>1. UNCHANGED <<day, asked, paneVars>>
    BY <1>1 DEF Trade
  <2>2. CASE UNCHANGED wire
    BY <1>0, <1>a, <2>1, <2>2, SameTells
  <2>3. ASSUME NEW wrong \in Spoilt("tick"), wire' = Append(wire, Tick(price, last.at + 1, wrong))
        PROVE  AllTell' /\ Captioned'
    <3>1. Tick(price, last.at + 1, wrong) \in Ticks /\ Tick(price, last.at + 1, wrong).type = "tick"
      BY <1>0, FiguresAssumption, SpoiltTyped DEF Tick, Ticks, ExchangeOK, Money
    <3> QED  BY <1>0, <1>a, <2>1, <2>3, <3>1, AppendTells DEF Messages
  <2> QED  BY <1>1, <2>2, <2>3 DEF Trade
<1>2. CASE Welcome
  <2>1. PICK wrong \in Spoilt("connected") :
          Say([type |-> "connected", wrong |-> wrong, stream |-> stream])
    BY <1>2 DEF Welcome
  <2>2. [type |-> "connected", wrong |-> wrong, stream |-> stream] \in Messages
    BY <1>0, SpoiltTyped DEF Messages, Changes, ExchangeOK
  <2> QED  BY <1>b, <2>1, <2>2
<1>3. ASSUME NEW st \in {"LIVE", "DELAYED"}, Entitle(st) PROVE AllTell' /\ Captioned'
  <2>1. PICK wrong \in Spoilt("entitlementChanged") :
          Say([type |-> "entitlementChanged", wrong |-> wrong, stream |-> st])
    BY <1>3 DEF Entitle
  <2>2. [type |-> "entitlementChanged", wrong |-> wrong, stream |-> st] \in Messages
    BY SpoiltTyped DEF Messages, Changes, Streams
  <2> QED  BY <1>b, <2>1, <2>2
<1>4. CASE PushSnapshot
  <2>1. PICK wrong \in Spoilt("snapshot") : Say(Snapshot(wrong))
    BY <1>4 DEF PushSnapshot
  <2>2. Snapshot(wrong) \in Messages
    BY <1>0, SpoiltTyped, SnapshotTyped DEF Messages
  <2> QED  BY <1>b, <2>1, <2>2, SnapshotTells
<1>5. CASE Chatter
  <2>1. PICK type \in {"subscribed", "unsubscribed", "heartbeat", "error"}, wrong \in Wrongs :
          Say([type |-> type, wrong |-> wrong])
    BY <1>5, SpoiltTyped DEF Chatter
  <2>2. [type |-> type, wrong |-> wrong] \in Messages
    BY DEF Messages, Others
  <2> QED  BY <1>b, <2>1, <2>2
<1>6. ASSUME NEW c \in Callers, Answer(c) PROVE AllTell' /\ Captioned'
  <2>1. PICK wrong \in Spoilt("snapshot") : asked' = [asked EXCEPT ![c] = Snapshot(wrong)]
    BY <1>6 DEF Answer
  <2>2. UNCHANGED <<day, wire, paneVars>>
    BY <1>6 DEF Answer
  <2>3. AllTell'
    BY <1>0, <2>1, <2>2, SnapshotTells, AskTells
  <2> QED  BY <1>a, <2>2, <2>3
<1>7. ASSUME NEW c \in Callers, SnapshotArrives(c) PROVE AllTell' /\ Captioned'
  <2>1. /\ asked[c] \notin {None, Asked} /\ asked' = [asked EXCEPT ![c] = None]
        /\ UNCHANGED <<day, wire>>
    BY <1>7 DEF SnapshotArrives
  <2>2. AllTell'
    BY <1>0, <2>1, AskTells
  <2>3. \/ UNCHANGED paneVars \/ NotFound
        \/ Parses(asked[c]) /\ IngestSnapshot(asked[c])
    BY <1>7 DEF SnapshotArrives
  <2>4. CASE UNCHANGED paneVars
    BY <1>a, <2>1, <2>2, <2>4
  <2>5. CASE NotFound
    BY <1>0, <2>1, <2>2, <2>5, StillCaptioned DEF NotFound, Captioned
  <2>6. CASE Parses(asked[c]) /\ IngestSnapshot(asked[c])
    <3>1. asked[c] \in Snapshots /\ Tells(asked[c])
      BY <1>0, <2>1 DEF AllTell
    <3> QED  BY <1>0, <2>1, <2>2, <2>6, <3>1, IngestCaptioned
  <2> QED  BY <2>3, <2>4, <2>5, <2>6
<1>8. ASSUME NEW c \in Callers, SnapshotFails(c) PROVE AllTell' /\ Captioned'
  <2>1. /\ asked' = [asked EXCEPT ![c] = None] /\ UNCHANGED <<day, wire>>
        /\ (UNCHANGED paneVars \/ NotFound)
    BY <1>8 DEF SnapshotFails
  <2>2. AllTell'
    BY <1>0, <2>1, AskTells
  <2>3. CASE UNCHANGED paneVars
    BY <1>a, <2>1, <2>2, <2>3
  <2>4. CASE NotFound
    BY <1>0, <2>1, <2>2, <2>4, StillCaptioned DEF NotFound, Captioned
  <2> QED  BY <2>1, <2>3, <2>4
<1>9. CASE Frame \/ UniverseFails
  <2>1. UNCHANGED <<day, wire, asked, paneVars>>
    BY <1>9 DEF Frame, UniverseFails
  <2> QED  BY <1>0, <1>a, <2>1, SameTells
<1>10. CASE ApplyQueued \/ Beat
  <2>1. UNCHANGED <<day, wire, asked, baseline, extras>>
    BY <1>10 DEF ApplyQueued, Beat
  <2>2. PICK t \in Ticks : MergeTick(t)
    BY <1>0, <1>10 DEF ApplyQueued, Beat, Captioned
  <2>3. queued' \in {None} \cup Ticks /\ held' \in {None} \cup Ticks
    BY <1>0, <1>10 DEF ApplyQueued, Beat, Captioned
  <2> QED  BY <1>0, <2>1, <2>2, <2>3, SameTells, MergeCaptioned
<1>11. CASE Receive
  <2>1. /\ wire /= <<>> /\ wire' = Tail(wire) /\ UNCHANGED <<day, asked>>
        /\ (UNCHANGED paneVars \/ (Parses(Head(wire)) /\ Handle(Head(wire))))
    BY <1>11 DEF Receive
  <2>2. AllTell'
    BY <1>0, <2>1, TailTells
  <2>3. /\ Head(wire) \in Messages
        /\ Head(wire).type = "snapshot" => Tells(Head(wire))
    <3>1. Head(wire) = wire[1] /\ 1 \in 1 .. Len(wire)
      BY <1>0, <2>1
    <3> QED  BY <1>0, <2>1, <3>1 DEF AllTell
  <2> QED  BY <1>a, <2>1, <2>2, <2>3, PaneHandles
<1>12. CASE LoadBoard \/ UniverseArrives
  <2>1. /\ UNCHANGED <<day, wire, paneVars>>
        /\ \/ UNCHANGED asked
           \/ asked' = [asked EXCEPT !["board"] = Asked]
    BY <1>12 DEF LoadBoard, UniverseArrives, Listed
  <2>2. CASE UNCHANGED asked
    BY <1>0, <1>a, <2>1, <2>2, SameTells
  <2>3. CASE asked' = [asked EXCEPT !["board"] = Asked]
    BY <1>0, <1>a, <2>1, <2>3, AskTells DEF Callers
  <2> QED  BY <2>1, <2>2, <2>3
<1>13. CASE OpenPane
  <2>1. /\ asked' = [asked EXCEPT !["pane"] = Asked] /\ UNCHANGED <<day, wire>> /\ Afresh
    BY <1>13 DEF OpenPane
  <2> QED  BY <1>0, <2>1, AskTells, AfreshCaptioned DEF Callers
<1>14. CASE ClosePane
  <2>1. Afresh /\ UNCHANGED <<day, wire, asked>>
    BY <1>14 DEF ClosePane
  <2> QED  BY <1>0, <2>1, SameTells, AfreshCaptioned
<1>15. CASE UNCHANGED vars
  <2>1. UNCHANGED <<day, wire, asked, paneVars>>
    BY <1>15 DEF vars
  <2> QED  BY <1>0, <1>a, <2>1, SameTells
<1> QED
  BY <1>1, <1>2, <1>3, <1>4, <1>5, <1>6, <1>7, <1>8, <1>9, <1>10, <1>11, <1>12, <1>13, <1>14,
     <1>15 DEF Next

(* A figure that rounds to zero is the chip's plain zero. *)
LEMMA FigureIsChip == \A p \in Int : PercentFigure(p) = SignedPercent(p)
<1> SUFFICES ASSUME NEW p \in Int, Unchanged(p) PROVE PercentFigure(p) = Printed(0, 0)
  BY DEF SignedPercent
<1>1. (Magnitude(p) + 50) \div 100 = 0 /\ SignOf(p) \in Int
  BY DEF Unchanged, Magnitude, SignOf
<1>2. Rounded(p, 100) = 0
  BY <1>1 DEF Rounded
<1> QED  BY <1>2 DEF PercentFigure, SignOf, Magnitude

LEMMA PercentIsInt == ASSUME NEW from \in Money, NEW to \in Money PROVE PercentChange(from, to) \in Int
<1>1. /\ SignOf((to - from) * 100 * 10000) \in Int /\ SignOf(from) \in Int
      /\ Magnitude((to - from) * 100 * 10000) \in Nat /\ Magnitude(from) \in Nat \ {0}
  BY DEF Money, SignOf, Magnitude
<1>2. Magnitude((to - from) * 100 * 10000) \div Magnitude(from) \in Nat
  BY <1>1, Quotient
<1> QED  BY <1>1, <1>2 DEF PercentChange, Truncated

(* A printed percentage has no sign, or that of the move. *)
LEMMA FigureHasSign ==
  ASSUME NEW from \in Money, NEW to \in Money
  PROVE  PercentChangeText(from, to).sign \in {0, SignOf(to - from)}
<1> DEFINE a == (to - from) * 100 * 100
           n == (Magnitude(a) + from \div 2) \div from
<1>1. from \in Nat \ {0} /\ a \in Int /\ SignOf(a) = SignOf(to - from) /\ SignOf(from) = 1
      /\ Magnitude(from) = from /\ Magnitude(a) + from \div 2 \in Nat
  BY DEF Money, SignOf, Magnitude
<1>2. n \in Nat
  <2>1. \A k \in Nat : k \div from \in Nat
    BY <1>1, Quotient
  <2> QED  BY <1>1, <2>1
<1>3. PercentChangeText(from, to) = Printed(SignOf(SignOf(a) * n), Magnitude(SignOf(a) * n))
  BY <1>1, <1>2 DEF PercentChangeText, Rounded, SignOf
<1> HIDE DEF a, n
<1>4. SignOf(SignOf(a) * n) \in {0, SignOf(a)}
  <2>1. SignOf(a) \in {-1, 0, 1}
    BY <1>1 DEF SignOf
  <2>2. CASE SignOf(a) = 0
    BY <1>2, <2>2 DEF SignOf
  <2>3. CASE SignOf(a) = 1
    BY <1>2, <2>3 DEF SignOf
  <2>4. CASE SignOf(a) = -1
    BY <1>2, <2>4 DEF SignOf
  <2> QED  BY <2>1, <2>2, <2>3, <2>4
<1> QED  BY <1>1, <1>3, <1>4 DEF Printed

(* What the pane prints of a move is what the exact ratio rounds to. *)
LEMMA FigureIsExact ==
  ASSUME NEW from \in Money, NEW to \in Money
  PROVE  PercentFigure(PercentChange(from, to)) = PercentChangeText(from, to)
  BY PercentIsInt, FigureIsChip, ChipIsExact DEF Money

(* For every session and order of snapshots, ticks, answers and malformed frames, the
   change in the pane is measured from what its caption and tiles name, its text is what
   the exact ratio rounds to and agrees with the arrow, and the note on the Open tile is
   the move since the open: as long as the session's snapshots name one close and one open,
   and for the quotes that were made when there was a snapshot to measure them from
   (useDetailQuote.ts:132-242, detailQuote.ts:31-84). *)
THEOREM CaptionTrue == Spec => []CaptionIsTrue
<1>1. Init => PaneInv
  BY InitPane
<1>2. PaneInv /\ [Next]_vars => PaneInv'
  BY NextPane
<1>3. PaneInv => CaptionIsTrue
  <2> SUFFICES ASSUME PaneInv, quote /= None, extras /= None, anchored PROVE CaptionIsTrue
    BY DEF CaptionIsTrue
  <2>1. /\ extras.isPreviousClose = day.carries /\ extras.baseline = TheBasis
        /\ extras.open = day.open
        /\ quote.price \in Money /\ quote.change = Subtract(quote.price, TheBasis)
        /\ quote.text = PercentFigure(PercentChange(TheBasis, quote.price))
    BY DEF PaneInv, Captioned
  <2>2. TheBasis \in Money /\ day.open \in Money
    BY BasisIsMoney DEF PaneInv, RowInv, ExchangeOK
  <2>3. quote.text = PercentChangeText(TheBasis, quote.price)
    BY <2>1, <2>2, FigureIsExact
  <2>4. day.carries => OpenTileNote = PercentChangeText(day.open, quote.price)
    BY <2>1, <2>2, FigureIsExact DEF OpenTileNote, SinceOpen
  <2>5. DeltaDirection = SignOf(quote.price - TheBasis)
    BY <2>1, <2>2 DEF DeltaDirection, Compare, Subtract, Money
  <2>6. quote.text.sign \in {0, DeltaDirection}
    BY <2>1, <2>2, <2>3, <2>5, FigureHasSign
  <2> QED  BY <2>1, <2>3, <2>4, <2>6 DEF CaptionIsTrue, TheBasis
<1> QED  BY <1>1, <1>2, <1>3, PTL DEF Spec

=============================================================================
