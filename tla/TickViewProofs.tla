--------------------------- MODULE TickViewProofs ---------------------------
(***************************************************************************)
(* What the frames write and what the pane shows, for any number of symbols, *)
(* trades, messages in flight, panes and requests.  None of the properties *)
(* is inductive alone.  What a frame writes relies on the store being      *)
(* empty until it is primed (UnprimedIsEmpty); a tick belongs to the stream the  *)
(* client is on when it arrives because of every message still on its way  *)
(* before it (WireInStreams); what waits for the pane, or answers it, must *)
(* already be of its symbol and stream (PaneInv).                          *)
(***************************************************************************)
EXTENDS TickView, TLAPS

Moves == [type : {"entitlementChanged"}, stream : Streams]
Errors == [type : {"error"}]
AnyMessage == Ticks \cup Snapshots \cup Moves \cup Errors

WireTypes ==
  /\ position \in [Known -> Nat]
  /\ entitled \in Streams /\ identity \in Streams
  /\ wire \in Seq(AnyMessage)
  /\ requests \subseteq [symbol : Symbols, mount : Nat, answer : Snapshots \cup {None}]
  /\ pane \in Symbols \cup {None} /\ mount \in Nat

(* The message that is received is of the kind its type says.              *)
LEMMA HeadIsOfItsKind ==
  ASSUME WireTypes, wire # <<>>
  PROVE  /\ Head(wire).type = "tick" => Head(wire) \in Ticks
         /\ Head(wire).type = "snapshot" => Head(wire) \in Snapshots
         /\ Head(wire).type = "entitlementChanged" => Head(wire) \in Moves
         /\ Tail(wire) \in Seq(AnyMessage)
<1>1. Head(wire) \in AnyMessage /\ Tail(wire) \in Seq(AnyMessage)
  BY DEF WireTypes
<1> QED  BY <1>1 DEF AnyMessage, Ticks, Snapshots, Moves, Errors

(* What the gateway sends and what is asked of it stay of their kinds.     *)
LEMMA WireKeeps ==
  ASSUME WireTypes, [Next]_vars
  PROVE  WireTypes'
<1> USE ViewAssumption
<1>1. CASE UNCHANGED vars
  BY <1>1 DEF WireTypes, vars, gatewayVars, paneVars
<1>2. ASSUME NEW s \in Known, PushSnapshot(s)
      PROVE  WireTypes'
  <2>1. Quoted(s, position[s], entitled) \in AnyMessage
    BY DEF Quoted, AnyMessage, Snapshots, WireTypes
  <2> QED  BY <1>2, <2>1 DEF PushSnapshot, Say, WireTypes, paneVars
<1>3. ASSUME NEW s \in Known, Trade(s)
      PROVE  WireTypes'
  <2>1. Tick(s, position[s] + 1, entitled) \in AnyMessage
    BY DEF Tick, AnyMessage, Ticks, WireTypes
  <2>2. position' \in [Known -> Nat]
    BY <1>3 DEF Trade, WireTypes
  <2>3. wire' \in Seq(AnyMessage)
    <3>1. wire \in Seq(AnyMessage)
      BY DEF WireTypes
    <3>2. Append(wire, Tick(s, position[s] + 1, entitled)) \in Seq(AnyMessage)
      BY <2>1, <3>1
    <3> QED  BY <1>3, <3>1, <3>2 DEF Trade
  <2> QED  BY <1>3, <2>2, <2>3 DEF Trade, WireTypes, paneVars
<1>4. ASSUME NEW st \in Streams, Entitle(st)
      PROVE  WireTypes'
  <2>1. Moved(st) \in AnyMessage
    BY DEF Moved, AnyMessage, Moves
  <2>2. position' \in [Known -> Nat]
    BY <1>4 DEF Entitle
  <2> QED  BY <1>4, <2>1, <2>2 DEF Entitle, Say, WireTypes, paneVars
<1>5. CASE RejectSymbol
  <2>1. UnknownSymbol \in AnyMessage
    BY DEF UnknownSymbol, AnyMessage, Errors
  <2> QED  BY <1>5, <2>1 DEF RejectSymbol, Say, WireTypes, paneVars
<1>6. ASSUME NEW r \in requests, AnswerSnapshot(r)
      PROVE  WireTypes'
  <2>1. Quoted(r.symbol, position[r.symbol], entitled) \in Snapshots
    BY <1>6 DEF AnswerSnapshot, Quoted, Snapshots, WireTypes
  <2> QED  BY <1>6, <2>1 DEF AnswerSnapshot, WireTypes, gatewayVars, paneVars
<1>7. CASE Messages
  <2>1. wire # <<>> /\ wire' = Tail(wire) /\ UNCHANGED <<position, entitled, requests, pane, mount>>
    BY <1>7 DEF Messages, ReceiveTick, ReceiveSnapshot, ReceiveEntitlement, ReceiveError,
                Receive, gatewayVars
  <2>2. identity' \in Streams
    BY <1>7, HeadIsOfItsKind
       DEF Messages, ReceiveTick, ReceiveSnapshot, ReceiveEntitlement, ReceiveError, Receive,
           Moves, WireTypes
  <2> QED  BY <2>1, <2>2, HeadIsOfItsKind DEF WireTypes
<1>8. CASE Answers
  BY <1>8 DEF Answers, SnapshotArrives, SnapshotFails, WireTypes, gatewayVars
<1>9. CASE Screen
  BY <1>9 DEF Screen, Frame, Beat, ApplyQueued, RowCatchesUp, WireTypes, gatewayVars, paneVars
<1>10. CASE Prime
  BY <1>10, 0 \in Nat DEF Prime, Request, Known, WireTypes, gatewayVars, paneVars
<1>11. CASE ClosePane \/ NotInUniverse
  BY <1>11 DEF ClosePane, NotInUniverse, WireTypes, gatewayVars
<1>12. ASSUME NEW s \in Symbols, OpenPane(s)
      PROVE  WireTypes'
  BY <1>12 DEF OpenPane, Request, WireTypes, gatewayVars
<1> QED
  BY <1>1, <1>2, <1>3, <1>4, <1>5, <1>6, <1>7, <1>8, <1>9, <1>10, <1>11, <1>12
     DEF Next, Gateway, User

----------------------------------------------------------------------------
(* The rows                                                                *)

StoreTypes ==
  /\ pending \in [Known -> Ticks \cup {None}]
  /\ view \in [Known -> Views \cup {None}]
  /\ owed \in [Known -> Nat]

UnprimedIsEmpty == ~primed => \A s \in Known : view[s] = None

StoreInv == StoreTypes /\ UnprimedIsEmpty /\ NothingCoalescedAway

(* What a row counts, and what waits for it, are numbers.                  *)
LEMMA CountsAreNumbers ==
  ASSUME StoreTypes, NEW s \in Known
  PROVE  VolumeOf(view[s]) \in Nat /\ Waiting(s) \in Nat
<1>1. \A v \in Views : v.volume \in Nat
  BY DEF Views
<1>2. \A t \in Ticks : t.quantity \in Nat
  BY DEF Ticks
<1> QED  BY <1>1, <1>2, 0 \in Nat DEF StoreTypes, VolumeOf, Waiting

(* A tick that is merged adds its quantity to what waits.                  *)
LEMMA PushKeeps ==
  ASSUME StoreInv, NEW tick \in Ticks, Push(tick), UNCHANGED <<primed, view>>
  PROVE  StoreInv'
<1> DEFINE s == tick.symbol
<1>1. s \in Known /\ tick.quantity \in Nat
  BY DEF Ticks
<1>2. Merged(pending[s], tick) \in Ticks
  <2>1. CASE pending[s] = None
    BY <2>1 DEF Merged
  <2>2. CASE pending[s] # None
    <3>1. pending[s].quantity + tick.quantity \in Nat
      BY <1>1, <2>2 DEF StoreInv, StoreTypes, Ticks
    <3> QED  BY <2>2, <3>1 DEF Merged, Ticks
  <2> QED  BY <2>1, <2>2
<1>3. Merged(pending[s], tick).quantity = Waiting(s) + tick.quantity
  <2>1. CASE pending[s] = None
    BY <1>1, <2>1 DEF Merged, Waiting
  <2>2. CASE pending[s] # None
    BY <2>2 DEF Merged, Waiting, Ticks
  <2> QED  BY <2>1, <2>2
<1>4. /\ pending' = [pending EXCEPT ![s] = Merged(@, tick)]
      /\ owed' = [owed EXCEPT ![s] = @ + tick.quantity]
  BY DEF Push
<1>5. StoreTypes'
  BY <1>1, <1>2, <1>4 DEF StoreInv, StoreTypes
<1>6. ASSUME NEW q \in Known
      PROVE  Waiting(q)' = owed'[q]
  <2>1. Waiting(q) = owed[q]
    BY DEF StoreInv, NothingCoalescedAway
  <2>2. CASE q = s
    <3>1. pending'[q] = Merged(pending[s], tick) /\ owed'[q] = owed[s] + tick.quantity
      BY <1>1, <1>4, <2>2 DEF StoreInv, StoreTypes
    <3>2. Waiting(q)' = Waiting(s) + tick.quantity
      BY <1>2, <1>3, <3>1, NoneAssumption DEF Waiting
    <3> QED  BY <1>1, <2>1, <2>2, <3>1, <3>2, CountsAreNumbers DEF StoreInv
  <2>3. CASE q # s
    BY <1>1, <1>4, <2>1, <2>3 DEF StoreInv, StoreTypes, Waiting
  <2> QED  BY <2>2, <2>3
<1> QED  BY <1>5, <1>6 DEF StoreInv, UnprimedIsEmpty, NothingCoalescedAway

(* A snapshot replaces a row and leaves alone what waits for it.           *)
LEMMA SnapshotKeeps ==
  ASSUME StoreInv, NEW snapshot \in Snapshots, ApplySnapshot(snapshot),
         UNCHANGED <<primed, pending, owed>>
  PROVE  StoreInv'
<1>1. CASE ~primed
  BY <1>1 DEF ApplySnapshot, StoreInv, StoreTypes, UnprimedIsEmpty, NothingCoalescedAway, Waiting
<1>2. CASE primed
  <2> DEFINE s == snapshot.symbol
             row == [at |-> snapshot.at, volume |-> snapshot.at, stream |-> snapshot.stream,
                     from |-> "snapshot"]
  <2>1. s \in Known /\ row \in Views
    BY DEF Snapshots, Views
  <2>2. view' = [view EXCEPT ![s] = row]
    BY <1>2 DEF ApplySnapshot
  <2>3. StoreTypes'
    BY <2>1, <2>2 DEF StoreInv, StoreTypes
  <2> QED
    BY <1>2, <2>3 DEF StoreInv, UnprimedIsEmpty, NothingCoalescedAway, Waiting
<1> QED  BY <1>1, <1>2

(* The frame moves what waits into the rows, or drops it before they exist. *)
LEMMA FrameKeeps ==
  ASSUME StoreInv, Frame
  PROVE  StoreInv'
<1>1. /\ pending' = [s \in Known |-> None]
      /\ view' = [s \in Known |-> Applied(s)]
      /\ owed' = [s \in Known |-> owed[s] - (IF primed THEN VolumeOf(view'[s]) - VolumeOf(view[s])
                                             ELSE Waiting(s))]
      /\ primed' = primed
  BY DEF Frame
<1>2. ASSUME NEW s \in Known
      PROVE  /\ Applied(s) \in Views \cup {None}
             /\ primed => VolumeOf(Applied(s)) = VolumeOf(view[s]) + Waiting(s)
             /\ ~primed => Applied(s) = None
  <2>1. VolumeOf(view[s]) \in Nat /\ Waiting(s) \in Nat
    BY CountsAreNumbers DEF StoreInv
  <2>2. CASE pending[s] = None \/ ~primed
    <3>1. Applied(s) = view[s]
      BY <2>2 DEF Applied
    <3> QED  BY <2>1, <2>2, <3>1 DEF Waiting, StoreInv, StoreTypes, UnprimedIsEmpty
  <2>3. CASE pending[s] # None /\ primed
    <3> DEFINE row == [at |-> pending[s].at, volume |-> VolumeOf(view[s]) + pending[s].quantity,
                       stream |-> pending[s].stream, from |-> "tick"]
    <3>1. Applied(s) = row /\ Waiting(s) = pending[s].quantity
      BY <2>3 DEF Applied, Waiting
    <3>2. pending[s].at \in Nat /\ pending[s].stream \in Streams /\ row.volume \in Nat
      BY <2>1, <2>3, <3>1 DEF StoreInv, StoreTypes, Ticks
    <3>3. row \in Views
      BY <3>2 DEF Views
    <3> QED  BY <2>3, <3>1, <3>3, NoneAssumption DEF VolumeOf
  <2> QED  BY <2>2, <2>3
<1>3. ASSUME NEW s \in Known
      PROVE  owed'[s] = 0 /\ Waiting(s)' = 0
  <2>1. view'[s] = Applied(s) /\ Waiting(s)' = 0
    BY <1>1 DEF Waiting
  <2>2. VolumeOf(view[s]) \in Nat /\ Waiting(s) \in Nat /\ owed[s] = Waiting(s)
    BY CountsAreNumbers DEF StoreInv, NothingCoalescedAway
  <2>3. CASE primed
    BY <1>1, <1>2, <2>1, <2>2, <2>3
  <2>4. CASE ~primed
    BY <1>1, <2>1, <2>2, <2>4
  <2> QED  BY <2>3, <2>4
<1>4. StoreTypes'
  <2>1. owed' = [s \in Known |-> owed'[s]] /\ \A s \in Known : owed'[s] \in Nat
    BY <1>1, <1>3, 0 \in Nat
  <2>2. owed' \in [Known -> Nat]
    BY <2>1
  <2> QED  BY <1>1, <1>2, <2>2 DEF StoreInv, StoreTypes
<1> QED  BY <1>1, <1>2, <1>3, <1>4 DEF StoreInv, UnprimedIsEmpty, NothingCoalescedAway

(* Another stream empties the rows, and leaves alone what waits.           *)
LEMMA ResetKeeps ==
  ASSUME StoreInv, view' = [s \in Known |-> None], UNCHANGED <<primed, pending, owed>>
  PROVE  StoreInv'
  BY DEF StoreInv, StoreTypes, UnprimedIsEmpty, NothingCoalescedAway, Waiting

(* A step that leaves rows and dispatcher alone.                           *)
LEMMA StoreStays ==
  ASSUME StoreInv, UNCHANGED <<pending, view, owed>>, primed => primed'
  PROVE  StoreInv'
  BY DEF StoreInv, StoreTypes, UnprimedIsEmpty, NothingCoalescedAway, Waiting

(* Every step keeps the rows' debts.                                       *)
LEMMA StoreKeeps ==
  ASSUME WireTypes, StoreInv, [Next]_vars
  PROVE  StoreInv'
<1>1. CASE UNCHANGED vars
  BY <1>1, StoreStays DEF vars, storeVars
<1>2. CASE Gateway
  BY <1>2, StoreStays
     DEF Gateway, PushSnapshot, Trade, Entitle, RejectSymbol, Say, AnswerSnapshot, storeVars
<1>3. CASE ReceiveTick
  BY <1>3, PushKeeps, HeadIsOfItsKind DEF ReceiveTick, Receive
<1>4. CASE ReceiveSnapshot
  BY <1>4, SnapshotKeeps, HeadIsOfItsKind DEF ReceiveSnapshot, Receive
<1>5. CASE ReceiveEntitlement
  BY <1>5, StoreStays, ResetKeeps DEF ReceiveEntitlement
<1>6. CASE ReceiveError
  BY <1>6, StoreStays DEF ReceiveError, storeVars
<1>7. ASSUME NEW r \in requests, SnapshotArrives(r)
      PROVE  StoreInv'
  <2>1. r.answer \in Snapshots
    BY <1>7 DEF SnapshotArrives, WireTypes
  <2> QED  BY <1>7, <2>1, SnapshotKeeps DEF SnapshotArrives
<1>8. ASSUME NEW r \in requests, SnapshotFails(r)
      PROVE  StoreInv'
  BY <1>8, StoreStays DEF SnapshotFails, storeVars
<1>9. CASE Frame
  BY <1>9, FrameKeeps
<1>10. CASE Beat \/ ApplyQueued \/ RowCatchesUp
  BY <1>10, StoreStays DEF Beat, ApplyQueued, RowCatchesUp, storeVars
<1>11. CASE User
  BY <1>11, StoreStays DEF User, Prime, ClosePane, NotInUniverse, OpenPane, storeVars
<1> QED
  BY <1>1, <1>2, <1>3, <1>4, <1>5, <1>6, <1>7, <1>8, <1>9, <1>10, <1>11
     DEF Next, Messages, Answers, Screen

----------------------------------------------------------------------------
(* The streams on the wire                                                 *)

IsMove(message) == message.type = "entitlementChanged"

(* The stream a client that was on `from` is on when it has received the messages of w before
   the i-th. *)
InForce(w, from, i, stream) ==
  \/ stream = from /\ \A j \in 1 .. i - 1 : ~IsMove(w[j])
  \/ \E j \in 1 .. i - 1 : /\ IsMove(w[j]) /\ w[j].stream = stream
                           /\ \A k \in j + 1 .. i - 1 : ~IsMove(w[k])

WireInStreams ==
  /\ InForce(wire, identity, Len(wire) + 1, entitled)
  /\ \A i \in 1 .. Len(wire) :
       wire[i].type = "tick" => InForce(wire, identity, i, wire[i].stream)

(* A message that is sent changes nothing for those before it, and after it the stream is the
   one it states, or as it was. *)
LEMMA ForceOfAppend ==
  ASSUME NEW w \in Seq(AnyMessage), NEW from, NEW stream, NEW m \in AnyMessage
  PROVE  /\ \A i \in 1 .. Len(w) + 1 :
              InForce(w, from, i, stream) => InForce(Append(w, m), from, i, stream)
         /\ IsMove(m) => InForce(Append(w, m), from, Len(w) + 2, m.stream)
         /\ ~IsMove(m) /\ InForce(w, from, Len(w) + 1, stream)
              => InForce(Append(w, m), from, Len(w) + 2, stream)
<1> DEFINE a == Append(w, m)
<1>1. Len(w) \in Nat /\ (\A j \in 1 .. Len(w) : a[j] = w[j]) /\ a[Len(w) + 1] = m
  OBVIOUS
<1>2. ASSUME NEW i \in 1 .. Len(w) + 1, InForce(w, from, i, stream)
      PROVE  InForce(a, from, i, stream)
  <2>1. \A j \in 1 .. i - 1 : a[j] = w[j]
    BY <1>1
  <2>2. CASE stream = from /\ \A j \in 1 .. i - 1 : ~IsMove(w[j])
    BY <2>1, <2>2 DEF InForce
  <2>3. ASSUME NEW j \in 1 .. i - 1, IsMove(w[j]), w[j].stream = stream,
               \A k \in j + 1 .. i - 1 : ~IsMove(w[k])
        PROVE  InForce(a, from, i, stream)
    <3>1. IsMove(a[j]) /\ a[j].stream = stream /\ \A k \in j + 1 .. i - 1 : ~IsMove(a[k])
      BY <2>1, <2>3
    <3> QED  BY <3>1 DEF InForce
  <2> QED  BY <1>2, <2>2, <2>3 DEF InForce
<1>3. ASSUME IsMove(m)
      PROVE  InForce(a, from, Len(w) + 2, m.stream)
  <2>1. \A k \in Len(w) + 2 .. (Len(w) + 2) - 1 : ~IsMove(a[k])
    BY <1>1
  <2>2. Len(w) + 1 \in 1 .. (Len(w) + 2) - 1 /\ IsMove(a[Len(w) + 1])
        /\ a[Len(w) + 1].stream = m.stream
    BY <1>1, <1>3
  <2> QED  BY <1>1, <2>1, <2>2 DEF InForce
<1>4. ASSUME ~IsMove(m), InForce(w, from, Len(w) + 1, stream)
      PROVE  InForce(a, from, Len(w) + 2, stream)
  <2>1. \A j \in 1 .. (Len(w) + 2) - 1 : j \in 1 .. (Len(w) + 1) - 1 \/ ~IsMove(a[j])
    BY <1>1, <1>4
  <2>2. CASE stream = from /\ \A j \in 1 .. (Len(w) + 1) - 1 : ~IsMove(w[j])
    BY <1>1, <2>1, <2>2 DEF InForce
  <2>3. ASSUME NEW j \in 1 .. (Len(w) + 1) - 1, IsMove(w[j]), w[j].stream = stream,
               \A k \in j + 1 .. (Len(w) + 1) - 1 : ~IsMove(w[k])
        PROVE  InForce(a, from, Len(w) + 2, stream)
    <3>1. j \in 1 .. (Len(w) + 2) - 1 /\ IsMove(a[j]) /\ a[j].stream = stream
      BY <1>1, <2>3
    <3>2. \A k \in j + 1 .. (Len(w) + 2) - 1 : ~IsMove(a[k])
      BY <1>1, <2>1, <2>3
    <3> QED  BY <3>1, <3>2 DEF InForce
  <2> QED  BY <1>4, <2>2, <2>3 DEF InForce
<1> QED  BY <1>2, <1>3, <1>4

(* A message that is received moves its successors up; a client that follows it is on the
   stream it states. *)
Follow(from, m) == IF IsMove(m) THEN m.stream ELSE from

LEMMA ForceOfTail ==
  ASSUME NEW w \in Seq(AnyMessage), w # <<>>, NEW from, NEW stream,
         NEW i \in 1 .. Len(w), InForce(w, from, i + 1, stream)
  PROVE  InForce(Tail(w), Follow(from, Head(w)), i, stream)
<1> DEFINE u == Tail(w)
<1>1. Len(w) \in Nat /\ w[1] = Head(w) /\ \A j \in 1 .. i - 1 : u[j] = w[j + 1]
  OBVIOUS
<1>2. CASE stream = from /\ \A j \in 1 .. (i + 1) - 1 : ~IsMove(w[j])
  <2>1. ~IsMove(Head(w)) /\ \A j \in 1 .. i - 1 : ~IsMove(u[j])
    BY <1>1, <1>2
  <2> QED  BY <1>2, <2>1 DEF InForce, Follow
<1>3. ASSUME NEW j \in 1 .. (i + 1) - 1, IsMove(w[j]), w[j].stream = stream,
             \A k \in j + 1 .. (i + 1) - 1 : ~IsMove(w[k])
      PROVE  InForce(u, Follow(from, Head(w)), i, stream)
  <2>1. \A k \in j .. i - 1 : ~IsMove(u[k])
    BY <1>1, <1>3
  <2>2. CASE j = 1
    <3>1. Follow(from, Head(w)) = stream
      BY <1>1, <1>3, <2>2 DEF Follow
    <3> QED  BY <2>1, <2>2, <3>1 DEF InForce
  <2>3. CASE j # 1
    <3>1. j - 1 \in 1 .. i - 1 /\ IsMove(u[j - 1]) /\ u[j - 1].stream = stream
      BY <1>1, <1>3, <2>3
    <3>2. \A k \in (j - 1) + 1 .. i - 1 : ~IsMove(u[k])
      BY <2>1
    <3> QED  BY <3>1, <3>2 DEF InForce
  <2> QED  BY <2>2, <2>3
<1> QED  BY <1>2, <1>3 DEF InForce

(* The first message finds the client on the stream it is on.              *)
LEMMA FirstInForce ==
  ASSUME NEW w, NEW from, NEW stream, InForce(w, from, 1, stream)
  PROVE  stream = from
  BY DEF InForce

(* What is said in the gateway's current stream, or states another.        *)
LEMMA SayingKeeps ==
  ASSUME WireTypes, WireInStreams, NEW m \in AnyMessage, wire' = Append(wire, m),
         m.type = "tick" => m.stream = entitled,
         entitled' = Follow(entitled, m), UNCHANGED identity
  PROVE  WireInStreams'
<1>1. wire \in Seq(AnyMessage) /\ Len(wire) \in Nat /\ Len(wire') = Len(wire) + 1
  BY DEF WireTypes
<1>2. InForce(wire', identity', Len(wire') + 1, entitled')
  <2>1. Len(wire') + 1 = Len(wire) + 2
    BY <1>1
  <2>2. CASE IsMove(m)
    BY <1>1, <2>1, <2>2, ForceOfAppend DEF Follow
  <2>3. CASE ~IsMove(m)
    BY <1>1, <2>1, <2>3, ForceOfAppend DEF Follow, WireInStreams
  <2> QED  BY <2>2, <2>3
<1>3. ASSUME NEW i \in 1 .. Len(wire'), wire'[i].type = "tick"
      PROVE  InForce(wire', identity', i, wire'[i].stream)
  <2>1. CASE i = Len(wire) + 1
    <3>1. wire'[i] = m /\ m.stream = entitled
      BY <1>1, <1>3, <2>1
    <3>2. InForce(wire, identity, i, entitled)
      BY <2>1 DEF WireInStreams
    <3> QED  BY <1>1, <3>1, <3>2, ForceOfAppend
  <2>2. CASE i # Len(wire) + 1
    <3>1. i \in 1 .. Len(wire) /\ wire'[i] = wire[i]
      BY <1>1, <2>2
    <3>2. InForce(wire, identity, i, wire[i].stream)
      BY <1>3, <3>1 DEF WireInStreams
    <3> QED  BY <1>1, <3>1, <3>2, ForceOfAppend
  <2> QED  BY <2>1, <2>2
<1> QED  BY <1>2, <1>3 DEF WireInStreams

(* A client that follows what it receives.                                 *)
LEMMA ReceivingKeeps ==
  ASSUME WireTypes, WireInStreams, wire # <<>>, wire' = Tail(wire),
         identity' = Follow(identity, Head(wire)), UNCHANGED entitled
  PROVE  WireInStreams'
<1>1. wire \in Seq(AnyMessage) /\ Len(wire) \in Nat \ {0} /\ Len(wire') = Len(wire) - 1
      /\ \A i \in 1 .. Len(wire') : wire'[i] = wire[i + 1]
  BY DEF WireTypes
<1>2. InForce(wire', identity', Len(wire') + 1, entitled')
  <2>1. Len(wire) \in 1 .. Len(wire) /\ Len(wire') + 1 = Len(wire)
    BY <1>1
  <2> QED  BY <1>1, <2>1, ForceOfTail DEF WireInStreams
<1>3. ASSUME NEW i \in 1 .. Len(wire'), wire'[i].type = "tick"
      PROVE  InForce(wire', identity', i, wire'[i].stream)
  <2>1. i \in 1 .. Len(wire) /\ i + 1 \in 1 .. Len(wire) /\ wire'[i] = wire[i + 1]
    BY <1>1
  <2>2. InForce(wire, identity, i + 1, wire[i + 1].stream)
    BY <1>3, <2>1 DEF WireInStreams
  <2> QED  BY <1>1, <2>1, <2>2, ForceOfTail
<1> QED  BY <1>2, <1>3 DEF WireInStreams

(* Every step keeps the ticks on their way in their streams.               *)
LEMMA StreamsKeep ==
  ASSUME WireTypes, WireInStreams, [Next]_vars
  PROVE  WireInStreams'
<1>1. CASE UNCHANGED <<wire, identity, entitled>>
  BY <1>1 DEF WireInStreams, InForce
<1>2. ASSUME NEW s \in Known, PushSnapshot(s)
      PROVE  WireInStreams'
  <2>1. Quoted(s, position[s], entitled) \in AnyMessage
    BY DEF Quoted, AnyMessage, Snapshots, WireTypes
  <2> QED  BY <1>2, <2>1, SayingKeeps DEF PushSnapshot, Say, Quoted, Follow, IsMove
<1>3. ASSUME NEW s \in Known, Trade(s)
      PROVE  WireInStreams'
  <2>1. Tick(s, position[s] + 1, entitled) \in AnyMessage
    BY DEF Tick, AnyMessage, Ticks, WireTypes
  <2> QED  BY <1>1, <1>3, <2>1, SayingKeeps DEF Trade, Tick, Follow, IsMove
<1>4. ASSUME NEW st \in Streams, Entitle(st)
      PROVE  WireInStreams'
  <2>1. Moved(st) \in AnyMessage
    BY DEF Moved, AnyMessage, Moves
  <2> QED  BY <1>4, <2>1, SayingKeeps DEF Entitle, Say, Moved, Follow, IsMove
<1>5. CASE RejectSymbol
  <2>1. UnknownSymbol \in AnyMessage
    BY DEF UnknownSymbol, AnyMessage, Errors
  <2> QED  BY <1>5, <2>1, SayingKeeps DEF RejectSymbol, Say, UnknownSymbol, Follow, IsMove
<1>6. CASE Messages
  <2>1. /\ wire # <<>> /\ wire' = Tail(wire) /\ UNCHANGED entitled
        /\ identity' = Follow(identity, Head(wire))
    BY <1>6 DEF Messages, ReceiveTick, ReceiveSnapshot, ReceiveEntitlement, ReceiveError,
                Receive, gatewayVars, Follow, IsMove
  <2> QED  BY <2>1, ReceivingKeeps
<1>7. CASE Answers
  BY <1>1, <1>7 DEF Answers, SnapshotArrives, SnapshotFails, gatewayVars
<1>8. CASE Screen
  BY <1>1, <1>8 DEF Screen, Frame, Beat, ApplyQueued, RowCatchesUp, gatewayVars
<1>9. CASE User
  BY <1>1, <1>9 DEF User, Prime, ClosePane, NotInUniverse, OpenPane, gatewayVars
<1>10. CASE \E r \in requests : AnswerSnapshot(r)
  BY <1>1, <1>10 DEF AnswerSnapshot, gatewayVars
<1>11. CASE UNCHANGED vars
  BY <1>1, <1>11 DEF vars, gatewayVars
<1> QED
  BY <1>2, <1>3, <1>4, <1>5, <1>6, <1>7, <1>8, <1>9, <1>10, <1>11 DEF Next, Gateway

----------------------------------------------------------------------------
(* The pane                                                                *)

PaneTypes ==
  /\ quote \in Quotes \cup {None}
  /\ queued \in Ticks \cup {None} /\ held \in Ticks \cup {None}

NothingWithoutPane == pane = None => quote = None /\ queued = None /\ held = None

OfItsSymbol ==
  /\ quote # None => quote.symbol = pane
  /\ queued # None => queued.symbol = pane
  /\ held # None => held.symbol = pane

OfItsStream ==
  /\ queued # None => queued.stream = identity
  /\ held # None => held.stream = identity
  /\ PaneDiscardsOldTicks

AnswersWhatWasAsked ==
  /\ pane # None => mount # 0
  /\ \A r \in requests : /\ r.mount <= mount
                         /\ pane # None /\ r.mount = mount => r.symbol = pane
                         /\ r.answer # None => r.answer.symbol = r.symbol

PaneInv ==
  /\ PaneTypes /\ NothingWithoutPane /\ OfItsSymbol /\ OfItsStream
  /\ AnswersWhatWasAsked

(* A step that leaves the pane and its requests alone.                     *)
LEMMA PaneStays ==
  ASSUME PaneInv, UNCHANGED <<pane, mount, quoteVars, identity>>, requests' \subseteq requests
  PROVE  PaneInv'
  BY DEF PaneInv, PaneTypes, NothingWithoutPane, OfItsSymbol, OfItsStream,
         PaneDiscardsOldTicks, AnswersWhatWasAsked, quoteVars

(* A snapshot of its symbol comes to the pane.                             *)
LEMMA IngestKeeps ==
  ASSUME PaneInv, NEW snapshot \in Snapshots, IngestSnapshot(snapshot),
         pane # None, snapshot.symbol = pane,
         UNCHANGED <<pane, mount, identity>>, requests' \subseteq requests
  PROVE  PaneInv'
<1> DEFINE new == [symbol |-> snapshot.symbol, at |-> snapshot.at, stream |-> snapshot.stream,
                   from |-> "snapshot"]
<1>1. new \in Quotes
  BY DEF Snapshots, Quotes
<1>2. quote' \in {new, quote} /\ UNCHANGED <<queued, held>>
  BY DEF IngestSnapshot
<1>3. PaneTypes' /\ NothingWithoutPane'
  BY <1>1, <1>2 DEF PaneInv, PaneTypes, NothingWithoutPane
<1>4. OfItsSymbol' /\ OfItsStream'
  BY <1>2 DEF PaneInv, OfItsSymbol, OfItsStream, PaneDiscardsOldTicks
<1> QED  BY <1>3, <1>4 DEF PaneInv, AnswersWhatWasAsked

(* A tick that waited is merged into the quote.                            *)
LEMMA MergeKeeps ==
  ASSUME PaneInv, NEW tick \in Ticks, MergeTick(tick),
         pane # None, tick.symbol = pane, tick.stream = identity,
         queued' \in {queued, None}, held' \in {held, None},
         UNCHANGED <<pane, mount, identity, requests>>
  PROVE  PaneInv'
<1> DEFINE new == [symbol |-> tick.symbol, at |-> tick.at, stream |-> tick.stream,
                   from |-> "tick"]
<1>1. new \in Quotes
  BY DEF Ticks, Quotes
<1>2. quote' \in {new, quote}
  BY DEF MergeTick
<1>3. PaneTypes' /\ NothingWithoutPane'
  BY <1>1, <1>2 DEF PaneInv, PaneTypes, NothingWithoutPane
<1>4. OfItsSymbol' /\ OfItsStream'
  BY <1>2 DEF PaneInv, OfItsSymbol, OfItsStream, PaneDiscardsOldTicks
<1> QED  BY <1>3, <1>4 DEF PaneInv, AnswersWhatWasAsked

(* A tick of the stream the client is on comes to the pane.                *)
LEMMA PaneTickKeeps ==
  ASSUME PaneInv, NEW tick \in Ticks, PaneTick(tick), tick.stream = identity,
         UNCHANGED <<pane, mount, identity, requests>>
  PROVE  PaneInv'
<1>1. CASE Open /\ tick.symbol = pane
  <2>1. queued' \in {queued, tick} /\ held' \in {held, tick} /\ UNCHANGED quote /\ pane # None
    BY <1>1 DEF PaneTick, Open
  <2>2. PaneTypes' /\ NothingWithoutPane' /\ OfItsSymbol' /\ OfItsStream'
    BY <1>1, <2>1 DEF PaneInv, PaneTypes, NothingWithoutPane, OfItsSymbol, OfItsStream,
                      PaneDiscardsOldTicks
  <2> QED  BY <2>2 DEF PaneInv, AnswersWhatWasAsked
<1>2. CASE ~(Open /\ tick.symbol = pane)
  BY <1>2, PaneStays DEF PaneTick
<1> QED  BY <1>1, <1>2

(* An empty pane, whichever it is.                                         *)
LEMMA EmptyPane ==
  ASSUME quote' = None, queued' = None, held' = None
  PROVE  PaneTypes' /\ NothingWithoutPane' /\ OfItsSymbol' /\ OfItsStream'
  BY DEF PaneTypes, NothingWithoutPane, OfItsSymbol, OfItsStream, PaneDiscardsOldTicks

(* Every step keeps what the pane has, and what waits for it, its own.     *)
LEMMA PaneKeeps ==
  ASSUME WireTypes, WireInStreams, PaneInv, [Next]_vars
  PROVE  PaneInv'
<1>1. CASE UNCHANGED vars
  BY <1>1, PaneStays DEF vars, paneVars
<1>2. ASSUME NEW r \in requests, AnswerSnapshot(r)
      PROVE  PaneInv'
  <2>1. \A q \in requests' : q \in requests
           \/ /\ q.symbol = r.symbol /\ q.mount = r.mount /\ q.answer.symbol = r.symbol
    BY <1>2 DEF AnswerSnapshot, Quoted, WireTypes
  <2>2. AnswersWhatWasAsked'
    BY <1>2, <2>1 DEF AnswerSnapshot, paneVars, PaneInv, AnswersWhatWasAsked
  <2> QED
    BY <1>2, <2>2 DEF AnswerSnapshot, paneVars, quoteVars, PaneInv, PaneTypes,
       NothingWithoutPane, OfItsSymbol, OfItsStream, PaneDiscardsOldTicks
<1>3. CASE \/ \E s \in Known : PushSnapshot(s) \/ Trade(s)
           \/ (\E st \in Streams : Entitle(st)) \/ RejectSymbol
  BY <1>3, PaneStays DEF PushSnapshot, Trade, Entitle, RejectSymbol, Say, paneVars
<1>4. CASE ReceiveTick
  <2>1. Head(wire) \in Ticks /\ wire # <<>>
    BY <1>4, HeadIsOfItsKind DEF ReceiveTick, Receive
  <2>2. Len(wire) \in Nat \ {0} /\ wire[1] = Head(wire)
    BY <2>1 DEF WireTypes
  <2>3. InForce(wire, identity, 1, Head(wire).stream)
    BY <1>4, <2>2 DEF ReceiveTick, Receive, WireInStreams
  <2> QED
    BY <1>4, <2>1, <2>3, FirstInForce, PaneTickKeeps DEF ReceiveTick, Receive
<1>5. CASE ReceiveSnapshot
  <2>1. Head(wire) \in Snapshots
    BY <1>5, HeadIsOfItsKind DEF ReceiveSnapshot, Receive
  <2> QED
    BY <1>5, <2>1, IngestKeeps, PaneStays DEF ReceiveSnapshot, Receive, PaneSnapshot, Open
<1>6. CASE ReceiveEntitlement
  <2>1. quote' = None /\ queued' = None /\ held' = None
    BY <1>6 DEF ReceiveEntitlement, PaneDiscards, HeldDiscarded, quoteVars, PaneInv,
                NothingWithoutPane
  <2>2. AnswersWhatWasAsked'
    BY <1>6 DEF ReceiveEntitlement, Receive, PaneInv, AnswersWhatWasAsked
  <2> QED  BY <2>1, <2>2, EmptyPane DEF PaneInv
<1>7. CASE ReceiveError \/ NotInUniverse \/ \E r \in requests : SnapshotFails(r)
  <2>1. UNCHANGED <<pane, mount, quote, queued, held, identity>> /\ requests' \subseteq requests
    BY <1>7 DEF ReceiveError, NotInUniverse, SnapshotFails, Receive, NotFound, quoteVars
  <2> QED
    BY <2>1 DEF PaneInv, PaneTypes, NothingWithoutPane, OfItsSymbol, OfItsStream,
                PaneDiscardsOldTicks, AnswersWhatWasAsked
<1>8. ASSUME NEW r \in requests, SnapshotArrives(r)
      PROVE  PaneInv'
  <2>1. r.answer \in Snapshots /\ r.answer.symbol = r.symbol
    BY <1>8 DEF SnapshotArrives, WireTypes, PaneInv, AnswersWhatWasAsked
  <2>2. UNCHANGED <<pane, mount, identity>> /\ requests' \subseteq requests
    BY <1>8 DEF SnapshotArrives
  <2>3. CASE StillWanted(r) /\ Open
    <3>1. pane # None /\ r.answer.symbol = pane
      BY <2>1, <2>3 DEF StillWanted, PaneInv, AnswersWhatWasAsked
    <3> QED  BY <1>8, <2>1, <2>2, <2>3, <3>1, IngestKeeps DEF SnapshotArrives
  <2>4. CASE ~(StillWanted(r) /\ Open)
    BY <1>8, <2>2, <2>4, PaneStays DEF SnapshotArrives
  <2> QED  BY <2>3, <2>4
<1>9. CASE Frame \/ RowCatchesUp
  BY <1>9, PaneStays DEF Frame, RowCatchesUp, paneVars
<1>10. CASE Beat
  <2>1. CASE pane = None \/ held = None
    BY <1>10, <2>1, PaneStays DEF Beat, quoteVars
  <2>2. CASE pane # None /\ held # None
    BY <1>10, <2>2, MergeKeeps DEF Beat, PaneInv, PaneTypes, OfItsSymbol, OfItsStream
  <2> QED  BY <2>1, <2>2
<1>11. CASE ApplyQueued
  <2>1. CASE queued = None
    BY <1>11, <2>1 DEF ApplyQueued, PaneInv, PaneTypes, NothingWithoutPane, OfItsSymbol,
                       OfItsStream, PaneDiscardsOldTicks, AnswersWhatWasAsked
  <2>2. CASE queued # None
    BY <1>11, <2>2, MergeKeeps DEF ApplyQueued, PaneInv, PaneTypes, OfItsSymbol, OfItsStream
  <2> QED  BY <2>1, <2>2
<1>12. CASE Prime
  <2>1. AnswersWhatWasAsked'
    BY <1>12 DEF Prime, Request, paneVars, WireTypes, PaneInv, AnswersWhatWasAsked
  <2> QED
    BY <1>12, <2>1 DEF Prime, paneVars, quoteVars, PaneInv, PaneTypes, NothingWithoutPane,
       OfItsSymbol, OfItsStream, PaneDiscardsOldTicks
<1>13. CASE ClosePane
  <2>1. AnswersWhatWasAsked'
    BY <1>13 DEF ClosePane, PaneInv, AnswersWhatWasAsked
  <2> QED  BY <1>13, <2>1, EmptyPane DEF ClosePane, Afresh, PaneInv
<1>14. ASSUME NEW s \in Symbols, OpenPane(s)
      PROVE  PaneInv'
  <2>1. AnswersWhatWasAsked'
    BY <1>14 DEF OpenPane, Request, WireTypes, PaneInv, AnswersWhatWasAsked
  <2> QED  BY <1>14, <2>1, EmptyPane DEF OpenPane, Afresh, PaneInv
<1> QED
  BY <1>1, <1>2, <1>3, <1>4, <1>5, <1>6, <1>7, <1>8, <1>9, <1>10, <1>11, <1>12, <1>13, <1>14
     DEF Next, Gateway, Messages, Answers, Screen, User

----------------------------------------------------------------------------
(* All of it together                                                      *)

ViewInv == WireTypes /\ StoreInv /\ WireInStreams /\ PaneInv

(* It holds before the universe is asked for and a pane is opened.         *)
LEMMA ViewBegins ==
  ASSUME Init
  PROVE  ViewInv
<1> USE ViewAssumption DEF Init
<1>1. WireTypes
  BY 0 \in Nat DEF WireTypes
<1>2. StoreInv
  BY 0 \in Nat
     DEF StoreInv, StoreTypes, UnprimedIsEmpty, NothingCoalescedAway, VolumeOf, Waiting
<1>3. WireInStreams
  BY DEF WireInStreams, InForce
<1>4. PaneInv
  BY DEF PaneInv, PaneTypes, NothingWithoutPane, OfItsSymbol, OfItsStream,
         PaneDiscardsOldTicks, AnswersWhatWasAsked
<1> QED  BY <1>1, <1>2, <1>3, <1>4 DEF ViewInv

(* Every step keeps it.                                                    *)
LEMMA ViewKeeps ==
  ASSUME ViewInv, [Next]_vars
  PROVE  ViewInv'
  BY WireKeeps, StoreKeeps, StreamsKeep, PaneKeeps DEF ViewInv

(* A quote that stays a quote of its pane is unchanged, or newer.          *)
LEMMA NewerStep ==
  ASSUME ViewInv, [Next]_vars, quote # None, quote' # None
  PROVE  quote'.at >= quote.at
<1>1. quote \in Quotes /\ quote.at \in Nat
  BY DEF ViewInv, PaneInv, PaneTypes, Quotes
<1>2. quote' \in Quotes /\ quote'.at \in Nat
  BY ViewKeeps DEF ViewInv, PaneInv, PaneTypes, Quotes
<1>3. CASE UNCHANGED quote
  BY <1>1, <1>3
<1>4. ASSUME NEW snapshot \in Snapshots, IngestSnapshot(snapshot)
      PROVE  quote'.at >= quote.at
  BY <1>1, <1>2, <1>4 DEF IngestSnapshot, SnapshotIsNewer, Snapshots
<1>5. ASSUME NEW tick \in Ticks, MergeTick(tick)
      PROVE  quote'.at >= quote.at
  BY <1>1, <1>2, <1>5 DEF MergeTick, TickIsNewer, Ticks
<1>6. CASE UNCHANGED vars \/ Gateway \/ ReceiveTick \/ ReceiveError \/ Frame \/ RowCatchesUp
           \/ Prime \/ NotInUniverse
  BY <1>3, <1>6 DEF vars, paneVars, quoteVars, Gateway, PushSnapshot, Trade, Entitle,
     RejectSymbol, Say, AnswerSnapshot, ReceiveTick, PaneTick, ReceiveError, NotFound, Frame,
     RowCatchesUp, Prime, NotInUniverse
<1>7. CASE ReceiveSnapshot
  <2>1. Head(wire) \in Snapshots
    BY <1>7, HeadIsOfItsKind DEF ReceiveSnapshot, Receive, ViewInv
  <2> QED  BY <1>3, <1>4, <1>7, <2>1 DEF ReceiveSnapshot, PaneSnapshot, quoteVars
<1>8. CASE ReceiveEntitlement
  BY <1>3, <1>8 DEF ReceiveEntitlement, PaneDiscards, quoteVars
<1>9. CASE Answers
  <2>1. PICK r \in requests : SnapshotArrives(r) \/ SnapshotFails(r)
    BY <1>9 DEF Answers
  <2>2. CASE SnapshotArrives(r)
    <3>1. r.answer \in Snapshots
      BY <2>2 DEF SnapshotArrives, ViewInv, WireTypes
    <3> QED  BY <1>3, <1>4, <2>2, <3>1 DEF SnapshotArrives, quoteVars
  <2>3. CASE SnapshotFails(r)
    BY <1>3, <2>3 DEF SnapshotFails, NotFound, quoteVars
  <2> QED  BY <2>1, <2>2, <2>3
<1>10. CASE Beat
  BY <1>3, <1>5, <1>10 DEF Beat, ViewInv, PaneInv, PaneTypes
<1>11. CASE ApplyQueued
  BY <1>3, <1>5, <1>11 DEF ApplyQueued, ViewInv, PaneInv, PaneTypes
<1>12. CASE ClosePane \/ \E s \in Symbols : OpenPane(s)
  BY <1>12 DEF ClosePane, OpenPane, Afresh
<1> QED
  BY <1>6, <1>7, <1>8, <1>9, <1>10, <1>11, <1>12 DEF Next, Messages, Screen, User

(* The invariant of the client's data path.                                *)
LEMMA ViewIsInvariant == Spec => []ViewInv
<1>1. Init => ViewInv
  BY ViewBegins
<1>2. ViewInv /\ [Next]_vars => ViewInv'
  BY ViewKeeps
<1> QED  BY <1>1, <1>2, PTL DEF Spec

(* TickDispatcher's merging and store.applyTick between them give a row the quantity of every
   tick once: what waits for the next frame is what was received and not yet given. *)
THEOREM NoTradeLost == Spec => []NothingCoalescedAway
<1>1. ViewInv => NothingCoalescedAway
  BY DEF ViewInv, StoreInv
<1> QED  BY <1>1, ViewIsInvariant, PTL

(* The entitlement handler of useDetailQuote leaves no tick of the old stream that could still
   reach the quote, and none arrives after it. *)
THEOREM OldTicksDiscarded == Spec => []PaneDiscardsOldTicks
<1>1. ViewInv => PaneDiscardsOldTicks
  BY DEF ViewInv, PaneInv, OfItsStream
<1> QED  BY <1>1, ViewIsInvariant, PTL

(* The pane's quote is of its symbol, however late the answer to another pane comes: each
   effect's clean-up cancels what it asked for. *)
THEOREM QuoteIsOfItsPane == Spec => []PaneShowsItsSymbol
<1>1. ViewInv => PaneShowsItsSymbol
  BY DEF ViewInv, PaneInv, OfItsSymbol, PaneShowsItsSymbol
<1> QED  BY <1>1, ViewIsInvariant, PTL

(* ingestSnapshot and mergeTickIntoQuote never replace a price by an older one.  *)
THEOREM NewerAlwaysWins == Spec => NewerWins
<1>1. ViewInv /\ [Next]_vars
        => [quote # None /\ quote' # None /\ mount' = mount => quote'.at >= quote.at]_vars
  BY NewerStep
<1> QED  BY <1>1, ViewIsInvariant, PTL DEF Spec, NewerWins
=============================================================================
