--------------------------- MODULE GatewaySource ---------------------------
(***************************************************************************)
(* The browser's transport: one source that owns at most one WebSocket to  *)
(* the gateway, queues what cannot be sent yet, watches for heartbeats,    *)
(* backs off and reconnects, and asks again for what was subscribed.       *)
(*                                                                         *)
(* JavaScript runs one callback at a time, so every callback is one action *)
(* together with the microtasks it releases.  What the browser keeps of a  *)
(* socket (`ready`) changes in tasks of its own: close() only begins a     *)
(* close, and onclose comes later.  Sockets are numbered as they are made. *)
(* Time is left out: a timer that is armed may fire, and the back-off      *)
(* window after RATE_LIMITED is open until WindowEnds.                     *)
(***************************************************************************)
EXTENDS Naturals, Sequences, FiniteSets

CONSTANTS
  Symbols,      \* the symbols the pages ask for
  Unknown,      \* those among them the gateway rejects
  Requests,     \* the sets of symbols passed to subscribe and unsubscribe
  MaxSockets, MaxDrops, MaxLimits, MaxRetries, MaxPending   \* bounds

ASSUME SourceAssumption ==
  /\ Unknown \subseteq Symbols
  /\ Requests \subseteq (SUBSET Symbols) \ {{}}
  /\ {MaxSockets, MaxDrops, MaxLimits, MaxRetries, MaxPending} \subseteq Nat

VARIABLES
  made,          \* how many sockets there have been
  ready,         \* readyState of each
  awaiting,      \* who awaits the promise of its openSocket: "connect" or "reconnect"
  closedWith,    \* the code close() was called with, or "none"
  welcomed,      \* the sockets the gateway has sent `connected` on
  asked,         \* what the gateway has been asked for on each, by all frames sent on it
  socket,        \* #socket, 0 when undefined
  resolver,      \* #connectResolvers: the socket whose promise it settles, or 0
  waiters,       \* how many reconnects wait in #authWaiters
  authenticated, intentionalClose,
  status,        \* the kind of #lastStatus
  reconnectTimer, throttleTimer, watchdog, pingTimer,   \* the timers that are armed
  throttled,     \* now < #throttledUntil
  subscribed,    \* #subscribedSymbols
  pending,       \* #pendingOutbound
  backoffAttempt,
  drops, limits, retries,       \* what the bounds count
  mistaken       \* history: the close event of a socket that had been replaced was taken
                 \* for its successor's

networkVars == <<made, ready, awaiting, closedWith, welcomed>>
linkVars    == <<socket, resolver, waiters, authenticated, intentionalClose, status,
                 reconnectTimer, backoffAttempt>>
guardVars   == <<watchdog, pingTimer>>
sendVars    == <<asked, pending, throttleTimer>>
historyVars == <<drops, limits, retries, mistaken>>
vars == <<networkVars, linkVars, guardVars, sendVars, historyVars, throttled, subscribed>>

Sockets == 1 .. MaxSockets
ContractCodes ==
  {"normal", "unauthenticated", "token-expired", "heartbeat-timeout", "slow-consumer"}
Codes == ContractCodes \cup {"abnormal"}

Init ==
  /\ made = 0
  /\ ready = [s \in Sockets |-> "none"]
  /\ awaiting = [s \in Sockets |-> "none"]
  /\ closedWith = [s \in Sockets |-> "none"]
  /\ welcomed = {} /\ asked = [s \in Sockets |-> {}]
  /\ socket = 0 /\ resolver = 0 /\ waiters = 0
  /\ authenticated = FALSE /\ intentionalClose = FALSE
  /\ status = "closed"
  /\ reconnectTimer = FALSE /\ throttleTimer = FALSE
  /\ watchdog = FALSE /\ pingTimer = FALSE
  /\ throttled = FALSE
  /\ subscribed = {} /\ pending = <<>>
  /\ backoffAttempt = 0
  /\ drops = 0 /\ limits = 0 /\ retries = 0 /\ mistaken = FALSE

----------------------------------------------------------------------------
(* Outbound messages: #send, #flushOutbound and the throttle.              *)

Message(type, symbols) == [type |-> type, symbols |-> symbols]

(* What the gateway serves after one message more. *)
Heard(symbols, m) ==
  IF m.type = "subscribe" THEN symbols \cup m.symbols ELSE symbols \ m.symbols
Served(symbols, messages) ==
  LET after[n \in 0 .. Len(messages)] ==
        IF n = 0 THEN symbols ELSE Heard(after[n - 1], messages[n])
  IN  after[Len(messages)]

CanSend(isAuthenticated) ==
  isAuthenticated /\ ~throttled /\ socket # 0 /\ ready[socket] = "open"

(* #send: on the wire, or to the end of the queue; a message queued by the
   throttle makes sure that the queue is flushed. *)
Send(messages) ==
  IF CanSend(authenticated)
  THEN /\ asked' = [asked EXCEPT ![socket] = Served(@, messages)]
       /\ UNCHANGED <<pending, throttleTimer>>
  ELSE /\ pending' = pending \o messages
       /\ throttleTimer' = (throttleTimer \/ (throttled /\ messages # <<>>))
       /\ UNCHANGED asked

(* #flushOutbound, and then what the callbacks it releases send. *)
FlushThenSend(isAuthenticated, messages) ==
  IF CanSend(isAuthenticated)
  THEN /\ asked' = [asked EXCEPT ![socket] = Served(@, pending \o messages)]
       /\ pending' = <<>>
       /\ UNCHANGED throttleTimer
  ELSE /\ pending' = pending \o messages
       /\ throttleTimer' = (throttleTimer \/ (throttled /\ messages # <<>>))
       /\ UNCHANGED asked

----------------------------------------------------------------------------
(* The public interface, called by the pages.                              *)

(* Calls of subscribe and unsubscribe, one after the other.  Empty symbols are
   filtered out there, and a call that is left with none does nothing: no page
   makes such a call. *)
Calls(messages) ==
  /\ Len(pending) < MaxPending
  /\ subscribed' = Served(subscribed, messages)
  /\ Send(messages)
  /\ UNCHANGED <<networkVars, linkVars, guardVars, historyVars, throttled>>

SubscribeTo(symbols) == Message("subscribe", symbols)
UnsubscribeFrom(symbols) == Message("unsubscribe", symbols)

Subscribe(symbols) == Calls(<<SubscribeTo(symbols)>>)
Unsubscribe(symbols) == Calls(<<UnsubscribeFrom(symbols)>>)

(* #openSocket: the resolvers of an earlier attempt are overwritten. *)
OpenSocket(who) ==
  /\ made < MaxSockets
  /\ made' = made + 1
  /\ awaiting' = [awaiting EXCEPT ![made + 1] = who]
  /\ socket' = made + 1 /\ resolver' = made + 1
  /\ authenticated' = FALSE

(* getSharedSource: the source is made and connected once. *)
Connect ==
  /\ made = 0
  /\ OpenSocket("connect")
  /\ ready' = [ready EXCEPT ![made + 1] = "connecting"]
  /\ intentionalClose' = FALSE
  /\ status' = "connecting"
  /\ UNCHANGED <<closedWith, welcomed, waiters, reconnectTimer, backoffAttempt, guardVars,
                 sendVars, historyVars, throttled, subscribed>>

(* close() on a socket begins a close unless one has begun. *)
Closing(s) == IF ready[s] \in {"connecting", "open"} THEN "closing" ELSE ready[s]
ClosedWith(s, code) == IF ready[s] \in {"connecting", "open"} THEN code ELSE closedWith[s]

(* Mutant: the automatic reconnect is left armed. *)
LeaveReconnectTimer == UNCHANGED reconnectTimer

ClearReconnectTimer == reconnectTimer' = FALSE

(* Mutant: the watchdog of the connection that is gone goes on. *)
LeaveTimers == UNCHANGED guardVars

StopTimers == watchdog' = FALSE /\ pingTimer' = FALSE

(* reconnectSharedSource: disconnect(), then connect().  The banner offers it
   while the status is "reconnecting" or "closed", which includes an automatic attempt
   that is under way; the socket of that attempt begins to close, and is replaced. *)
Retry ==
  /\ made > 0 /\ retries < MaxRetries
  /\ status \in {"reconnecting", "closed"}
  /\ ClearReconnectTimer /\ StopTimers
  /\ throttleTimer' = FALSE
  /\ closedWith' = IF socket = 0 THEN closedWith
                   ELSE [closedWith EXCEPT ![socket] = ClosedWith(socket, "normal")]
  /\ OpenSocket("connect")
  /\ ready' = [s \in Sockets |-> IF s = made + 1 THEN "connecting"
                                 ELSE IF s = socket THEN Closing(s) ELSE ready[s]]
  /\ intentionalClose' = FALSE
  /\ status' = "connecting"
  /\ retries' = retries + 1
  /\ UNCHANGED <<welcomed, waiters, backoffAttempt, asked, pending, drops, limits, mistaken,
                 throttled, subscribed>>

----------------------------------------------------------------------------
(* Callbacks of a socket.  They are those of the source, whichever socket  *)
(* they come from.                                                         *)

(* Mutant: a reconnect asks for nothing. *)
NothingAgain(times) == <<>>

(* The rest of #reconnectNow, as often as there are attempts at this point. *)
Again(times) ==
  IF subscribed = {} THEN <<>>
  ELSE [i \in 1 .. times |-> SubscribeTo(subscribed)]

(* onopen settles the promise that #connectResolvers holds; a reconnect then
   waits until the gateway has authenticated it. *)
SocketOpens(s) ==
  /\ ready[s] = "connecting"
  /\ ready' = [ready EXCEPT ![s] = "open"]
  /\ resolver' = 0
  /\ IF resolver # 0 /\ awaiting[resolver] = "reconnect"
     THEN IF authenticated THEN Send(Again(1)) /\ UNCHANGED waiters
          ELSE waiters' = waiters + 1 /\ UNCHANGED sendVars
     ELSE UNCHANGED <<waiters, sendVars>>
  /\ UNCHANGED <<made, awaiting, closedWith, welcomed, socket, authenticated,
                 intentionalClose, status, reconnectTimer, backoffAttempt, guardVars,
                 historyVars, throttled, subscribed>>

(* #handleConnected: the queue is flushed, then the waiting reconnects go on. *)
Connected(s) ==
  /\ ready[s] = "open" /\ s \notin welcomed
  /\ welcomed' = welcomed \cup {s}
  /\ backoffAttempt' = 0
  /\ authenticated' = TRUE
  /\ watchdog' = TRUE /\ pingTimer' = TRUE
  /\ status' = "connected"
  /\ FlushThenSend(TRUE, Again(waiters))
  /\ waiters' = 0
  /\ UNCHANGED <<made, ready, awaiting, closedWith, socket, resolver, intentionalClose,
                 reconnectTimer, historyVars, throttled, subscribed>>

(* #handleSubscribed: a symbol the gateway rejects is no longer wanted. *)
Rejected(s, symbol) ==
  /\ ready[s] = "open"
  /\ symbol \in asked[s] \cap Unknown
  /\ asked' = [asked EXCEPT ![s] = @ \ {symbol}]
  /\ subscribed' = subscribed \ {symbol}
  /\ UNCHANGED <<networkVars, linkVars, guardVars, pending, throttleTimer, historyVars,
                 throttled>>

(* #handleError of RATE_LIMITED opens the window, or renews it. *)
RateLimited(s) ==
  /\ ready[s] = "open" /\ s \in welcomed
  /\ limits < MaxLimits /\ limits' = limits + 1
  /\ throttled' = TRUE
  /\ throttleTimer' = TRUE
  /\ UNCHANGED <<networkVars, linkVars, guardVars, asked, pending, drops, retries, mistaken,
                 subscribed>>

(* The peer's close frame has arrived; the close event follows. *)
PeerCloses(s) ==
  /\ ready[s] = "open"
  /\ drops < MaxDrops /\ drops' = drops + 1
  /\ ready' = [ready EXCEPT ![s] = "closing"]
  /\ UNCHANGED <<made, awaiting, closedWith, welcomed, linkVars, guardVars, sendVars, limits,
                 retries, mistaken, throttled, subscribed>>

(* shouldReconnect, which knows the codes of the contract, and reconnectDecisionFor,
   which retries after any other. *)
ShouldReconnect(code) == code \notin {"normal", "unauthenticated"}
Retryable(code) == code \in ContractCodes => ShouldReconnect(code)

(* Mutant: only the first failure in a row is retried. *)
RescheduledOnce(retry) == reconnectTimer \/ (retry /\ backoffAttempt = 0)

(* #scheduleReconnect, in place of a timer that may be armed. *)
Rescheduled(retry) == reconnectTimer \/ retry

(* #handleClose *)
HandleClose(code) ==
  LET retry == ~intentionalClose /\ Retryable(code)
  IN  /\ StopTimers
      /\ throttleTimer' = FALSE
      /\ authenticated' = FALSE
      /\ socket' = 0 /\ resolver' = 0
      /\ status' = IF retry THEN "reconnecting" ELSE "closed"
      /\ reconnectTimer' = Rescheduled(retry)
      /\ backoffAttempt' = IF retry THEN backoffAttempt + 1 ELSE backoffAttempt

(* onclose: a close of our own reports our code unless it failed, an attempt
   that never opened is abnormal, and the peer gives the code it likes.  The handler
   does not ask whose event it is: one of a socket that a retry has replaced makes the
   source forget the successor. *)
CloseEvent(s, code) ==
  /\ ready[s] \in {"connecting", "open", "closing"}
  /\ closedWith[s] # "none" => code \in {closedWith[s], "abnormal"}
  /\ ready[s] = "connecting" => code = "abnormal"
  /\ IF ready[s] = "closing" THEN UNCHANGED drops
     ELSE drops < MaxDrops /\ drops' = drops + 1
  /\ ready' = [ready EXCEPT ![s] = "closed"]
  /\ HandleClose(code)
  /\ mistaken' = (mistaken \/ socket \notin {0, s})
  /\ UNCHANGED <<made, awaiting, closedWith, welcomed, waiters, intentionalClose, asked,
                 pending, limits, retries, throttled, subscribed>>

----------------------------------------------------------------------------
(* Timers *)

(* #forceLocalClose: a close event follows if there is a socket. *)
ForceLocalClose(code) ==
  IF socket = 0
  THEN HandleClose(code) /\ UNCHANGED <<ready, closedWith>>
  ELSE /\ ready' = [ready EXCEPT ![socket] = Closing(socket)]
       /\ closedWith' = [closedWith EXCEPT ![socket] = ClosedWith(socket, code)]
       /\ UNCHANGED <<pingTimer, throttleTimer, authenticated, socket, resolver, status,
                      reconnectTimer, backoffAttempt>>

(* createHeartbeatWatchdog: its deadline of two intervals passes without a pulse; it
   stops itself, and reports once. *)
WatchdogFires ==
  /\ watchdog /\ watchdog' = FALSE
  /\ drops < MaxDrops /\ drops' = drops + 1
  /\ ForceLocalClose("heartbeat-timeout")
  /\ UNCHANGED <<made, awaiting, welcomed, waiters, intentionalClose, asked, pending, limits,
                 retries, mistaken, throttled, subscribed>>

Ping ==
  /\ pingTimer
  /\ Len(pending) < MaxPending
  /\ Send(<<Message("ping", {})>>)
  /\ UNCHANGED <<networkVars, linkVars, guardVars, historyVars, throttled, subscribed>>

(* The back-off window passes, unnoticed until the timer's callback or a send. *)
WindowEnds ==
  /\ throttled
  /\ throttled' = FALSE
  /\ UNCHANGED <<networkVars, linkVars, guardVars, sendVars, historyVars, subscribed>>

(* The throttle timer; inside the window it only arms itself again. *)
ThrottleTimerFires ==
  /\ throttleTimer /\ ~throttled
  /\ throttleTimer' = FALSE
  /\ IF CanSend(authenticated)
     THEN /\ asked' = [asked EXCEPT ![socket] = Served(@, pending)]
          /\ pending' = <<>>
     ELSE UNCHANGED <<asked, pending>>
  /\ UNCHANGED <<networkVars, linkVars, guardVars, historyVars, throttled, subscribed>>

(* The reconnect timer: #reconnectNow up to its first await. *)
ReconnectTimerFires ==
  /\ reconnectTimer
  /\ reconnectTimer' = FALSE
  /\ OpenSocket("reconnect")
  /\ ready' = [ready EXCEPT ![made + 1] = "connecting"]
  /\ UNCHANGED <<closedWith, welcomed, waiters, intentionalClose, status, backoffAttempt,
                 guardVars, sendVars, historyVars, throttled, subscribed>>

----------------------------------------------------------------------------
Pages == \E symbols \in Requests : Subscribe(symbols) \/ Unsubscribe(symbols)
Network(s) ==
  \/ SocketOpens(s) \/ Connected(s) \/ RateLimited(s) \/ PeerCloses(s)
  \/ \E symbol \in Symbols : Rejected(s, symbol)
  \/ \E code \in Codes : CloseEvent(s, code)
Timers ==
  WatchdogFires \/ Ping \/ WindowEnds \/ ThrottleTimerFires \/ ReconnectTimerFires
Source == Connect \/ Retry \/ (\E s \in Sockets : Network(s)) \/ Timers

Next == Pages \/ Source

Spec == Init /\ [][Next]_vars

(* Timers fire, the browser reports that a socket opened or that a close ended,
   and a gateway that accepts a connection greets it.  Nothing makes a connection
   fail, a page ask for anything, or the user retry. *)
Fairness ==
  /\ WF_vars(WindowEnds) /\ WF_vars(ThrottleTimerFires) /\ WF_vars(ReconnectTimerFires)
  /\ \A s \in Sockets :
       /\ WF_vars(SocketOpens(s)) /\ WF_vars(Connected(s))
       /\ WF_vars(ready[s] = "closing" /\ \E code \in Codes : CloseEvent(s, code))

FairSpec == Spec /\ WF_vars(Connect) /\ Fairness

----------------------------------------------------------------------------
(* Every variable holds a value of its kind.                               *)
Messages == [type : {"subscribe", "unsubscribe", "ping"}, symbols : SUBSET Symbols]
TypeOK ==
  /\ made \in 0 .. MaxSockets /\ socket \in 0 .. made /\ resolver \in 0 .. made
  /\ ready \in [Sockets -> {"none", "connecting", "open", "closing", "closed"}]
  /\ awaiting \in [Sockets -> {"none", "connect", "reconnect"}]
  /\ closedWith \in [Sockets -> Codes \cup {"none"}]
  /\ welcomed \subseteq Sockets /\ asked \in [Sockets -> SUBSET Symbols]
  /\ waiters \in Nat /\ backoffAttempt \in Nat
  /\ authenticated \in BOOLEAN /\ intentionalClose \in BOOLEAN /\ throttled \in BOOLEAN
  /\ status \in {"closed", "connecting", "connected", "reconnecting"}
  /\ {reconnectTimer, throttleTimer, watchdog, pingTimer} \subseteq BOOLEAN
  /\ subscribed \subseteq Symbols /\ pending \in Seq(Messages)
  /\ drops \in Nat /\ limits \in Nat /\ retries \in Nat /\ mistaken \in BOOLEAN

(* "One connection per client": a socket that is opening or open is the one the
   source holds, over drops, timeouts, failed attempts and retries in the middle of an
   attempt - until the close event of a socket that was replaced is taken for its
   successor's, and that takes a retry by the user. *)
Usable(s) == ready[s] \in {"connecting", "open"}
OneConnection ==
  IF mistaken THEN retries # 0 ELSE \A s \in Sockets : Usable(s) => s = socket

(* The same without the exception, which is what the contract says. *)
OneConnectionAlways == \A s \in Sockets : Usable(s) => s = socket

Settled == authenticated /\ socket # 0 /\ ready[socket] = "open" /\ pending = <<>>

(* Two things lose subscriptions: the user's retry, and a message that overtakes
   those the throttle holds back.  Until either happens ... *)
Undisturbed == retries = 0 /\ limits = 0

(* ... a connected client that has nothing left to send is served exactly what is
   subscribed: across drops at every point of a handshake, rejections, and a
   queue that was filled while there was no connection. *)
CarriesSubscriptions == Settled /\ Undisturbed => asked[socket] = subscribed

(* The half of it the contract promises: it carries every symbol the client
   subscribes to, whichever way the connection was made again. *)
CarriesEverySymbol == Settled => subscribed \subseteq asked[socket]

(* A watchdog or ping timer never outlives its connection: it would close, or
   talk on, the next one.  Until then, too: a connection that was forgotten starts
   timers when it is greeted. *)
TimersGuardCurrent ==
  ~mistaken /\ (watchdog \/ pingTimer) =>
    socket # 0 /\ socket \in welcomed /\ ready[socket] \in {"open", "closing"}

(* What is subscribed is served in the end, unless it is unsubscribed, the
   gateway closed the connection for good, or what it asked for was disturbed. *)
Serves(symbol) ==
  socket # 0 /\ ready[socket] = "open" /\ symbol \in asked[socket]
Recovers ==
  \A symbol \in Symbols :
    symbol \in subscribed ~>
      Serves(symbol) \/ symbol \notin subscribed \/ status = "closed" \/ ~Undisturbed
=============================================================================
