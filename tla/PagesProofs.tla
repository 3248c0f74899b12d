---------------------------- MODULE PagesProofs ----------------------------
(***************************************************************************)
(* The pages and their source hold one connection, and its timers guard    *)
(* no other, for any number of sockets, symbols, drops and retries; and a  *)
(* client that is connected is served what the pages subscribe to.         *)
(*                                                                         *)
(* That no forgotten socket is usable is not inductive: one that is        *)
(* closing reports its close to the source, which then forgets whatever    *)
(* socket it holds.  Until the user retries no such socket is left, since  *)
(* a reconnect's timer runs only while no socket is held: whoever may      *)
(* still report (Reporting) is the socket held (FirstReporterIsHeld).      *)
(* After a retry there may be one, and all holds until it has reported     *)
(* and was mistaken for its successor.                                     *)
(*                                                                         *)
(* What is served when a socket is greeted are the messages of the queue   *)
(* and what the waiting reconnects ask again: the queue never asks for     *)
(* more than is wanted (QueueAsksWanted), that of a first connection asks  *)
(* for all of it (FirstQueueIsAll), and behind any other a reconnect waits *)
(* (ReconnectWaits).                                                       *)
(***************************************************************************)
EXTENDS BoardAndDetail, WellFoundedInduction, TLAPS

Reporting == {"connecting", "open", "closing"}
States == {"none", "closed"} \cup Reporting

LinkTypes ==
  /\ made \in 0 .. MaxSockets /\ socket \in 0 .. made
  /\ ready \in [Sockets -> States]
  /\ watchdog \in BOOLEAN /\ pingTimer \in BOOLEAN /\ reconnectTimer \in BOOLEAN
  /\ retries \in Nat

HeldReports == socket # 0 => ready[socket] \in Reporting
UsableIsHeld == \A s \in Sockets : Usable(s) => s = socket
FirstReporterIsHeld == retries = 0 => \A s \in Sockets : ready[s] \in Reporting => s = socket
NothingAhead == \A s \in Sockets : s > made => ready[s] = "none"
ReconnectsWithout == reconnectTimer => socket = 0 /\ made # 0

LinkInv ==
  /\ ~mistaken
  /\ LinkTypes
  /\ HeldReports /\ UsableIsHeld /\ FirstReporterIsHeld /\ NothingAhead /\ ReconnectsWithout
  /\ TimersGuardCurrent

(* The bound on the sockets is a natural number.                           *)
LEMMA Bounded == MaxSockets \in Nat
  BY SourceAssumption

(* A socket that is made replaces the one held, which may go on closing if the user has
   retried; nothing else is usable, and no timer runs. *)
LEMMA NewSocketKeeps ==
  ASSUME LinkInv, made < MaxSockets,
         made' = made + 1, socket' = made + 1,
         ready' = [s \in Sockets |-> IF s = made + 1 THEN "connecting"
                                     ELSE IF s = socket THEN Closing(s) ELSE ready[s]],
         reconnectTimer' = FALSE,
         watchdog' = FALSE, pingTimer' = FALSE,
         mistaken' = mistaken, retries' \in Nat,
         retries' = 0 => retries = 0 /\ socket = 0
  PROVE  LinkInv'
<1>1. LinkTypes'
  <2>1. made' \in 0 .. MaxSockets /\ socket' \in 0 .. made'
    BY Bounded DEF LinkInv, LinkTypes
  <2>2. ready' \in [Sockets -> States]
    BY DEF LinkInv, LinkTypes, States, Reporting, Closing
  <2> QED  BY <2>1, <2>2 DEF LinkTypes
<1>2. HeldReports' /\ NothingAhead'
  BY Bounded DEF LinkInv, LinkTypes, Sockets, Reporting, HeldReports, NothingAhead, Closing
<1>3. UsableIsHeld'
  BY DEF LinkInv, LinkTypes, UsableIsHeld, Usable, Closing
<1>4. FirstReporterIsHeld'
  <2>1. CASE retries' = 0
    BY <2>1 DEF LinkInv, LinkTypes, FirstReporterIsHeld, Sockets
  <2>2. CASE retries' # 0
    BY <2>2 DEF FirstReporterIsHeld
  <2> QED  BY <2>1, <2>2
<1>5. ReconnectsWithout' /\ TimersGuardCurrent'
  BY DEF ReconnectsWithout, TimersGuardCurrent
<1> QED  BY <1>1, <1>2, <1>3, <1>4, <1>5 DEF LinkInv

(* A step that leaves the sockets and the timers alone keeps the invariant. *)
LEMMA QuietKeeps ==
  ASSUME LinkInv, UNCHANGED <<made, ready, socket, reconnectTimer, watchdog, pingTimer>>,
         UNCHANGED <<retries, mistaken>>, welcomed \subseteq welcomed'
  PROVE  LinkInv'
  BY DEF LinkInv, LinkTypes, HeldReports, UsableIsHeld, Usable, FirstReporterIsHeld,
         NothingAhead, ReconnectsWithout, TimersGuardCurrent

(* So does the end of a socket that nothing has replaced.                  *)
LEMMA EndKeeps ==
  ASSUME LinkInv, NEW s \in Sockets, ready[s] \in Reporting, socket \in {0, s},
         UNCHANGED <<made, retries>>, ~mistaken',
         socket' = 0, ready' = [ready EXCEPT ![s] = "closed"],
         reconnectTimer' \in BOOLEAN, watchdog' = FALSE, pingTimer' = FALSE
  PROVE  LinkInv'
<1>1. LinkTypes'
  <2>1. made' \in 0 .. MaxSockets /\ socket' \in 0 .. made'
    BY Bounded DEF LinkInv, LinkTypes
  <2>2. ready' \in [Sockets -> States]
    BY DEF LinkInv, LinkTypes, States
  <2> QED  BY <2>1, <2>2 DEF LinkInv, LinkTypes
<1>2. HeldReports' /\ UsableIsHeld'
  BY DEF LinkInv, LinkTypes, HeldReports, UsableIsHeld, Usable, Sockets
<1>3. FirstReporterIsHeld'
  BY DEF LinkInv, LinkTypes, FirstReporterIsHeld, Reporting, Sockets
<1>4. NothingAhead'
  BY Bounded DEF LinkInv, LinkTypes, NothingAhead, Sockets, Reporting
<1>5. made # 0
  BY Bounded DEF LinkInv, LinkTypes, NothingAhead, Reporting, Sockets
<1> QED  BY <1>1, <1>2, <1>3, <1>4, <1>5 DEF LinkInv, ReconnectsWithout, TimersGuardCurrent

(* So does a change of the held socket's state that leaves it reporting; a timer may run
   afterwards only beside a welcomed socket that is open or closing. *)
LEMMA MoveKeeps ==
  ASSUME LinkInv, NEW s \in Sockets, s = socket, NEW to \in Reporting, ready[s] \in Reporting,
         UNCHANGED <<made, socket, reconnectTimer, retries, mistaken>>,
         ready' = [ready EXCEPT ![s] = to],
         watchdog' \in BOOLEAN, pingTimer' \in BOOLEAN, TimersGuardCurrent'
  PROVE  LinkInv'
<1>1. LinkTypes'
  BY DEF LinkInv, LinkTypes, Sockets, States
<1>2. HeldReports' /\ UsableIsHeld' /\ FirstReporterIsHeld'
  BY DEF LinkInv, LinkTypes, HeldReports, UsableIsHeld, Usable, FirstReporterIsHeld, Sockets
<1>3. NothingAhead'
  BY Bounded DEF LinkInv, LinkTypes, NothingAhead, Sockets, Reporting
<1> QED  BY <1>1, <1>2, <1>3 DEF LinkInv, ReconnectsWithout

----------------------------------------------------------------------------
(* A socket that is held is one of them, and its timers are stopped when it is not. *)
LEMMA HeldIsSocket ==
  ASSUME LinkInv
  PROVE  /\ socket # 0 => socket \in Sockets
         /\ socket = 0 => ~watchdog /\ ~pingTimer
  BY Bounded DEF LinkInv, LinkTypes, Sockets, TimersGuardCurrent

(* A socket that opens, or is open, is the one held.                       *)
LEMMA UsableHeld ==
  ASSUME LinkInv, NEW s \in Sockets, ready[s] \in {"connecting", "open"}
  PROVE  s = socket /\ socket # 0
  BY DEF LinkInv, UsableIsHeld, Usable, Sockets

(* Every step of the source keeps the invariant, but for the close event of a socket that was
   replaced; and that takes a retry. *)
LEMMA SourceKeeps ==
  ASSUME LinkInv, Source
  PROVE  LinkInv' \/ (mistaken' /\ retries' # 0)
<1>0. retries \in Nat /\ ~mistaken
  BY DEF LinkInv, LinkTypes
<1>1. CASE Connect
  <2>1. socket = 0
    BY <1>1 DEF Connect, LinkInv, LinkTypes
  <2>2. watchdog' = FALSE /\ pingTimer' = FALSE /\ UNCHANGED <<retries, mistaken>>
    BY <1>1, <2>1, HeldIsSocket DEF Connect, guardVars, historyVars, LinkInv, LinkTypes
  <2>3. reconnectTimer' = FALSE
    BY <1>1 DEF Connect, LinkInv, LinkTypes, ReconnectsWithout
  <2>4. ready' = [s \in Sockets |-> IF s = made + 1 THEN "connecting"
                                    ELSE IF s = socket THEN Closing(s) ELSE ready[s]]
    <3>1. \A s \in Sockets : s # socket
      BY <2>1 DEF Sockets
    <3>2. ready' = [ready EXCEPT ![made + 1] = "connecting"] /\ ready \in [Sockets -> States]
      BY <1>1 DEF Connect, LinkInv, LinkTypes
    <3> QED  BY <3>1, <3>2
  <2> QED
    BY <1>0, <1>1, <2>1, <2>2, <2>3, <2>4, NewSocketKeeps DEF Connect, OpenSocket
<1>2. CASE Retry
  <2>1. /\ ready' = [s \in Sockets |-> IF s = made + 1 THEN "connecting"
                                    ELSE IF s = socket THEN Closing(s) ELSE ready[s]]
        /\ made < MaxSockets /\ made' = made + 1 /\ socket' = made + 1
        /\ reconnectTimer' = FALSE /\ watchdog' = FALSE /\ pingTimer' = FALSE
        /\ mistaken' = mistaken /\ retries' = retries + 1
    BY <1>2 DEF Retry, OpenSocket, ClearReconnectTimer, StopTimers
  <2>2. retries' \in Nat /\ retries' # 0
    BY <1>0, <2>1
  <2> QED
    BY <2>1, <2>2, NewSocketKeeps
<1>3. ASSUME NEW s \in Sockets, SocketOpens(s)
      PROVE  LinkInv'
  <2>1. s = socket /\ socket # 0 /\ ready[s] \in Reporting
    BY <1>3, UsableHeld DEF SocketOpens, Reporting
  <2>2. /\ UNCHANGED <<made, socket, reconnectTimer, retries, mistaken, welcomed, watchdog, pingTimer>>
        /\ ready' = [ready EXCEPT ![s] = "open"]
    BY <1>3 DEF SocketOpens, guardVars, historyVars
  <2>3. TimersGuardCurrent'
    BY <2>1, <2>2 DEF LinkInv, LinkTypes, TimersGuardCurrent
  <2>4. watchdog' \in BOOLEAN /\ pingTimer' \in BOOLEAN
    BY <2>2 DEF LinkInv, LinkTypes
  <2> QED
    BY <2>1, <2>2, <2>3, <2>4, MoveKeeps DEF Reporting
<1>4. ASSUME NEW s \in Sockets, Connected(s)
      PROVE  LinkInv'
  <2>1. s = socket /\ socket # 0
    BY <1>4, UsableHeld DEF Connected
  <2>2. /\ UNCHANGED <<made, ready, socket, reconnectTimer, retries, mistaken>>
        /\ watchdog' = TRUE /\ pingTimer' = TRUE /\ socket \in welcomed' /\ ready[socket] = "open"
    BY <1>4, <2>1 DEF Connected, historyVars
  <2>3. LinkTypes' /\ TimersGuardCurrent'
    BY <2>1, <2>2 DEF LinkInv, LinkTypes, TimersGuardCurrent
  <2> QED
    BY <2>2, <2>3 DEF LinkInv, HeldReports, UsableIsHeld, Usable, FirstReporterIsHeld,
                      NothingAhead, ReconnectsWithout
<1>5. ASSUME NEW s \in Sockets, NEW symbol \in Symbols, Rejected(s, symbol)
      PROVE  LinkInv'
  BY <1>5, QuietKeeps DEF Rejected, networkVars, linkVars, guardVars, historyVars
<1>6. ASSUME NEW s \in Sockets, RateLimited(s)
      PROVE  LinkInv'
  BY <1>6, QuietKeeps DEF RateLimited, networkVars, linkVars, guardVars
<1>7. ASSUME NEW s \in Sockets, PeerCloses(s)
      PROVE  LinkInv'
  <2>1. s = socket /\ socket # 0 /\ ready[s] \in Reporting
    BY <1>7, UsableHeld DEF PeerCloses, Reporting
  <2>2. /\ UNCHANGED <<made, socket, reconnectTimer, retries, mistaken, welcomed, watchdog, pingTimer>>
        /\ ready' = [ready EXCEPT ![s] = "closing"]
    BY <1>7 DEF PeerCloses, linkVars, guardVars
  <2>3. TimersGuardCurrent'
    BY <2>1, <2>2 DEF LinkInv, LinkTypes, TimersGuardCurrent
  <2>4. watchdog' \in BOOLEAN /\ pingTimer' \in BOOLEAN
    BY <2>2 DEF LinkInv, LinkTypes
  <2> QED
    BY <2>1, <2>2, <2>3, <2>4, MoveKeeps DEF Reporting
<1>8. ASSUME NEW s \in Sockets, NEW code \in Codes, CloseEvent(s, code)
      PROVE  LinkInv' \/ (mistaken' /\ retries' # 0)
  <2>1. /\ ready[s] \in Reporting /\ ready' = [ready EXCEPT ![s] = "closed"]
        /\ UNCHANGED <<made, retries>> /\ socket' = 0
        /\ watchdog' = FALSE /\ pingTimer' = FALSE
        /\ mistaken' = (mistaken \/ socket \notin {0, s})
    BY <1>8 DEF CloseEvent, HandleClose, StopTimers, Reporting
  <2>2. CASE socket \in {0, s}
    <3>1. reconnectTimer' \in BOOLEAN
      BY <1>8 DEF CloseEvent, HandleClose, Rescheduled, LinkInv, LinkTypes
    <3>2. ~mistaken'
      BY <1>0, <2>1, <2>2
    <3> QED
      BY <2>1, <2>2, <3>1, <3>2, EndKeeps
  <2>3. CASE socket \notin {0, s}
    <3>1. retries # 0
      BY <2>1, <2>3 DEF LinkInv, FirstReporterIsHeld
    <3> QED  BY <2>1, <2>3, <3>1
  <2> QED  BY <2>2, <2>3
<1>9. CASE WatchdogFires
  <2>1. socket # 0 /\ socket \in Sockets /\ ready[socket] \in {"open", "closing"}
    BY <1>0, <1>9, HeldIsSocket DEF WatchdogFires, LinkInv, TimersGuardCurrent
  <2>2. /\ ready' = [ready EXCEPT ![socket] = "closing"]
        /\ UNCHANGED <<made, socket, reconnectTimer, welcomed, pingTimer, retries, mistaken>>
        /\ watchdog' = FALSE
    BY <1>9, <2>1 DEF WatchdogFires, ForceLocalClose, Closing
  <2>3. TimersGuardCurrent' /\ pingTimer' \in BOOLEAN
    BY <2>1, <2>2 DEF LinkInv, LinkTypes, TimersGuardCurrent
  <2> QED
    BY <2>1, <2>2, <2>3, MoveKeeps DEF Reporting
<1>10. CASE Ping \/ WindowEnds \/ ThrottleTimerFires
  BY <1>10, QuietKeeps
     DEF Ping, WindowEnds, ThrottleTimerFires, networkVars, linkVars, guardVars, historyVars
<1>11. CASE ReconnectTimerFires
  <2>1. socket = 0
    BY <1>11 DEF ReconnectTimerFires, LinkInv, ReconnectsWithout
  <2>2. watchdog' = FALSE /\ pingTimer' = FALSE /\ UNCHANGED <<retries, mistaken>>
    BY <1>11, <2>1, HeldIsSocket
       DEF ReconnectTimerFires, guardVars, historyVars, LinkInv, LinkTypes
  <2>3. ready' = [s \in Sockets |-> IF s = made + 1 THEN "connecting"
                                    ELSE IF s = socket THEN Closing(s) ELSE ready[s]]
    <3>1. \A s \in Sockets : s # socket
      BY <2>1 DEF Sockets
    <3>2. ready' = [ready EXCEPT ![made + 1] = "connecting"] /\ ready \in [Sockets -> States]
      BY <1>11 DEF ReconnectTimerFires, LinkInv, LinkTypes
    <3> QED  BY <3>1, <3>2
  <2> QED
    BY <1>0, <1>11, <2>1, <2>2, <2>3, NewSocketKeeps DEF ReconnectTimerFires, OpenSocket
<1> QED
  BY <1>1, <1>2, <1>3, <1>4, <1>5, <1>6, <1>7, <1>8, <1>9, <1>10, <1>11
     DEF Source, Network, Timers

(* The calls of the pages leave sockets and timers alone.                  *)
LEMMA CallsKeep ==
  ASSUME LinkInv, UNCHANGED vars \/ UNCHANGED <<networkVars, linkVars, guardVars, historyVars>>
  PROVE  LinkInv'
  BY QuietKeeps DEF vars, networkVars, linkVars, guardVars, historyVars

(* Every step of the pages and their source keeps the invariant, but for a close event that is
   mistaken. *)
LEMMA PagesKeep ==
  ASSUME LinkInv, [PagesNext]_allVars
  PROVE  LinkInv' \/ (mistaken' /\ retries' # 0)
<1>1. CASE UNCHANGED allVars
  BY <1>1, CallsKeep DEF allVars
<1>2. CASE Board
  BY <1>2, CallsKeep
     DEF Board, BoardMounts, BoardRetries, BoardLoads, UniverseArrives, UniverseFails,
         BoardUnmounts, NoCalls, Subscribe, Calls
<1>3. CASE Detail
  BY <1>3, CallsKeep DEF Detail, DetailCloses, DetailOpens, Subscribe, Unsubscribe, Calls
<1>4. CASE Source /\ UNCHANGED pageVars
  BY <1>4, SourceKeeps
<1> QED  BY <1>1, <1>2, <1>3, <1>4 DEF PagesNext

(* Retries are counted, and a mistake is remembered.                       *)
LEMMA SourceCounts ==
  ASSUME Source
  PROVE  /\ retries' = IF Retry THEN retries + 1 ELSE retries
         /\ mistaken => mistaken'
<1>1. CASE Retry
  BY <1>1 DEF Retry
<1>2. ASSUME ~Retry
      PROVE  retries' = retries /\ (mistaken => mistaken')
  <2>1. CASE Connect
    BY <2>1 DEF Connect, historyVars
  <2>2. ASSUME NEW s \in Sockets, Network(s)
        PROVE  retries' = retries /\ (mistaken => mistaken')
    <3>1. CASE SocketOpens(s) \/ Connected(s) \/ \E symbol \in Symbols : Rejected(s, symbol)
      <4>1. UNCHANGED historyVars
        BY <3>1, Zenon DEF SocketOpens, Connected, Rejected
      <4> QED  BY <4>1 DEF historyVars
    <3>2. CASE RateLimited(s) \/ PeerCloses(s)
      BY <3>2 DEF RateLimited, PeerCloses
    <3>3. ASSUME NEW code \in Codes, CloseEvent(s, code)
          PROVE  retries' = retries /\ (mistaken => mistaken')
      BY <3>3 DEF CloseEvent
    <3> QED  BY <2>2, <3>1, <3>2, <3>3 DEF Network
  <2>3. CASE Timers
    BY <2>3 DEF Timers, WatchdogFires, Ping, WindowEnds, ThrottleTimerFires,
                ReconnectTimerFires, historyVars
  <2> QED  BY <1>2, <2>1, <2>2, <2>3 DEF Source
<1> QED  BY <1>1, <1>2

(* So it is by every step of the pages and their source.                   *)
LEMMA PagesCount ==
  ASSUME [PagesNext]_allVars
  PROVE  /\ retries' \in {retries, retries + 1}
         /\ mistaken => mistaken'
<1>1. CASE UNCHANGED allVars
  BY <1>1 DEF allVars, vars, historyVars
<1>2. CASE Board
  BY <1>2 DEF Board, BoardMounts, BoardRetries, BoardLoads, UniverseArrives, UniverseFails,
              BoardUnmounts, NoCalls, Subscribe, Calls, vars, historyVars
<1>3. CASE Detail
  BY <1>3 DEF Detail, DetailCloses, DetailOpens, Subscribe, Unsubscribe, Calls, historyVars
<1>4. CASE Source /\ UNCHANGED pageVars
  BY <1>4, SourceCounts
<1> QED  BY <1>1, <1>2, <1>3, <1>4 DEF PagesNext

(* The invariant holds before the source is made.                          *)
LEMMA PagesBegin ==
  ASSUME PagesInit
  PROVE  LinkInv
<1>1. ready \in [Sockets -> States]
  BY DEF PagesInit, Init, States
<1>2. made \in 0 .. MaxSockets /\ socket \in 0 .. made /\ retries \in Nat
  BY Bounded DEF PagesInit, Init
<1>3. watchdog \in BOOLEAN /\ pingTimer \in BOOLEAN /\ reconnectTimer \in BOOLEAN
  BY Zenon DEF PagesInit, Init
<1>4. LinkTypes
  BY <1>1, <1>2, <1>3 DEF LinkTypes
<1> QED
  BY <1>4 DEF PagesInit, Init, LinkInv, Reporting, HeldReports, UsableIsHeld, Usable,
              FirstReporterIsHeld, NothingAhead, ReconnectsWithout, TimersGuardCurrent

----------------------------------------------------------------------------
OrderlyInv ==
  /\ retries \in Nat
  /\ IF mistaken THEN retries # 0 ELSE LinkInv

(* Every step keeps it.                                                    *)
LEMMA OrderKeeps ==
  ASSUME OrderlyInv, [PagesNext]_allVars
  PROVE  OrderlyInv'
<1>1. retries' \in {retries, retries + 1} /\ (mistaken => mistaken')
  BY PagesCount
<1>2. retries' \in Nat /\ (retries # 0 => retries' # 0)
  BY <1>1 DEF OrderlyInv
<1>3. CASE mistaken
  BY <1>1, <1>2, <1>3 DEF OrderlyInv
<1>4. CASE ~mistaken
  <2>1. LinkInv
    BY <1>4 DEF OrderlyInv
  <2>2. LinkInv' \/ (mistaken' /\ retries' # 0)
    BY <2>1, PagesKeep
  <2>3. LinkInv' => ~mistaken'
    BY DEF LinkInv
  <2> QED  BY <1>2, <2>2, <2>3 DEF OrderlyInv
<1> QED  BY <1>3, <1>4

(* At most one socket of the page is opening or open, and it is the one the source holds,
   whatever drops, times out or is retried, in the middle of an attempt or not: until the
   close event of a socket that a retry replaced is handled as its successor's. *)
THEOREM OneSocketAtATime == PagesSpec => []OneConnection
<1>1. PagesInit => OrderlyInv
  BY PagesBegin DEF OrderlyInv, LinkInv, LinkTypes
<1>2. OrderlyInv /\ [PagesNext]_allVars => OrderlyInv'
  BY OrderKeeps
<1>3. OrderlyInv => OneConnection
  BY DEF OrderlyInv, LinkInv, UsableIsHeld, OneConnection
<1> QED  BY <1>1, <1>2, <1>3, PTL DEF PagesSpec

(* Nor, until then, does a watchdog or a ping timer outlive the connection it was started for:
   #handleClose and disconnect stop both before another socket is made. *)
THEOREM TimersStayWithTheirs == PagesSpec => []TimersGuardCurrent
<1>1. PagesInit => OrderlyInv
  BY PagesBegin DEF OrderlyInv, LinkInv, LinkTypes
<1>2. OrderlyInv /\ [PagesNext]_allVars => OrderlyInv'
  BY OrderKeeps
<1>3. OrderlyInv => TimersGuardCurrent
  BY DEF OrderlyInv, LinkInv, TimersGuardCurrent
<1> QED  BY <1>1, <1>2, <1>3, PTL DEF PagesSpec

----------------------------------------------------------------------------
(* What a list of messages asks for.                                       *)

(* A nonempty set of natural numbers has a least member.                   *)
LEMMA LeastOf ==
  ASSUME NEW S, S \subseteq Nat, S # {}
  PROVE  \E x \in S : \A y \in S : x <= y
<1>1. PICK x \in S : \A y \in S : ~ (<<y, x>> \in OpToRel(<, Nat))
  BY WFMin, NatLessThanWellFounded
<1>2. ASSUME NEW y \in S, y < x
      PROVE  FALSE
  <2>1. <<y, x>> \in OpToRel(<, Nat)
    BY <1>2 DEF OpToRel
  <2> QED  BY <1>1, <2>1
<1> QED  BY <1>2

(* Induction up to a number, for the numbers of a set.                     *)
LEMMA Induction ==
  ASSUME NEW k \in Nat, NEW T, 0 \in T, \A n \in 1 .. k : n - 1 \in T => n \in T
  PROVE  \A n \in 0 .. k : n \in T
<1> DEFINE S == {n \in 0 .. k : n \notin T}
<1> SUFFICES ASSUME S # {} PROVE FALSE
  OBVIOUS
<1>1. PICK n \in S : \A m \in S : n <= m
  <2>1. S \subseteq Nat
    OBVIOUS
  <2> QED  BY <2>1, LeastOf
<1>2. n \in 1 .. k /\ n - 1 \in 0 .. k /\ n - 1 < n
  OBVIOUS
<1>3. n - 1 \in T
  BY <1>1, <1>2
<1> QED  BY <1>2, <1>3

(* What is served after each of the messages, as a function of how many.   *)
HearsBy(g, symbols, messages, k) ==
  g = [n \in 0 .. k |-> IF n = 0 THEN symbols ELSE Heard(g[n - 1], messages[n])]

(* There is such a function, for every list.                               *)
LEMMA HearingExists ==
  ASSUME NEW symbols, NEW messages, NEW k \in Nat
  PROVE  \E g : HearsBy(g, symbols, messages, k)
<1> DEFINE T == {n \in 0 .. k : \E g : HearsBy(g, symbols, messages, n)}
<1>1. 0 \in T
  <2> DEFINE g == [n \in 0 .. 0 |-> symbols]
  <2>1. HearsBy(g, symbols, messages, 0)
    BY DEF HearsBy
  <2> QED  BY <2>1
<1>2. ASSUME NEW m \in 1 .. k, m - 1 \in T
      PROVE  m \in T
  <2>1. m - 1 \in Nat /\ m \in Nat
    OBVIOUS
  <2>2. PICK g : HearsBy(g, symbols, messages, m - 1)
    BY <1>2
  <2> DEFINE h == [n \in 0 .. m |-> IF n = m THEN Heard(g[m - 1], messages[m]) ELSE g[n]]
  <2>3. \A n \in 0 .. m - 1 : g[n] = IF n = 0 THEN symbols ELSE Heard(g[n - 1], messages[n])
    BY <2>1, <2>2 DEF HearsBy
  <2>4. ASSUME NEW n \in 0 .. m
        PROVE  h[n] = IF n = 0 THEN symbols ELSE Heard(h[n - 1], messages[n])
    <3>1. CASE n = m
      BY <3>1, <2>1
    <3>2. CASE n # m /\ n = 0
      BY <3>2, <2>1, <2>3
    <3>3. CASE n # m /\ n # 0
      <4>1. n \in 0 .. m - 1 /\ n - 1 \in 0 .. m /\ n - 1 # m
        BY <3>3, <2>1
      <4> QED  BY <3>3, <4>1, <2>3
    <3> QED  BY <3>1, <3>2, <3>3
  <2>5. h = [n \in 0 .. m |-> h[n]]
    OBVIOUS
  <2> HIDE DEF h
  <2>6. HearsBy(h, symbols, messages, m)
    BY <2>4, <2>5 DEF HearsBy
  <2> QED  BY <2>6
<1> HIDE DEF T
<1>3. \A n \in 0 .. k : n \in T
  BY <1>1, <1>2, Induction
<1>4. k \in T
  BY <1>3
<1> QED  BY <1>4 DEF T

(* What is served after a list is where its steps lead.                    *)
LEMMA ServedIs ==
  ASSUME NEW symbols, NEW messages \in Seq(Messages)
  PROVE  \E g : /\ g[0] = symbols
                /\ \A n \in 1 .. Len(messages) : g[n] = Heard(g[n - 1], messages[n])
                /\ Served(symbols, messages) = g[Len(messages)]
<1> DEFINE g == CHOOSE h : HearsBy(h, symbols, messages, Len(messages))
<1>1. HearsBy(g, symbols, messages, Len(messages))
  BY HearingExists
<1>2. Served(symbols, messages) = g[Len(messages)]
  BY DEF Served, HearsBy
<1> HIDE DEF g
<1>3. \A n \in 0 .. Len(messages) :
        g[n] = IF n = 0 THEN symbols ELSE Heard(g[n - 1], messages[n])
  BY <1>1 DEF HearsBy
<1>4. g[0] = symbols /\ \A n \in 1 .. Len(messages) : g[n] = Heard(g[n - 1], messages[n])
  BY <1>3
<1> QED  BY <1>2, <1>4

(* Whatever goes through the same steps ends with what is served.          *)
LEMMA ServedBy ==
  ASSUME NEW symbols, NEW messages \in Seq(Messages), NEW h, h[0] = symbols,
         \A n \in 1 .. Len(messages) : h[n] = Heard(h[n - 1], messages[n])
  PROVE  Served(symbols, messages) = h[Len(messages)]
<1>1. PICK g : /\ g[0] = symbols
               /\ \A n \in 1 .. Len(messages) : g[n] = Heard(g[n - 1], messages[n])
               /\ Served(symbols, messages) = g[Len(messages)]
  BY ServedIs
<1> DEFINE T == {n \in 0 .. Len(messages) : g[n] = h[n]}
<1>2. 0 \in T /\ \A n \in 1 .. Len(messages) : n - 1 \in T => n \in T
  BY <1>1
<1> HIDE DEF T
<1>3. \A n \in 0 .. Len(messages) : n \in T
  <2>1. Len(messages) \in Nat
    OBVIOUS
  <2> QED  BY <2>1, <1>2, Induction
<1>4. Len(messages) \in T
  BY <1>3
<1> QED  BY <1>1, <1>4 DEF T

(* No message changes nothing.                                             *)
LEMMA ServedNone ==
  ASSUME NEW symbols
  PROVE  Served(symbols, <<>>) = symbols
<1>1. <<>> \in Seq(Messages) /\ Len(<<>>) = 0
  OBVIOUS
<1>2. PICK g : g[0] = symbols /\ Served(symbols, <<>>) = g[Len(<<>>)]
  <2>1. \A p \in Seq(Messages) : \E g : g[0] = symbols /\ Served(symbols, p) = g[Len(p)]
    <3> TAKE p \in Seq(Messages)
    <3>1. PICK g : /\ g[0] = symbols
                   /\ \A n \in 1 .. Len(p) : g[n] = Heard(g[n - 1], p[n])
                   /\ Served(symbols, p) = g[Len(p)]
      BY ServedIs
    <3> QED  BY <3>1
  <2> QED  BY <2>1, <1>1, Zenon
<1> QED  BY <1>1, <1>2

(* One message does what it says.                                          *)
LEMMA ServedOne ==
  ASSUME NEW symbols, NEW m \in Messages
  PROVE  Served(symbols, <<m>>) = Heard(symbols, m)
<1> DEFINE h == [n \in 0 .. 1 |-> IF n = 0 THEN symbols ELSE Heard(symbols, m)]
<1>1. <<m>> \in Seq(Messages) /\ Len(<<m>>) = 1 /\ <<m>>[1] = m
  OBVIOUS
<1>2. h[0] = symbols /\ h[1] = Heard(symbols, m)
  OBVIOUS
<1> HIDE DEF h
<1>3. \A n \in 1 .. Len(<<m>>) : h[n] = Heard(h[n - 1], <<m>>[n])
  BY <1>1, <1>2
<1>4. Served(symbols, <<m>>) = h[Len(<<m>>)]
  BY <1>1, <1>2, <1>3, ServedBy
<1> QED  BY <1>1, <1>2, <1>4

(* One list after another.                                                 *)
LEMMA ServedConcat ==
  ASSUME NEW symbols, NEW p \in Seq(Messages), NEW q \in Seq(Messages)
  PROVE  Served(symbols, p \o q) = Served(Served(symbols, p), q)
<1>1. PICK g : /\ g[0] = symbols
               /\ \A n \in 1 .. Len(p) : g[n] = Heard(g[n - 1], p[n])
               /\ Served(symbols, p) = g[Len(p)]
  BY ServedIs
<1>2. PICK h : /\ h[0] = Served(symbols, p)
               /\ \A n \in 1 .. Len(q) : h[n] = Heard(h[n - 1], q[n])
               /\ Served(Served(symbols, p), q) = h[Len(q)]
  BY ServedIs
<1> DEFINE m == Len(p)
           k == Len(q)
           f == [n \in 0 .. m + k |-> IF n <= m THEN g[n] ELSE h[n - m]]
<1>3. /\ p \o q \in Seq(Messages) /\ Len(p \o q) = m + k /\ m \in Nat /\ k \in Nat
      /\ \A n \in 1 .. m : (p \o q)[n] = p[n]
      /\ \A n \in 1 .. k : (p \o q)[m + n] = q[n]
  OBVIOUS
<1>4. f[0] = symbols
  BY <1>1, <1>3
<1>5. ASSUME NEW n \in 1 .. m + k
      PROVE  f[n] = Heard(f[n - 1], (p \o q)[n])
  <2>1. CASE n <= m
    <3>1. n \in 1 .. m /\ n - 1 \in 0 .. m + k /\ n - 1 <= m
      BY <2>1, <1>3
    <3> QED  BY <2>1, <3>1, <1>1, <1>3
  <2>2. CASE n > m
    <3>1. n - m \in 1 .. k /\ m + (n - m) = n /\ n - 1 \in 0 .. m + k /\ ~(n <= m) /\ (n - 1) - m = (n - m) - 1
      BY <2>2, <1>3
    <3>2. f[n] = h[n - m] /\ h[n - m] = Heard(h[(n - m) - 1], q[n - m])
      BY <3>1, <1>2, <1>3
    <3>3. (p \o q)[n] = q[n - m]
      <4>1. (p \o q)[m + (n - m)] = q[n - m]
        BY <3>1, <1>3
      <4> QED  BY <4>1, <3>1
    <3>4. f[n - 1] = h[(n - m) - 1]
      <4>1. CASE n - 1 <= m
        <5>1. n - 1 = m /\ (n - m) - 1 = 0
          BY <4>1, <2>2, <1>3
        <5>2. f[n - 1] = g[m]
          BY <5>1, <3>1, <1>3
        <5> QED  BY <5>1, <5>2, <1>1, <1>2
      <4>2. CASE ~(n - 1 <= m)
        BY <4>2, <3>1
      <4> QED  BY <4>1, <4>2
    <3> HIDE DEF f
    <3> QED  BY <3>2, <3>3, <3>4
  <2> QED  BY <2>1, <2>2, <1>3
<1>6. f[m + k] = h[k]
  <2>1. CASE k = 0
    <3>1. f[m + k] = g[m]
      BY <2>1, <1>3
    <3> QED  BY <2>1, <3>1, <1>1, <1>2
  <2>2. CASE k # 0
    <3>1. ~(m + k <= m) /\ m + k \in 0 .. m + k /\ (m + k) - m = k
      BY <2>2, <1>3
    <3> QED  BY <3>1
  <2> QED  BY <2>1, <2>2
<1> HIDE DEF f, m, k
<1>7. Served(symbols, p \o q) = f[Len(p \o q)]
  BY <1>3, <1>4, <1>5, ServedBy
<1> QED  BY <1>2, <1>3, <1>6, <1>7 DEF k

(* Who is served more before is served no less after.                      *)
LEMMA ServedMonotone ==
  ASSUME NEW few, NEW many, few \subseteq many, NEW p \in Seq(Messages)
  PROVE  Served(few, p) \subseteq Served(many, p)
<1>1. PICK g : /\ g[0] = few
               /\ \A n \in 1 .. Len(p) : g[n] = Heard(g[n - 1], p[n])
               /\ Served(few, p) = g[Len(p)]
  BY ServedIs
<1>2. PICK h : /\ h[0] = many
               /\ \A n \in 1 .. Len(p) : h[n] = Heard(h[n - 1], p[n])
               /\ Served(many, p) = h[Len(p)]
  BY ServedIs
<1> DEFINE T == {n \in 0 .. Len(p) : g[n] \subseteq h[n]}
<1>3. 0 \in T
  BY <1>1, <1>2
<1>4. ASSUME NEW n \in 1 .. Len(p), n - 1 \in T
      PROVE  n \in T
  <2>1. g[n - 1] \subseteq h[n - 1] /\ n \in 0 .. Len(p)
    BY <1>4
  <2>2. Heard(g[n - 1], p[n]) \subseteq Heard(h[n - 1], p[n])
    BY <2>1 DEF Heard
  <2> QED  BY <2>1, <2>2, <1>1, <1>2
<1> HIDE DEF T
<1>5. \A n \in 0 .. Len(p) : n \in T
  <2>1. Len(p) \in Nat
    OBVIOUS
  <2> QED  BY <2>1, <1>3, <1>4, Induction
<1>6. Len(p) \in T
  BY <1>5
<1> QED  BY <1>1, <1>2, <1>6 DEF T

(* Only the symbols of the messages are served, besides those before.      *)
LEMMA ServedKnown ==
  ASSUME NEW symbols, symbols \subseteq Symbols, NEW p \in Seq(Messages)
  PROVE  Served(symbols, p) \subseteq Symbols
<1>1. PICK g : /\ g[0] = symbols
               /\ \A n \in 1 .. Len(p) : g[n] = Heard(g[n - 1], p[n])
               /\ Served(symbols, p) = g[Len(p)]
  BY ServedIs
<1> DEFINE T == {n \in 0 .. Len(p) : g[n] \subseteq Symbols}
<1>2. 0 \in T
  BY <1>1
<1>3. ASSUME NEW n \in 1 .. Len(p), n - 1 \in T
      PROVE  n \in T
  <2>1. g[n - 1] \subseteq Symbols /\ n \in 0 .. Len(p) /\ p[n] \in Messages
    BY <1>3
  <2>2. p[n].symbols \subseteq Symbols
    BY <2>1 DEF Messages
  <2>3. Heard(g[n - 1], p[n]) \subseteq Symbols
    BY <2>1, <2>2 DEF Heard
  <2> QED  BY <2>1, <2>3, <1>1
<1> HIDE DEF T
<1>4. \A n \in 0 .. Len(p) : n \in T
  <2>1. Len(p) \in Nat
    OBVIOUS
  <2> QED  BY <2>1, <1>2, <1>3, Induction
<1>5. Len(p) \in T
  BY <1>4
<1> QED  BY <1>1, <1>5 DEF T

(* Asking again for what is subscribed, as often as reconnects wait.       *)
LEMMA ServedAgain ==
  ASSUME NEW symbols, subscribed \subseteq Symbols, NEW times \in Nat
  PROVE  /\ Again(times) \in Seq(Messages)
         /\ symbols \subseteq subscribed /\ (times # 0 \/ symbols = subscribed) =>
              Served(symbols, Again(times)) = subscribed
<1>1. SubscribeTo(subscribed) \in Messages
  BY DEF SubscribeTo, Message, Messages
<1>2. CASE subscribed = {}
  <2>1. Again(times) = <<>>
    BY <1>2 DEF Again
  <2> QED  BY <1>2, <2>1, ServedNone
<1>3. CASE subscribed # {}
  <2> DEFINE ms == [i \in 1 .. times |-> SubscribeTo(subscribed)]
             h  == [n \in 0 .. times |-> IF n = 0 THEN symbols ELSE symbols \cup subscribed]
  <2>1. Again(times) = ms
    BY <1>3 DEF Again
  <2>2. ms \in Seq(Messages) /\ Len(ms) = times /\ \A i \in 1 .. times : ms[i] = SubscribeTo(subscribed)
    BY <1>1
  <2>3. h[0] = symbols /\ \A n \in 1 .. times : h[n] = symbols \cup subscribed
    OBVIOUS
  <2> HIDE DEF h, ms
  <2>4. ASSUME NEW n \in 1 .. Len(ms)
        PROVE  h[n] = Heard(h[n - 1], ms[n])
    <3>1. n \in 1 .. times /\ (n - 1 = 0 \/ n - 1 \in 1 .. times)
      BY <2>2
    <3>2. h[n - 1] \cup subscribed = symbols \cup subscribed
      BY <3>1, <2>3
    <3>3. Heard(h[n - 1], ms[n]) = h[n - 1] \cup subscribed
      BY <3>1, <2>2 DEF Heard, SubscribeTo, Message
    <3> QED  BY <3>1, <3>2, <3>3, <2>3
  <2>5. Served(symbols, ms) = h[Len(ms)]
    BY <2>2, <2>3, <2>4, ServedBy
  <2>6. CASE times = 0
    BY <2>1, <2>2, <2>3, <2>5, <2>6
  <2>7. CASE times # 0
    <3>1. h[times] = symbols \cup subscribed
      BY <2>7, <2>3
    <3> QED  BY <2>1, <2>2, <2>5, <3>1
  <2> QED  BY <2>6, <2>7
<1> QED  BY <1>2, <1>3

----------------------------------------------------------------------------
(* What a connected client is served.                                      *)

Live == authenticated /\ socket # 0 /\ ready[socket] = "open"

GreetedOnce ==
  /\ welcomed \subseteq 1 .. made
  /\ authenticated => socket # 0
  /\ socket # 0 => (socket \in welcomed <=> authenticated)
  /\ \A s \in Sockets \ welcomed : asked[s] = {}
OpenerIsHeld ==
  socket # 0 =>
    /\ awaiting[socket] \in {"connect", "reconnect"}
    /\ ready[socket] = "connecting" => resolver = socket /\ ~authenticated
NothingHeldBack == ~throttled /\ ~throttleTimer
LiveIsServed == Live => pending = <<>> /\ asked[socket] = subscribed
QueueAsksWanted == Served({}, pending) \subseteq subscribed
FirstQueueIsAll ==
  made = 0 \/ (socket # 0 /\ awaiting[socket] = "connect" /\ ~authenticated) =>
    Served({}, pending) = subscribed
ReconnectWaits ==
  socket # 0 /\ ready[socket] = "open" /\ ~authenticated /\ awaiting[socket] = "reconnect" =>
    waiters # 0

Carried ==
  /\ GreetedOnce /\ OpenerIsHeld /\ NothingHeldBack
  /\ LiveIsServed /\ QueueAsksWanted /\ FirstQueueIsAll /\ ReconnectWaits

WireTypes ==
  /\ pending \in Seq(Messages) /\ subscribed \subseteq Symbols
  /\ asked \in [Sockets -> SUBSET Symbols]
  /\ awaiting \in [Sockets -> {"none", "connect", "reconnect"}]
  /\ waiters \in Nat

LoneInv == LinkInv /\ retries = 0
Clean == WireTypes /\ LoneInv /\ Carried
CarryInv ==
  /\ retries \in Nat /\ limits \in Nat
  /\ detail \in Symbols \cup {NoSymbol}
  /\ Undisturbed => Clean

(* Messages that are sent or queued as the pages' wishes change leave nobody unserved: what a
   live socket has been asked for follows the wishes, and so does the queue. *)
LEMMA SendCarries ==
  ASSUME Clean, NEW ms \in Seq(Messages), Send(ms), subscribed' = Served(subscribed, ms),
         UNCHANGED <<networkVars, linkVars, guardVars, historyVars, throttled>>
  PROVE  Clean'
<1>1. LoneInv'
  BY QuietKeeps DEF Clean, LoneInv, networkVars, linkVars, guardVars, historyVars
<1>2. UNCHANGED <<made, ready, awaiting, welcomed, socket, resolver, waiters, authenticated>>
  BY DEF networkVars, linkVars
<1>3. ~throttled /\ ~throttled' /\ ~throttleTimer
  BY DEF Clean, Carried, NothingHeldBack
<1>4. CanSend(authenticated) <=> Live
  BY <1>3 DEF CanSend, Live
<1>5. subscribed' \subseteq Symbols
  BY ServedKnown DEF Clean, WireTypes
<1>6. Live' <=> Live
  BY <1>2 DEF Live
<1>7. OpenerIsHeld' /\ ReconnectWaits'
  BY <1>2 DEF Clean, Carried, OpenerIsHeld, ReconnectWaits
<1>8. CASE Live
  <2>1. /\ asked' = [asked EXCEPT ![socket] = Served(@, ms)]
        /\ pending' = pending /\ throttleTimer' = throttleTimer
    BY <1>4, <1>8 DEF Send
  <2>2. socket \in Sockets /\ asked[socket] = subscribed /\ pending = <<>>
    BY <1>8, HeldIsSocket DEF Clean, LoneInv, Carried, LiveIsServed, Live
  <2>3. asked'[socket] = subscribed' /\ asked' \in [Sockets -> SUBSET Symbols]
    BY <2>1, <2>2, <1>5 DEF Clean, WireTypes
  <2>4. WireTypes'
    BY <2>1, <2>3, <1>2, <1>5 DEF Clean, WireTypes
  <2>5. GreetedOnce'
    BY <1>2, <1>8, <2>1, <2>2 DEF Clean, Carried, WireTypes, GreetedOnce, Live
  <2>6. NothingHeldBack' /\ LiveIsServed'
    BY <1>2, <1>3, <2>1, <2>2, <2>3 DEF NothingHeldBack, LiveIsServed
  <2>7. Served({}, pending') = {}
    BY <2>1, <2>2, ServedNone
  <2>8. QueueAsksWanted'
    BY <2>7 DEF QueueAsksWanted
  <2>9. FirstQueueIsAll'
    BY <1>2, <1>8 DEF Clean, LoneInv, LinkInv, LinkTypes, Live, FirstQueueIsAll
  <2> QED  BY <1>1, <1>7, <2>4, <2>5, <2>6, <2>8, <2>9 DEF Clean, Carried
<1>9. CASE ~Live
  <2>1. pending' = pending \o ms /\ asked' = asked /\ ~throttleTimer'
    BY <1>3, <1>4, <1>9 DEF Send
  <2>2. WireTypes'
    BY <2>1, <1>2, <1>5 DEF Clean, WireTypes
  <2>3. GreetedOnce' /\ NothingHeldBack' /\ LiveIsServed'
    BY <1>2, <1>3, <1>6, <1>9, <2>1
       DEF Clean, Carried, GreetedOnce, NothingHeldBack, LiveIsServed
  <2>4. Served({}, pending') = Served(Served({}, pending), ms)
    BY <2>1, ServedConcat DEF Clean, WireTypes
  <2>5. QueueAsksWanted'
    <3>1. Served({}, pending) \subseteq subscribed
      BY DEF Clean, Carried, QueueAsksWanted
    <3>2. Served(Served({}, pending), ms) \subseteq Served(subscribed, ms)
      BY <3>1, ServedMonotone
    <3> QED  BY <2>4, <3>2 DEF QueueAsksWanted
  <2>6. FirstQueueIsAll'
    BY <1>2, <2>4 DEF Clean, Carried, FirstQueueIsAll
  <2> QED  BY <1>1, <1>7, <2>2, <2>3, <2>5, <2>6 DEF Clean, Carried
<1> QED  BY <1>8, <1>9

(* A socket made while none is held: nothing has been asked for on it.     *)
LEMMA OpeningCarries ==
  ASSUME Clean, NEW who \in {"connect", "reconnect"}, OpenSocket(who), socket = 0, LoneInv',
         ready' = [ready EXCEPT ![made + 1] = "connecting"],
         who = "connect" => made = 0,
         UNCHANGED <<welcomed, waiters, sendVars, throttled, subscribed>>
  PROVE  Clean'
<1>1. made \in Nat /\ made + 1 \in Sockets /\ made' = made + 1 /\ socket' = made + 1
  BY Bounded DEF OpenSocket, Sockets, Clean, LoneInv, LinkInv, LinkTypes
<1>2. resolver' = socket' /\ ~authenticated' /\ awaiting' = [awaiting EXCEPT ![made + 1] = who]
  BY DEF OpenSocket
<1>3. ready'[made + 1] = "connecting" /\ awaiting'[made + 1] = who
  BY <1>1, <1>2 DEF Clean, LoneInv, LinkInv, LinkTypes, WireTypes
<1>4. UNCHANGED <<pending, asked, throttleTimer>>
  BY DEF sendVars
<1>5. WireTypes'
  BY <1>1, <1>2, <1>4 DEF Clean, WireTypes
<1>6. GreetedOnce'
  BY <1>1, <1>2, <1>4 DEF Clean, Carried, GreetedOnce
<1>7. OpenerIsHeld' /\ NothingHeldBack'
  BY <1>1, <1>2, <1>3, <1>4 DEF Clean, Carried, OpenerIsHeld, NothingHeldBack
<1>8. LiveIsServed' /\ QueueAsksWanted' /\ ReconnectWaits'
  BY <1>1, <1>2, <1>3, <1>4
     DEF Clean, Carried, LiveIsServed, Live, QueueAsksWanted, ReconnectWaits
<1>9. FirstQueueIsAll'
  BY <1>1, <1>2, <1>3, <1>4 DEF Clean, Carried, FirstQueueIsAll
<1> QED  BY <1>5, <1>6, <1>7, <1>8, <1>9 DEF Clean, Carried

(* A connection that ends or begins to: nothing is sent, and nobody is live. *)
LEMMA EndCarries ==
  ASSUME Clean, LoneInv', made # 0, ~Live',
         UNCHANGED <<made, awaiting, welcomed, waiters, asked, pending, throttled, subscribed>>,
         ~throttleTimer',
         \/ socket' = 0 /\ ~authenticated'
         \/ /\ socket' = socket /\ authenticated' = authenticated
            /\ ready'[socket] = "closing"
  PROVE  Clean'
<1>1. WireTypes'
  BY DEF Clean, WireTypes
<1>2. GreetedOnce'
  BY DEF Clean, Carried, GreetedOnce
<1>3. OpenerIsHeld' /\ NothingHeldBack'
  BY DEF Clean, Carried, OpenerIsHeld, NothingHeldBack
<1>4. LiveIsServed' /\ QueueAsksWanted' /\ ReconnectWaits'
  BY DEF Clean, Carried, LiveIsServed, QueueAsksWanted, ReconnectWaits
<1>5. FirstQueueIsAll'
  BY DEF Clean, Carried, FirstQueueIsAll
<1> QED  BY <1>1, <1>2, <1>3, <1>4, <1>5 DEF Clean, Carried

(* The greeting serves everything: the queue of a first connection, or what the reconnect
   behind it asks again after a queue that asked for no more. *)
LEMMA GreetingCarries ==
  ASSUME Clean, NEW s \in Sockets, Connected(s), LoneInv'
  PROVE  Clean'
<1>1. s = socket /\ socket # 0 /\ socket \in Sockets /\ ready[socket] = "open"
  BY DEF Connected, Clean, LoneInv, LinkInv, FirstReporterIsHeld, Reporting, Sockets
<1>2. ~authenticated /\ asked[socket] = {} /\ ~throttled /\ ~throttleTimer
  BY <1>1 DEF Connected, Clean, Carried, GreetedOnce, NothingHeldBack
<1>3. CanSend(TRUE)
  BY <1>1, <1>2 DEF CanSend
<1>4. /\ asked' = [asked EXCEPT ![socket] = Served(@, pending \o Again(waiters))]
      /\ pending' = <<>> /\ throttleTimer' = throttleTimer
  BY <1>3 DEF Connected, FlushThenSend
<1>5. /\ authenticated' = TRUE /\ waiters' = 0 /\ welcomed' = welcomed \cup {socket}
      /\ UNCHANGED <<made, ready, awaiting, socket, resolver, throttled, subscribed>>
  BY <1>1 DEF Connected
<1>6. Served({}, pending \o Again(waiters)) = subscribed
  <2>1. Again(waiters) \in Seq(Messages) /\ pending \in Seq(Messages)
    BY ServedAgain DEF Clean, WireTypes
  <2>2. Served({}, pending \o Again(waiters)) = Served(Served({}, pending), Again(waiters))
    BY <2>1, ServedConcat
  <2>3. Served({}, pending) \subseteq subscribed
    BY DEF Clean, Carried, QueueAsksWanted
  <2>4. waiters # 0 \/ Served({}, pending) = subscribed
    BY <1>1, <1>2 DEF Clean, Carried, OpenerIsHeld, FirstQueueIsAll, ReconnectWaits
  <2>5. subscribed \subseteq Symbols /\ waiters \in Nat
    BY DEF Clean, WireTypes
  <2> HIDE DEF Served
  <2> DEFINE have == Served({}, pending)
  <2>6. Served(have, Again(waiters)) = subscribed
    <3>1. have \subseteq subscribed /\ (waiters # 0 \/ have = subscribed)
      BY <2>3, <2>4
    <3> HIDE DEF have
    <3> QED  BY <3>1, <2>5, ServedAgain
  <2> QED  BY <2>2, <2>6
<1>7. asked'[socket] = subscribed /\ asked' \in [Sockets -> SUBSET Symbols]
  BY <1>1, <1>2, <1>4, <1>6 DEF Clean, WireTypes
<1>8. WireTypes'
  <2>1. <<>> \in Seq(Messages)
    OBVIOUS
  <2> QED  BY <2>1, <1>4, <1>5, <1>7 DEF Clean, WireTypes
<1>9. GreetedOnce'
  <2>1. socket \in 1 .. made
    BY <1>1 DEF Clean, LoneInv, LinkInv, LinkTypes
  <2> QED  BY <2>1, <1>1, <1>4, <1>5 DEF Clean, Carried, WireTypes, GreetedOnce
<1>10. OpenerIsHeld' /\ NothingHeldBack' /\ LiveIsServed'
  BY <1>1, <1>2, <1>4, <1>5, <1>7
     DEF Clean, Carried, OpenerIsHeld, NothingHeldBack, LiveIsServed
<1>11. Served({}, pending') = {}
  BY <1>4, ServedNone
<1>12. made # 0
  BY <1>1 DEF Clean, LoneInv, LinkInv, LinkTypes
<1>13. QueueAsksWanted' /\ FirstQueueIsAll' /\ ReconnectWaits'
  BY <1>5, <1>11, <1>12 DEF QueueAsksWanted, FirstQueueIsAll, ReconnectWaits
<1> QED  BY <1>8, <1>9, <1>10, <1>13 DEF Clean, Carried

(* A socket that opens: behind a reconnect's, the reconnect now waits for the greeting. *)
LEMMA OpensCarries ==
  ASSUME Clean, NEW s \in Sockets, SocketOpens(s), LoneInv'
  PROVE  Clean'
<1>1. s = socket /\ socket # 0 /\ socket \in Sockets /\ ready[socket] = "connecting"
  BY DEF SocketOpens, Clean, LoneInv, LinkInv, FirstReporterIsHeld, Reporting, Sockets
<1>2. resolver = socket /\ ~authenticated /\ awaiting[socket] \in {"connect", "reconnect"}
  BY <1>1 DEF Clean, Carried, OpenerIsHeld
<1>3. /\ UNCHANGED <<pending, asked, throttleTimer>>
      /\ waiters' = IF awaiting[socket] = "reconnect" THEN waiters + 1 ELSE waiters
  BY <1>1, <1>2 DEF SocketOpens, sendVars
<1>4. /\ ready'[socket] = "open"
      /\ UNCHANGED <<made, awaiting, welcomed, socket, authenticated, throttled, subscribed>>
  BY <1>1 DEF SocketOpens, Clean, LoneInv, LinkInv, LinkTypes
<1>5. WireTypes'
  BY <1>3, <1>4 DEF Clean, WireTypes
<1>6. GreetedOnce' /\ OpenerIsHeld' /\ NothingHeldBack'
  BY <1>3, <1>4 DEF Clean, Carried, GreetedOnce, OpenerIsHeld, NothingHeldBack
<1>7. LiveIsServed' /\ QueueAsksWanted' /\ FirstQueueIsAll'
  BY <1>2, <1>3, <1>4 DEF Clean, Carried, LiveIsServed, Live, QueueAsksWanted, FirstQueueIsAll
<1>8. ReconnectWaits'
  BY <1>2, <1>3, <1>4 DEF Clean, WireTypes, ReconnectWaits
<1> QED  BY <1>5, <1>6, <1>7, <1>8 DEF Clean, Carried

(* A rejection comes on the live socket, and takes the symbol from both sets. *)
LEMMA RejectionCarries ==
  ASSUME Clean, NEW s \in Sockets, NEW symbol \in Symbols, Rejected(s, symbol), LoneInv'
  PROVE  Clean'
<1>1. s = socket /\ socket # 0 /\ ready[socket] = "open"
  BY DEF Rejected, Clean, LoneInv, LinkInv, FirstReporterIsHeld, Reporting, Sockets
<1>2. authenticated
  BY <1>1 DEF Rejected, Clean, Carried, GreetedOnce
<1>3. pending = <<>> /\ asked[socket] = subscribed
  BY <1>1, <1>2 DEF Clean, Carried, LiveIsServed, Live
<1>4. /\ asked' = [asked EXCEPT ![socket] = @ \ {symbol}]
      /\ subscribed' = subscribed \ {symbol}
      /\ UNCHANGED <<made, ready, awaiting, welcomed, socket, resolver, waiters, authenticated,
                     pending, throttleTimer, throttled>>
  BY <1>1 DEF Rejected, networkVars, linkVars
<1>5. asked'[socket] = subscribed' /\ WireTypes'
  BY <1>1, <1>3, <1>4 DEF Clean, WireTypes
<1>6. GreetedOnce' /\ OpenerIsHeld' /\ NothingHeldBack'
  BY <1>1, <1>2, <1>4
     DEF Clean, Carried, WireTypes, GreetedOnce, OpenerIsHeld, NothingHeldBack
<1>7. LiveIsServed' /\ ReconnectWaits'
  BY <1>2, <1>3, <1>4, <1>5 DEF LiveIsServed, ReconnectWaits
<1>8. Served({}, pending') = {}
  BY <1>3, <1>4, ServedNone
<1>9. made # 0
  BY <1>1 DEF Clean, LoneInv, LinkInv, LinkTypes
<1>10. QueueAsksWanted' /\ FirstQueueIsAll'
  BY <1>2, <1>4, <1>8, <1>9 DEF QueueAsksWanted, FirstQueueIsAll
<1> QED  BY <1>5, <1>6, <1>7, <1>10 DEF Clean, Carried

(* Every step of the source that is neither a retry nor the gateway's limit keeps what is
   carried. *)
LEMMA SourceCarries ==
  ASSUME Clean, Source, ~Retry, \A s \in Sockets : ~RateLimited(s)
  PROVE  Clean'
<1>0. LoneInv'
  BY SourceKeeps, SourceCounts DEF Clean, LoneInv
<1>1. CASE Connect
  <2>1. socket = 0 /\ made = 0
    BY <1>1 DEF Connect, Clean, LoneInv, LinkInv, LinkTypes
  <2> QED
    BY <1>0, <1>1, <2>1, OpeningCarries DEF Connect
<1>2. ASSUME NEW s \in Sockets, SocketOpens(s)
      PROVE  Clean'
  BY <1>0, <1>2, OpensCarries
<1>3. ASSUME NEW s \in Sockets, Connected(s)
      PROVE  Clean'
  BY <1>0, <1>3, GreetingCarries
<1>4. ASSUME NEW s \in Sockets, NEW symbol \in Symbols, Rejected(s, symbol)
      PROVE  Clean'
  BY <1>0, <1>4, RejectionCarries
<1>5. ~throttleTimer /\ ~throttled
  BY DEF Clean, Carried, NothingHeldBack
<1>6. ASSUME NEW s \in Sockets, PeerCloses(s)
      PROVE  Clean'
  <2>1. s = socket /\ socket # 0 /\ made # 0
    BY <1>6 DEF PeerCloses, Clean, LoneInv, LinkInv, LinkTypes, FirstReporterIsHeld, Reporting, Sockets
  <2>2. /\ ready'[socket] = "closing"
        /\ UNCHANGED <<made, awaiting, welcomed, waiters, asked, pending, throttleTimer,
                       throttled, subscribed, socket, authenticated>>
    BY <1>6, <2>1 DEF PeerCloses, linkVars, sendVars, Clean, LoneInv, LinkInv, LinkTypes
  <2>3. ~Live'
    BY <2>2 DEF Live
  <2> QED  BY <1>0, <1>5, <2>1, <2>2, <2>3, EndCarries
<1>7. ASSUME NEW s \in Sockets, NEW code \in Codes, CloseEvent(s, code)
      PROVE  Clean'
  <2>1. s = socket /\ socket # 0 /\ made # 0
    BY <1>7 DEF CloseEvent, Clean, LoneInv, LinkInv, LinkTypes, FirstReporterIsHeld, Reporting, Sockets
  <2>2. /\ socket' = 0 /\ ~authenticated' /\ ~throttleTimer'
        /\ UNCHANGED <<made, awaiting, welcomed, waiters, asked, pending, throttled, subscribed>>
    BY <1>7 DEF CloseEvent, HandleClose
  <2>3. ~Live'
    BY <2>2 DEF Live
  <2> QED  BY <1>0, <2>1, <2>2, <2>3, EndCarries
<1>8. CASE WatchdogFires
  <2>1. socket # 0 /\ socket \in Sockets /\ ready[socket] \in {"open", "closing"}
    BY <1>8, HeldIsSocket DEF WatchdogFires, Clean, LoneInv, LinkInv, TimersGuardCurrent
  <2>2. /\ ready'[socket] = "closing"
        /\ UNCHANGED <<made, awaiting, welcomed, waiters, asked, pending, throttleTimer,
                       throttled, subscribed, socket, authenticated>>
    BY <1>8, <2>1 DEF WatchdogFires, ForceLocalClose, Closing, Clean, LoneInv, LinkInv, LinkTypes
  <2>3. ~Live' /\ made # 0
    BY <2>1, <2>2 DEF Live, Clean, LoneInv, LinkInv, LinkTypes
  <2> QED  BY <1>0, <1>5, <2>2, <2>3, EndCarries
<1>9. CASE Ping
  <2> DEFINE ping == Message("ping", {})
  <2>1. ping \in Messages /\ <<ping>> \in Seq(Messages)
    BY DEF Message, Messages
  <2>2. Served(subscribed, <<ping>>) = subscribed
    <3>1. Served(subscribed, <<ping>>) = Heard(subscribed, ping)
      BY <2>1, ServedOne
    <3> QED  BY <3>1 DEF Heard, Message
  <2> HIDE DEF ping
  <2>3. Send(<<ping>>) /\ subscribed' = subscribed
    BY <1>9 DEF Ping, ping
  <2> QED
    BY <1>9, <2>1, <2>2, <2>3, SendCarries DEF Ping
<1>10. CASE WindowEnds \/ ThrottleTimerFires
  BY <1>5, <1>10 DEF WindowEnds, ThrottleTimerFires
<1>11. CASE ReconnectTimerFires
  <2>1. socket = 0 /\ made # 0
    BY <1>11 DEF ReconnectTimerFires, Clean, LoneInv, LinkInv, ReconnectsWithout
  <2> QED
    BY <1>0, <1>11, <2>1, OpeningCarries DEF ReconnectTimerFires
<1> QED
  BY <1>1, <1>2, <1>3, <1>4, <1>6, <1>7, <1>8, <1>9, <1>10, <1>11 DEF Source, Network, Timers


----------------------------------------------------------------------------
(* The messages of the pages.                                              *)

(* What subscribing to some symbols and no longer to others does to the wishes. *)
LEMMA WishesOne ==
  ASSUME NEW wished, NEW symbols \in SUBSET Symbols
  PROVE  /\ <<SubscribeTo(symbols)>> \in Seq(Messages)
         /\ <<UnsubscribeFrom(symbols)>> \in Seq(Messages)
         /\ Served(wished, <<SubscribeTo(symbols)>>) = wished \cup symbols
         /\ Served(wished, <<UnsubscribeFrom(symbols)>>) = wished \ symbols
<1>1. SubscribeTo(symbols) \in Messages /\ UnsubscribeFrom(symbols) \in Messages
  BY DEF SubscribeTo, UnsubscribeFrom, Message, Messages
<1>2. /\ Heard(wished, SubscribeTo(symbols)) = wished \cup symbols
      /\ Heard(wished, UnsubscribeFrom(symbols)) = wished \ symbols
  BY DEF Heard, SubscribeTo, UnsubscribeFrom, Message
<1> QED  BY <1>1, <1>2, ServedOne

(* The clean-up of an effect before the next one.                          *)
LEMMA WishesSwitch ==
  ASSUME NEW wished, NEW old \in Symbols, NEW new \in Symbols
  PROVE  /\ SwitchCalls(old, new) \in Seq(Messages)
         /\ Served(wished, SwitchCalls(old, new)) = (wished \ {old}) \cup {new}
<1>1. SwitchCalls(old, new) = <<UnsubscribeFrom({old})>> \o <<SubscribeTo({new})>>
  BY DEF SwitchCalls
<1>2. {old} \in SUBSET Symbols /\ {new} \in SUBSET Symbols
  OBVIOUS
<1>3. /\ <<UnsubscribeFrom({old})>> \in Seq(Messages)
      /\ Served(wished, <<UnsubscribeFrom({old})>>) = wished \ {old}
  BY <1>2, WishesOne
<1> DEFINE left == wished \ {old}
<1>4. /\ <<SubscribeTo({new})>> \in Seq(Messages)
      /\ Served(left, <<SubscribeTo({new})>>) = left \cup {new}
  BY <1>2, WishesOne
<1>5. Served(wished, <<UnsubscribeFrom({old})>> \o <<SubscribeTo({new})>>) =
        Served(Served(wished, <<UnsubscribeFrom({old})>>), <<SubscribeTo({new})>>)
  <2> DEFINE a == <<UnsubscribeFrom({old})>>
             b == <<SubscribeTo({new})>>
  <2>1. a \in Seq(Messages) /\ b \in Seq(Messages)
    BY <1>3, <1>4
  <2> HIDE DEF a, b
  <2>2. Served(wished, a \o b) = Served(Served(wished, a), b)
    BY <2>1, ServedConcat
  <2> QED  BY <2>2 DEF a, b
<1>6. SwitchCalls(old, new) \in Seq(Messages)
  BY <1>1, <1>3, <1>4
<1> QED  BY <1>1, <1>3, <1>4, <1>5, <1>6, Zenon

(* The clean-ups of the board and of the pane beside it.                   *)
LEMMA WishesLeave ==
  ASSUME NEW wished, NEW shown, NEW symbol \in Symbols \cup {NoSymbol}
  PROVE  LET messages == BoardSymbols(shown) \o DetailSymbol(symbol)
         IN  /\ messages \in Seq(Messages)
             /\ Served(wished, messages) =
                  (wished \ (IF shown THEN Universe ELSE {})) \ ({symbol} \ {NoSymbol})
<1> DEFINE left == wished \ (IF shown THEN Universe ELSE {})
<1>0. <<>> \in Seq(Messages)
  OBVIOUS
<1>1. BoardSymbols(shown) \in Seq(Messages) /\ Served(wished, BoardSymbols(shown)) = left
  <2>1. CASE shown
    <3>1. Universe \in SUBSET Symbols
      BY DEF Universe
    <3> QED  BY <2>1, <3>1, WishesOne DEF BoardSymbols
  <2>2. CASE ~shown
    BY <2>2, <1>0, ServedNone DEF BoardSymbols
  <2> QED  BY <2>1, <2>2
<1> HIDE DEF left
<1>2. /\ DetailSymbol(symbol) \in Seq(Messages)
      /\ Served(left, DetailSymbol(symbol)) = left \ ({symbol} \ {NoSymbol})
  <2>1. CASE symbol = NoSymbol
    <3>1. DetailSymbol(symbol) = <<>> /\ left \ ({symbol} \ {NoSymbol}) = left
      BY <2>1 DEF DetailSymbol
    <3> QED  BY <3>1, <1>0, ServedNone
  <2>2. CASE symbol # NoSymbol
    <3>1. {symbol} \in SUBSET Symbols /\ {symbol} \ {NoSymbol} = {symbol}
      BY <2>2
    <3>2. DetailSymbol(symbol) = <<UnsubscribeFrom({symbol})>>
      BY <2>2 DEF DetailSymbol
    <3>3. /\ <<UnsubscribeFrom({symbol})>> \in Seq(Messages)
          /\ Served(left, <<UnsubscribeFrom({symbol})>>) = left \ {symbol}
      BY <3>1, WishesOne
    <3> QED  BY <3>1, <3>2, <3>3
  <2> QED  BY <2>1, <2>2
<1>3. BoardSymbols(shown) \o DetailSymbol(symbol) \in Seq(Messages)
  BY <1>1, <1>2
<1>4. Served(wished, BoardSymbols(shown) \o DetailSymbol(symbol)) =
        Served(Served(wished, BoardSymbols(shown)), DetailSymbol(symbol))
  BY <1>1, <1>2, ServedConcat
<1> QED  BY <1>1, <1>2, <1>3, <1>4 DEF left

(* Each step of the pages calls the source with a list of messages, or not at all. *)
LEMMA PagesCall ==
  ASSUME detail \in Symbols \cup {NoSymbol}, Board \/ Detail
  PROVE  /\ detail' \in Symbols \cup {NoSymbol}
         /\ UNCHANGED vars \/ \E ms \in Seq(Messages) : Calls(ms)
<1>1. Universe \in SUBSET Symbols
  BY DEF Universe
<1>2. \A symbols \in SUBSET Symbols :
        /\ Subscribe(symbols) => \E ms \in Seq(Messages) : Calls(ms)
        /\ Unsubscribe(symbols) => \E ms \in Seq(Messages) : Calls(ms)
  BY WishesOne DEF Subscribe, Unsubscribe
<1>3. CASE BoardMounts \/ BoardRetries
  BY <1>1, <1>2, <1>3 DEF BoardMounts, BoardRetries, BoardLoads, NoCalls
<1>4. CASE UniverseArrives \/ UniverseFails
  BY <1>1, <1>2, <1>4 DEF UniverseArrives, UniverseFails, NoCalls
<1>5. CASE BoardUnmounts
  <2>1. BoardSymbols(board = "shown") \o DetailSymbol(detail) \in Seq(Messages)
    BY WishesLeave
  <2> QED  BY <1>5, <2>1 DEF BoardUnmounts
<1>6. CASE DetailCloses
  <2>1. {detail} \in SUBSET Symbols
    BY <1>6 DEF DetailCloses
  <2> QED  BY <1>2, <1>6, <2>1 DEF DetailCloses
<1>7. ASSUME NEW symbol \in Symbols, DetailOpens(symbol)
      PROVE  /\ detail' \in Symbols \cup {NoSymbol}
             /\ \E ms \in Seq(Messages) : Calls(ms)
  <2>1. CASE detail = NoSymbol
    <3>1. {symbol} \in SUBSET Symbols
      OBVIOUS
    <3> QED  BY <1>2, <1>7, <2>1, <3>1 DEF DetailOpens
  <2>2. CASE detail # NoSymbol
    BY <1>7, <2>2, WishesSwitch DEF DetailOpens
  <2> QED  BY <2>1, <2>2
<1> QED  BY <1>3, <1>4, <1>5, <1>6, <1>7 DEF Board, Detail

(* Every step keeps what is carried, until the user retries or the gateway limits. *)
LEMMA CarryKeeps ==
  ASSUME CarryInv, [PagesNext]_allVars
  PROVE  CarryInv'
<1>1. CASE UNCHANGED allVars
  <2>1. UNCHANGED <<retries, limits, detail>>
    BY <1>1 DEF allVars, vars, historyVars, pageVars
  <2>2. Clean => Clean'
    <3>1. Clean => LoneInv'
      BY <1>1, QuietKeeps DEF Clean, LoneInv, historyVars, allVars, vars, networkVars, linkVars, guardVars
    <3> QED
      BY <1>1, <3>1
         DEF Clean, Carried, WireTypes, GreetedOnce, OpenerIsHeld, NothingHeldBack, Live,
             LiveIsServed, QueueAsksWanted, FirstQueueIsAll, ReconnectWaits, allVars, vars,
             networkVars, linkVars, sendVars
  <2> QED  BY <2>1, <2>2 DEF CarryInv, Undisturbed
<1>2. CASE Board \/ Detail
  <2>1. detail' \in Symbols \cup {NoSymbol}
    BY <1>2, PagesCall DEF CarryInv
  <2>2. CASE UNCHANGED vars
    <3>1. UNCHANGED <<retries, limits>>
      BY <2>2 DEF vars, historyVars
    <3>2. Clean => Clean'
      <4>1. Clean => LoneInv'
        BY <2>2, CallsKeep DEF Clean, LoneInv, vars, historyVars
      <4> QED
        BY <2>2, <4>1
           DEF Clean, Carried, WireTypes, GreetedOnce, OpenerIsHeld, NothingHeldBack, Live,
               LiveIsServed, QueueAsksWanted, FirstQueueIsAll, ReconnectWaits, vars,
               networkVars, linkVars, sendVars
    <3> QED  BY <2>1, <3>1, <3>2 DEF CarryInv, Undisturbed
  <2>3. ASSUME NEW ms \in Seq(Messages), Calls(ms)
        PROVE  CarryInv'
    <3>1. UNCHANGED <<retries, limits>>
      BY <2>3 DEF Calls, historyVars
    <3>2. Clean => Clean'
      BY <2>3, SendCarries DEF Calls
    <3> QED  BY <2>1, <3>1, <3>2 DEF CarryInv, Undisturbed
  <2> QED  BY <1>2, <2>2, <2>3, PagesCall DEF CarryInv
<1>3. CASE Source /\ UNCHANGED pageVars
  <2>1. UNCHANGED detail
    BY <1>3 DEF pageVars
  <2>2. CASE Retry
    BY <2>1, <2>2 DEF Retry, CarryInv, Undisturbed
  <2>3. ASSUME NEW s \in Sockets, RateLimited(s)
        PROVE  CarryInv'
    BY <2>1, <2>3 DEF RateLimited, CarryInv, Undisturbed
  <2>4. CASE ~Retry /\ \A s \in Sockets : ~RateLimited(s)
    <3>1. UNCHANGED <<retries, limits>>
      BY <1>3, <2>4
         DEF Source, Network, Timers, Connect, SocketOpens, Connected, PeerCloses, Rejected,
             CloseEvent, WatchdogFires, Ping, WindowEnds, ThrottleTimerFires,
             ReconnectTimerFires, historyVars
    <3>2. Clean => Clean'
      BY <1>3, <2>4, SourceCarries
    <3> QED  BY <2>1, <3>1, <3>2 DEF CarryInv, Undisturbed
  <2> QED  BY <2>2, <2>3, <2>4
<1> QED  BY <1>1, <1>2, <1>3 DEF PagesNext

(* Nothing has been asked for before there is a socket.                    *)
LEMMA CarryBegins ==
  ASSUME PagesInit
  PROVE  CarryInv
<1>1. LinkInv
  BY PagesBegin
<1>2. pending = <<>> /\ <<>> \in Seq(Messages) /\ subscribed = {}
  BY DEF PagesInit, Init
<1>3. WireTypes
  BY <1>2 DEF PagesInit, Init, WireTypes
<1>4. Served({}, pending) = {}
  BY <1>2, ServedNone
<1>5. GreetedOnce /\ OpenerIsHeld
  BY DEF PagesInit, Init, GreetedOnce, OpenerIsHeld
<1>6. NothingHeldBack /\ LiveIsServed
  BY DEF PagesInit, Init, NothingHeldBack, LiveIsServed, Live
<1>7. QueueAsksWanted /\ FirstQueueIsAll /\ ReconnectWaits
  BY <1>2, <1>4 DEF PagesInit, Init, QueueAsksWanted, FirstQueueIsAll, ReconnectWaits
<1> QED
  BY <1>1, <1>3, <1>5, <1>6, <1>7 DEF CarryInv, Clean, LoneInv, Carried, PagesInit, Init

----------------------------------------------------------------------------
(* What the pages wish.                                                    *)

PaneWished == detail \in Universe => detail \in subscribed
StillWished ==
  /\ subscribed \subseteq (IF board = "shown" THEN Universe ELSE {}) \cup ({detail} \ {NoSymbol})
  /\ board = "away" => detail = NoSymbol
WishInv == detail \in Symbols \cup {NoSymbol} /\ PaneWished /\ StillWished

(* Every call of the pages keeps the wishes with what is mounted.          *)
LEMMA PagesWish ==
  ASSUME WishInv, Board \/ Detail
  PROVE  WishInv'
<1>1. Universe \in SUBSET Symbols
  BY DEF Universe
<1>2. \A symbols \in SUBSET Symbols :
        /\ Subscribe(symbols) => subscribed' = subscribed \cup symbols
        /\ Unsubscribe(symbols) => subscribed' = subscribed \ symbols
  BY WishesOne DEF Subscribe, Unsubscribe, Calls
<1>3. NoCalls => subscribed' = subscribed
  BY DEF NoCalls, vars
<1>4. detail' \in Symbols \cup {NoSymbol}
  BY PagesCall DEF WishInv
<1>5. CASE BoardMounts \/ BoardRetries
  BY <1>1, <1>2, <1>3, <1>5
     DEF BoardMounts, BoardRetries, BoardLoads, WishInv, PaneWished, StillWished
<1>6. CASE UniverseArrives
  BY <1>1, <1>2, <1>3, <1>6
     DEF UniverseArrives, WaitsForUniverse, WishInv, PaneWished, StillWished
<1>7. CASE UniverseFails
  BY <1>3, <1>7 DEF UniverseFails, AfterFailure, WishInv, PaneWished, StillWished
<1>8. CASE BoardUnmounts
  <2>1. subscribed' = Served(subscribed, BoardSymbols(board = "shown") \o DetailSymbol(detail))
    BY <1>8 DEF BoardUnmounts, Calls
  <2>2. subscribed' =
          (subscribed \ (IF board = "shown" THEN Universe ELSE {})) \ ({detail} \ {NoSymbol})
    <3>1. detail \in Symbols \cup {NoSymbol}
      BY DEF WishInv
    <3> DEFINE shown == board = "shown"
    <3>2. Served(subscribed, BoardSymbols(shown) \o DetailSymbol(detail)) =
            (subscribed \ (IF shown THEN Universe ELSE {})) \ ({detail} \ {NoSymbol})
      <4> HIDE DEF shown
      <4> QED  BY <3>1, WishesLeave
    <3> QED  BY <2>1, <3>2
  <2> QED
    BY <1>8, <2>2, PagesAssumption
       DEF BoardUnmounts, WishInv, PaneWished, StillWished, Universe
<1>9. CASE DetailCloses
  <2>1. {detail} \in SUBSET Symbols
    BY <1>9 DEF DetailCloses, WishInv
  <2>2. subscribed' = subscribed \ {detail}
    BY <1>2, <1>9, <2>1 DEF DetailCloses
  <2> QED
    BY <1>9, <2>2, PagesAssumption
       DEF DetailCloses, WishInv, PaneWished, StillWished, Universe
<1>10. ASSUME NEW symbol \in Symbols, DetailOpens(symbol)
       PROVE  WishInv'
  <2>1. CASE detail = NoSymbol
    <3>1. {symbol} \in SUBSET Symbols
      OBVIOUS
    <3>2. subscribed' = subscribed \cup {symbol}
      BY <1>2, <1>10, <2>1, <3>1 DEF DetailOpens
    <3> QED
      BY <1>10, <2>1, <3>2, PagesAssumption
         DEF DetailOpens, WishInv, PaneWished, StillWished
  <2>2. CASE detail # NoSymbol
    <3>1. subscribed' = (subscribed \ {detail}) \cup {symbol}
      BY <1>10, <2>2, WishesSwitch DEF DetailOpens, Calls, WishInv
    <3> QED
      BY <1>10, <2>2, <3>1, PagesAssumption
         DEF DetailOpens, WishInv, PaneWished, StillWished
  <2> QED  BY <2>1, <2>2
<1> QED  BY <1>5, <1>6, <1>7, <1>8, <1>9, <1>10 DEF Board, Detail

(* The source only takes back what the gateway has rejected.               *)
LEMMA WishesKeep ==
  ASSUME WishInv, [PagesNext]_allVars
  PROVE  WishInv'
<1>1. CASE UNCHANGED allVars
  BY <1>1 DEF allVars, vars, pageVars, WishInv, PaneWished, StillWished
<1>2. CASE Board \/ Detail
  BY <1>2, PagesWish
<1>3. CASE Source /\ UNCHANGED pageVars
  <2>1. subscribed' = subscribed \/ \E symbol \in Unknown : subscribed' = subscribed \ {symbol}
    BY <1>3
       DEF Source, Network, Timers, Connect, Retry, SocketOpens, Connected, RateLimited,
           PeerCloses, Rejected, CloseEvent, WatchdogFires, Ping, WindowEnds,
           ThrottleTimerFires, ReconnectTimerFires
  <2> QED  BY <1>3, <2>1 DEF pageVars, WishInv, PaneWished, StillWished, Universe
<1> QED  BY <1>1, <1>2, <1>3 DEF PagesNext

(* No page is mounted at first.                                            *)
LEMMA WishesBegin ==
  ASSUME PagesInit
  PROVE  WishInv
  BY PagesAssumption DEF PagesInit, Init, WishInv, PaneWished, StillWished, Universe

(* As long as the user does not retry and the gateway does not limit, a connected source that
   has nothing left to send has asked for exactly what the pages subscribe to: whatever
   connections were lost, at whatever point of a handshake, whatever was queued meanwhile and
   whatever the gateway rejected. *)
THEOREM SubscriptionsCarried == PagesSpec => []CarriesSubscriptions
<1>1. PagesInit => CarryInv
  BY CarryBegins
<1>2. CarryInv /\ [PagesNext]_allVars => CarryInv'
  BY CarryKeeps
<1>3. CarryInv => CarriesSubscriptions
  BY DEF CarryInv, Clean, Carried, LiveIsServed, Live, CarriesSubscriptions, Settled
<1> QED  BY <1>1, <1>2, <1>3, PTL DEF PagesSpec

(* In particular the symbol of the open pane, whatever the board beside it subscribes and
   unsubscribes. *)
THEOREM PaneIsCarried == PagesSpec => []DetailCarried
<1>1. PagesInit => CarryInv /\ WishInv
  BY CarryBegins, WishesBegin
<1>2. CarryInv /\ WishInv /\ [PagesNext]_allVars => CarryInv' /\ WishInv'
  BY CarryKeeps, WishesKeep
<1>3. CarryInv /\ WishInv => DetailCarried
  BY DEF CarryInv, Clean, Carried, LiveIsServed, Live, WishInv, PaneWished, DetailCarried, Settled
<1> QED  BY <1>1, <1>2, <1>3, PTL DEF PagesSpec

(* When the route is left nothing stays subscribed, whether the universe had arrived or not,
   and whichever symbols the pane has shown: the clean-ups take back all the effects asked. *)
THEOREM NothingIsLeft == PagesSpec => []NothingLeftSubscribed
<1>1. PagesInit => WishInv
  BY WishesBegin
<1>2. WishInv /\ [PagesNext]_allVars => WishInv'
  BY WishesKeep
<1>3. WishInv => NothingLeftSubscribed
  BY DEF WishInv, StillWished, NothingLeftSubscribed
<1> QED  BY <1>1, <1>2, <1>3, PTL DEF PagesSpec

=============================================================================
