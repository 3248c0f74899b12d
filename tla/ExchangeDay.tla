---------------------------- MODULE ExchangeDay ----------------------------
(***************************************************************************)
(* A day of the exchange: the publishing loop between the clock that says  *)
(* which phase the market is in, the governor that says how many events a  *)
(* batch owes, and the server that fans them out; and the host that starts *)
(* and stops them.  The governor is RateGovernor, called from the loop.    *)
(*                                                                         *)
(* A rate multiplier is a natural number, One being the multiplier 1.0, so *)
(* BaseRate is the number of parts per tick and per unit of multiplier.    *)
(***************************************************************************)
EXTENDS RateGovernor

CONSTANTS
  Settings,       \* of Mode and MaxEventsPerSecond, in parts per tick, that are tried
  Windows,        \* Phases: records of a phase, its start, its end and its multiplier
  One, BaseRate,  \* BaseEventsPerSecond, see above
  Cycle, ClosedTicks,      \* of a compressed day
  DayLength, Offset,       \* of the exchange's own day, and its time zone's
  MinBatchCapacity, MaxBatchCapacity,
  Patient         \* the host's shutdown timeout is never the first to end

Phases == {"Closed", "PreOpen", "OpeningAuction", "ContinuousMorning", "MiddayLull",
           "ContinuousAfternoon", "ClosingAuction"}

(* The rate of a phase, no higher than the ceiling.                        *)
Clamped(mult, most) == IF BaseRate * mult > most THEN most ELSE BaseRate * mult

(* What the options' validator admits, with a schedule (without one only the mode
   Continuous is, which never looks at it). *)
DayAssumption ==
  /\ Settings \subseteq [mode : {"Continuous", "CompressedDay", "Scheduled"}, ceiling : Nat]
  /\ \A w \in Windows :
       /\ w.phase \in Phases \ {"Closed"} /\ w.mult \in Nat \ {0}
       /\ w.start \in Nat /\ w.end \in Nat /\ w.start < w.end /\ w.end <= DayLength
  /\ \E w \in Windows : \A v \in Windows : w.start <= v.start
  /\ \E w \in Windows : \A v \in Windows : v.end <= w.end
  /\ \A v, w \in Windows : v # w => v.end <= w.start \/ w.end <= v.start
  /\ One \in Nat \ {0} /\ BaseRate \in Nat \ {0}
  /\ \A s \in Settings : BaseRate * One <= s.ceiling
  /\ Cycle \in Nat /\ ClosedTicks \in Nat /\ ClosedTicks < Cycle
  /\ DayLength \in Nat \ {0} /\ Offset \in Int
  /\ MinBatchCapacity \in Nat \ {0} /\ MaxBatchCapacity \in Nat /\ MinBatchCapacity <= MaxBatchCapacity
  /\ Patient \in BOOLEAN
  /\ \A s \in Settings, m \in {0, One} \cup {w.mult : w \in Windows} : Clamped(m, s.ceiling) \in Rates
ASSUME DayAssumption

VARIABLES
  mode, ceiling,         \* settings, read once
  anchor,                \* _anchor
  phase, multiplier,     \* CurrentPhase, CurrentRateMultiplier
  loop,                  \* where the publishing thread is
  count, emitted, auction,   \* its locals
  offered,               \* records handed to FeedServer.Publish
  listener,              \* FeedServer: "none", "bound" or "closed"
  stopping,              \* the stopping token
  crossed                \* the market changed since the last batch was scheduled

settings == <<mode, ceiling>>
market   == <<anchor, phase, multiplier>>
batch    == <<count, emitted, auction, offered>>
host     == <<listener, stopping>>
governor == <<call, rate, scheduleVars>>
dayVars  == <<clockVars, governor, settings, market, loop, batch, host, crossed>>

----------------------------------------------------------------------------
(* MarketSessionClock                                                      *)

Contains(w, t) == w.start <= t /\ t < w.end
First(ws) == CHOOSE w \in ws : \A v \in ws : w.start <= v.start
Last(ws)  == CHOOSE w \in ws : \A v \in ws : v.end <= w.end

LookUp(t) ==
  LET found == {w \in Windows : Contains(w, t)}
  IN  IF found = {} THEN [phase |-> "Closed", mult |-> 0]
      ELSE [phase |-> First(found).phase, mult |-> First(found).mult]

(* The cycle repeats from the anchor, before it as well: closed, then the whole
   session in what is left. *)
CompressedTimeOfDay(t, from) ==
  LET position == (t - from) % Cycle
      start    == First(Windows).start
      span     == Last(Windows).end - start
  IN  IF position < ClosedTicks THEN start - 1
      ELSE start + ((position - ClosedTicks) * span) \div (Cycle - ClosedTicks)

MarketAt(t, from) ==
  CASE mode = "Continuous"    -> [phase |-> "ContinuousMorning", mult |-> One]
    [] mode = "CompressedDay" -> LookUp(CompressedTimeOfDay(t, from))
    [] mode = "Scheduled"     -> LookUp((t + Offset) % DayLength)

Effective == Clamped(multiplier, ceiling)
IsAuctionPhase(p) == p \in {"OpeningAuction", "ClosingAuction"}

----------------------------------------------------------------------------
(* FeedPublisherService                                                    *)

Largest == (IF ceiling > BaseRate * One THEN ceiling ELSE BaseRate * One)
             * Interval * (1 + MaxCatchUp)

(* Mutant: the size is cast to an int without rounding up.                 *)
BatchCapacityTruncated ==
  IF Largest <= MinBatchCapacity * Unit THEN MinBatchCapacity
  ELSE IF Largest >= MaxBatchCapacity * Unit THEN MaxBatchCapacity
  ELSE Largest \div Unit

(* The buffer: what the fastest rate can owe in one batch, rounded up. *)
BatchCapacity ==
  IF Largest <= MinBatchCapacity * Unit THEN MinBatchCapacity
  ELSE IF Largest >= MaxBatchCapacity * Unit THEN MaxBatchCapacity
  ELSE (Largest + Unit - 1) \div Unit

DayInit ==
  /\ Init
  /\ \E s \in Settings : mode = s.mode /\ ceiling = s.ceiling
  /\ anchor = -1 /\ phase = "Closed" /\ multiplier = 0
  /\ loop = "none" /\ count = 0 /\ emitted = 0 /\ auction = FALSE /\ offered = 0
  /\ listener = "none" /\ stopping = FALSE /\ crossed = FALSE

(* The clock is set up: it keeps the time as its anchor and resolves a phase. *)
Construct ==
  /\ anchor = -1
  /\ anchor' = now
  /\ phase' = MarketAt(now, now).phase /\ multiplier' = MarketAt(now, now).mult
  /\ UNCHANGED <<clockVars, governor, settings, loop, batch, host, crossed>>

(* StartAsync: the listener is bound, or the host does not start; then the thread is
   started. *)
Bind ==
  /\ anchor # -1 /\ listener = "none"
  /\ listener' = "bound"
  /\ UNCHANGED <<clockVars, governor, settings, market, loop, batch, stopping, crossed>>

Launch ==
  /\ listener = "bound" /\ loop = "none"
  /\ loop' = "top"
  /\ UNCHANGED <<clockVars, governor, settings, market, batch, host, crossed>>

(* The clock of the system moves, over a boundary of the market or not, as long as
   anybody reads it. *)
Time ==
  /\ loop \notin {"ended", "failed"}
  /\ ClockAdvances \/ ClockSetBack
  /\ crossed' = (crossed \/ MarketAt(now', anchor) # MarketAt(now, anchor))
  /\ UNCHANGED <<settings, market, loop, batch, host>>

(* Mutant: a market that was closed is not looked at again.                *)
AdvanceOpenOnly ==
  /\ loop = "top" /\ ~stopping
  /\ LET at == IF rate = 0 /\ started THEN [phase |-> phase, mult |-> multiplier]
               ELSE MarketAt(now, anchor)
     IN  phase' = at.phase /\ multiplier' = at.mult
  /\ loop' = "asking"
  /\ UNCHANGED <<clockVars, governor, settings, anchor, batch, host, crossed>>

(* Run: the session clock is advanced before the batch is asked for ...    *)
Advance ==
  /\ loop = "top" /\ ~stopping
  /\ phase' = MarketAt(now, anchor).phase /\ multiplier' = MarketAt(now, anchor).mult
  /\ loop' = "asking"
  /\ UNCHANGED <<clockVars, governor, settings, anchor, batch, host, crossed>>

(* ... and the governor waits at the rate of that phase.                   *)
Ask ==
  /\ loop = "asking"
  /\ Call(Effective)
  /\ loop' = "pacing"
  /\ UNCHANGED <<settings, market, batch, host, crossed>>

Pace ==
  /\ loop = "pacing" /\ (Wait \/ WaitEnds)
  /\ UNCHANGED <<settings, market, loop, batch, host, crossed>>

(* The batch is due.  The token is looked at when there is nothing to wait for,
   not after a wait.  No events, no batch: round again. *)
BatchDue ==
  /\ loop = "pacing" /\ (call = "checking" => ~stopping)
  /\ Schedule
  /\ count' = total' - total
  /\ auction' = (count' > 0 /\ IsAuctionPhase(phase))
  /\ loop' = IF count' = 0 THEN "top" ELSE "emitting"
  /\ crossed' = FALSE
  /\ UNCHANGED <<settings, market, emitted, offered, host>>

(* Mutant: the buffer's length is taken for the size of every pass.        *)
TakeBuffer == BatchCapacity

Take == IF count - emitted < BatchCapacity THEN count - emitted ELSE BatchCapacity

(* A pass over the buffer: generate, stamp, publish.                       *)
Pass ==
  /\ loop = "emitting"
  /\ LET done == emitted + Take
     IN  /\ offered' = offered + Take
         /\ IF done < count
            THEN emitted' = done /\ UNCHANGED <<count, auction, loop>>
            ELSE emitted' = 0 /\ count' = 0 /\ auction' = FALSE /\ loop' = "top"
  /\ UNCHANGED <<clockVars, governor, settings, market, host, crossed>>

(* RunGuarded: a generator that throws ends the loop with an error.        *)
PassFails ==
  /\ loop = "emitting"
  /\ loop' = "failed"
  /\ UNCHANGED <<clockVars, governor, settings, market, batch, host, crossed>>

(* The token ends the loop at its top, or throws out of the wait.          *)
LoopEnds ==
  /\ stopping
  /\ \/ loop = "top" /\ UNCHANGED <<clockVars, governor>>
     \/ loop = "pacing" /\ Cancel
  /\ loop' = "ended"
  /\ UNCHANGED <<settings, market, batch, host, crossed>>

(* StopAsync, called by the host: the token is cancelled ...               *)
StopBegins ==
  /\ ~stopping /\ stopping' = TRUE
  /\ UNCHANGED <<clockVars, governor, settings, market, loop, batch, listener, crossed>>
UserStops == loop \notin {"none", "failed"} /\ StopBegins
FailureStops == loop = "failed" /\ StopBegins

(* Mutant: without the finally, a loop that failed keeps the server from stopping. *)
EndedWell == loop = "ended"

Ended == loop \in {"ended", "failed"} \/ ~Patient

(* ... and when the thread has ended, or the host's patience has, the server stops. *)
ServerStops ==
  /\ stopping /\ listener = "bound" /\ Ended
  /\ listener' = "closed"
  /\ UNCHANGED <<clockVars, governor, settings, market, loop, batch, stopping, crossed>>

Loop == Advance \/ Ask \/ Pace \/ BatchDue \/ Pass \/ PassFails \/ LoopEnds
DayNext ==
  \/ Time \/ Construct \/ Bind \/ Launch \/ Loop
  \/ UserStops \/ FailureStops \/ ServerStops
DaySpec == DayInit /\ [][DayNext]_dayVars

(* A thread that can go on does; the host stops when a service of its fails, and calls
   the second half of StopAsync when the first has returned. *)
FairDay ==
  /\ DaySpec
  /\ WF_dayVars(Loop) /\ WF_dayVars(FailureStops) /\ WF_dayVars(ServerStops)
----------------------------------------------------------------------------
(* Every variable holds a value of its kind.                               *)
DayTypeOK ==
  /\ [mode |-> mode, ceiling |-> ceiling] \in Settings
  /\ anchor \in Nat \cup {-1} /\ phase \in Phases /\ multiplier \in Nat
  /\ loop \in {"none", "top", "asking", "pacing", "emitting", "ended", "failed"}
  /\ {count, emitted, offered} \subseteq Nat
  /\ {auction, stopping, crossed} \subseteq BOOLEAN
  /\ listener \in {"none", "bound", "closed"}

(* Between batches everything that time and rates came to is published or is the fraction
   carried: several passes, a stop in the middle of them and a cancelled wait lose nothing
   and repeat nothing (FeedPublisherService.Run, RateGovernor.ScheduleBatch). *)
ScheduledIsPublished ==
  loop \in {"top", "asking", "pacing", "ended"} => offered * Unit + owed = credit

(* "It would put the multi-pass path on the opening auction": whatever phase, stall and
   fraction carried, a batch fits the buffer, unless its size was cut to the largest allowed
   (CalculateBatchCapacity). *)
OnePass == loop = "emitting" /\ Largest <= MaxBatchCapacity * Unit => count <= BatchCapacity

(* The error of deciding the rate and the stamp before the wait is at most one batch at a
   boundary: a batch scheduled when no boundary has passed since the one before has the rate
   and the stamp of the market as it is (Run, StampAuctionPrints). *)
StaleForOneBatch ==
  [][paidTicks' # paidTicks /\ ~crossed =>
       LET at == MarketAt(now, anchor)
       IN  rate = Clamped(at.mult, ceiling)
           /\ (loop' = "emitting" => auction' = IsAuctionPhase(at.phase))]_dayVars

(* "Outside session hours.  No events are emitted", by the fraction carried either. *)
ClosedIsQuiet == loop = "emitting" => phase # "Closed"

(* "The listener must be bound before the first batch is published and closed after the
   last one", which takes a host whose shutdown timeout is never the first to end. *)
ListenerCoversTape == [][offered' # offered => listener = "bound"]_dayVars

(* A loop that failed does not leave the port bound, nor does one that is stopped in the
   middle of a wait or of a batch. *)
StopReleasesListener == stopping \/ loop = "failed" ~> listener = "closed"
=============================================================================
