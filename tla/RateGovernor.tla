---------------------------- MODULE RateGovernor ----------------------------
(***************************************************************************)
(* The governor that paces the publishing loop: absolute deadlines, a      *)
(* fractional carry between batches, and a catch-up that is capped.        *)
(*                                                                         *)
(* Time is counted in clock ticks.  A rate is a number of parts of an      *)
(* event per tick, Unit parts making one event, so the carry that the code *)
(* keeps in a double is a natural number here.  The clock is the system's  *)
(* UTC clock, which may also be set back.                                  *)
(***************************************************************************)
EXTENDS Integers

CONSTANTS
  Interval,     \* _batchInterval, in ticks
  MaxCatchUp,   \* _maxCatchUpBatches
  Unit,         \* parts of one event
  Rates,        \* the rates the caller asks for, in parts per tick
  IntMax,       \* int.MaxValue
  Steps,        \* by how many ticks the clock moves forward at once
  StepsBack,    \* by how many it may be set back
  Horizon       \* bound: the clock never shows more than this

ASSUME GovernorAssumption ==
  /\ Interval \in Nat \ {0} /\ MaxCatchUp \in Nat
  /\ Unit \in Nat \ {0} /\ Rates \subseteq Nat /\ IntMax \in Nat \ {0}
  /\ Steps \subseteq Nat /\ StepsBack \subseteq Nat /\ Horizon \in Nat

VARIABLES
  now,             \* what GetUtcNow returns
  call,            \* the call in progress: "none", "checking", "waiting" or "due"
  rate,            \* its rate
  started, accruedThrough, nextDeadline, owed, total, lag, dropped,
  origin,          \* where the first schedule began
  peak,            \* the latest time the clock has shown
  credit,          \* parts of events earned so far, by time and rate
  paidTicks        \* ticks of time that were paid for

clockVars    == <<now, peak>>
scheduleVars == <<started, accruedThrough, nextDeadline, owed, total, lag, dropped, origin,
                  credit, paidTicks>>
vars == <<clockVars, call, rate, scheduleVars>>

Init ==
  /\ now = Interval /\ peak = now
  /\ call = "none" /\ rate = 0
  /\ started = FALSE /\ accruedThrough = 0 /\ nextDeadline = 0
  /\ owed = 0 /\ total = 0 /\ lag = 0 /\ dropped = 0
  /\ origin = 0 /\ credit = 0 /\ paidTicks = 0

----------------------------------------------------------------------------
(* The clock, which nobody in the program controls. *)
ClockAdvances ==
  /\ \E d \in Steps : now' = now + d /\ now' <= Horizon
  /\ peak' = IF now' > peak THEN now' ELSE peak
  /\ UNCHANGED <<call, rate, scheduleVars>>

ClockSetBack ==
  /\ \E d \in StepsBack : now' = now - d /\ now' >= Interval
  /\ UNCHANGED <<peak, call, rate, scheduleVars>>

(* WaitForNextBatchAsync: the first call establishes the schedule.         *)
Call(r) ==
  /\ call = "none"
  /\ rate' = r
  /\ call' = "checking"
  /\ started' = TRUE
  /\ IF started
     THEN UNCHANGED <<accruedThrough, nextDeadline, origin>>
     ELSE /\ accruedThrough' = now - Interval
          /\ nextDeadline' = now
          /\ origin' = now - Interval
  /\ UNCHANGED <<clockVars, owed, total, lag, dropped, credit, paidTicks>>

(* The deadline is ahead: delay and spin until a read of the clock reaches it. *)
Wait ==
  /\ call = "checking" /\ now < nextDeadline
  /\ call' = "waiting"
  /\ UNCHANGED <<clockVars, rate, scheduleVars>>

WaitEnds ==
  /\ call = "waiting" /\ now >= nextDeadline
  /\ call' = "due"
  /\ UNCHANGED <<clockVars, rate, scheduleVars>>

(* The token trips: nothing is scheduled. *)
Cancel ==
  /\ call \in {"checking", "waiting"}
  /\ call' = "none"
  /\ UNCHANGED <<clockVars, rate, scheduleVars>>

Behind(late) == late \div Interval

(* Mutant: the schedule is reset a batch too early.                        *)
AbandonedEarly(late) == Behind(late) >= MaxCatchUp

Abandoned(late) == Behind(late) > MaxCatchUp

(* The batch that is due and those missed before it, up to the cap. *)
Owing(late) == 1 + (IF Abandoned(late) THEN MaxCatchUp ELSE Behind(late))

Emitted(parts) == IF parts >= IntMax * Unit THEN IntMax ELSE parts \div Unit

Carried(parts) == parts - Emitted(parts) * Unit

(* ScheduleBatch at a reading of the clock. *)
ScheduleBatch(reading) ==
  LET late  == IF reading < nextDeadline THEN 0 ELSE reading - nextDeadline
      ticks == Interval * Owing(late)
      parts == owed + ticks * rate
  IN  /\ total' = total + Emitted(parts)
      /\ owed' = Carried(parts)
      /\ lag' = late
      /\ dropped' = IF Abandoned(late) THEN dropped + Behind(late) - MaxCatchUp ELSE dropped
      /\ accruedThrough' = IF Abandoned(late) THEN reading ELSE accruedThrough + ticks
      /\ nextDeadline' = accruedThrough' + Interval
      /\ credit' = credit + ticks * rate
      /\ paidTicks' = paidTicks + ticks

(* The call finds its batch due at once, or its wait is over.  After a wait
   the clock is read anew and may have been set back below the deadline.   *)
Schedule ==
  /\ call = "due" \/ (call = "checking" /\ now >= nextDeadline)
  /\ ScheduleBatch(now)
  /\ call' = "none"
  /\ UNCHANGED <<clockVars, rate, started, origin>>

Next ==
  \/ ClockAdvances \/ ClockSetBack
  \/ \E r \in Rates : Call(r)
  \/ Wait \/ WaitEnds \/ Cancel \/ Schedule

Spec == Init /\ [][Next]_vars
----------------------------------------------------------------------------
(* Every variable holds a value of its kind; no counter goes below zero.   *)
TypeOK ==
  /\ now \in Nat /\ peak \in Nat
  /\ call \in {"none", "checking", "waiting", "due"}
  /\ rate \in Nat
  /\ started \in BOOLEAN
  /\ accruedThrough \in Nat /\ nextDeadline \in Nat /\ origin \in Nat
  /\ owed \in Nat /\ total \in Nat /\ lag \in Nat /\ dropped \in Nat
  /\ credit \in Nat /\ paidTicks \in Nat

(* "Fractional events carried into the next batch.  Always in [0, 1)."     *)
CarryBelowOne == owed < Unit

(* No event is invented and none is lost to rounding: what was emitted and the
   fraction carried are what the time and the rates came to, whatever sequence
   of rates, stalls and cancelled waits there was. *)
ExactLongRun == total * Unit + owed = credit

(* No stretch of time is paid for twice, and none is left out unless a stall
   beyond the cap was counted as dropped; the count is at most a batch per stall
   too low, because a stall is rarely a whole number of intervals. *)
Lost == accruedThrough - origin - paidTicks
TimePaidOnce ==
  /\ started => nextDeadline = accruedThrough + Interval
  /\ dropped * Interval <= Lost /\ Lost <= 2 * dropped * Interval

(* Events are never emitted for time that the clock has not yet shown, even when
   it is set back between the end of the wait and the reading that schedules. *)
NeverAhead == started => accruedThrough <= peak

(* The inductive invariant of RateGovernorProofs: a call only goes on under a
   schedule, and one whose wait is over has seen its deadline on the clock. *)
CallInv ==
  /\ Interval <= now /\ now <= peak
  /\ call # "none" => started
  /\ call = "due" => nextDeadline <= peak
  /\ ~started => accruedThrough = origin /\ paidTicks = 0 /\ dropped = 0
IInv == TypeOK /\ ExactLongRun /\ TimePaidOnce /\ NeverAhead /\ CallInv

(* One call makes up for a stall or gives it up: the next batch is in the future. *)
CatchesUp == [][paidTicks' # paidTicks => nextDeadline' > now]_vars

(* A batch is at most the one due and MaxCatchUp more, at the rate of its call. *)
BurstCapped ==
  [][(total' - total) * Unit < Unit + (1 + MaxCatchUp) * Interval * rate]_vars
=============================================================================
