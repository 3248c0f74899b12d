--------------------------- MODULE ExchangeProofs ---------------------------
(***************************************************************************)
(* Theorems about RateGovernor, for every interval, cap, unit, set of      *)
(* rates and behaviour of the clock; about ExchangeDay, which calls it;    *)
(* and about FeedServer, which fans out what the day publishes, for any    *)
(* number of connections, any limit and any number of batches.  All the    *)
(* arithmetic of ScheduleBatch is in the first lemmas; the governor's      *)
(* invariant follows action by action.  The day implements the governor's  *)
(* specification, and so inherits all of that.                             *)
(***************************************************************************)
EXTENDS ExchangeDay, FeedServer, FiniteSetTheorems, TLAPS

(* What the quotient of a division says of the dividend.                   *)
LEMMA Quotient ==
  ASSUME NEW a \in Nat, NEW b \in Nat \ {0}
  PROVE  /\ a \div b \in Nat
         /\ (a \div b) * b <= a
         /\ a < (a \div b) * b + b
  OBVIOUS

(* What a batch emits never exceeds what is owed, and leaves less than one event
   unless it was clamped. *)
LEMMA EmittedBounds ==
  ASSUME NEW parts \in Nat
  PROVE  /\ Emitted(parts) \in Nat
         /\ Carried(parts) \in Nat
         /\ Emitted(parts) * Unit + Carried(parts) = parts
         /\ parts < IntMax * Unit => Carried(parts) < Unit
<1> USE GovernorAssumption
<1>1. /\ parts \div Unit \in Nat
      /\ (parts \div Unit) * Unit <= parts
      /\ parts < (parts \div Unit) * Unit + Unit
  BY Quotient
<1> DEFINE q == parts \div Unit
<1>2. q \in Nat /\ q * Unit \in Nat /\ q * Unit <= parts /\ parts < q * Unit + Unit
  BY <1>1
<1>3. IntMax * Unit \in Nat
  OBVIOUS
<1> HIDE DEF q
<1>4. CASE parts >= IntMax * Unit
  BY <1>3, <1>4 DEF Emitted, Carried
<1>5. CASE parts < IntMax * Unit
  <2>1. Emitted(parts) = q
    BY <1>3, <1>5 DEF Emitted, q
  <2> QED  BY <1>2, <2>1 DEF Carried
<1> QED  BY <1>3, <1>4, <1>5

(* The time a batch pays for: the lag and one interval, rounded down to whole
   intervals, when the stall is within the cap; the cap and what is counted as
   dropped, when it is not. *)
LEMMA OwingBounds ==
  ASSUME NEW late \in Nat
  PROVE  LET ticks == Interval * Owing(late)
             d == Behind(late) - MaxCatchUp
         IN  /\ Behind(late) \in Nat
             /\ ticks \in Nat /\ Interval <= ticks
             /\ ticks <= (1 + MaxCatchUp) * Interval
             /\ ~Abandoned(late) => ticks <= late + Interval /\ late < ticks
             /\ Abandoned(late) =>
                  /\ d \in Nat /\ 0 < d
                  /\ ticks + d * Interval <= late + Interval
                  /\ late + Interval < ticks + d * Interval + Interval
<1> USE GovernorAssumption
<1> DEFINE b == Behind(late)
<1>1. b \in Nat /\ b * Interval <= late /\ late < b * Interval + Interval
  BY Quotient DEF Behind
<1> HIDE DEF b
<1>2. CASE b > MaxCatchUp
  <2>1. Owing(late) = 1 + MaxCatchUp /\ Abandoned(late)
    BY <1>2 DEF Owing, Abandoned, b
  <2>2. b - MaxCatchUp \in Nat /\ 0 < b - MaxCatchUp
    BY <1>1, <1>2
  <2>3. Interval * (1 + MaxCatchUp) + (b - MaxCatchUp) * Interval = b * Interval + Interval
    BY <1>1
  <2>4. Interval <= Interval * (1 + MaxCatchUp) /\ Interval * (1 + MaxCatchUp) \in Nat
    OBVIOUS
  <2> QED  BY <1>1, <2>1, <2>2, <2>3, <2>4 DEF b
<1>3. CASE b <= MaxCatchUp
  <2>1. Owing(late) = 1 + b /\ ~Abandoned(late)
    BY <1>1, <1>3 DEF Owing, Abandoned, b
  <2>2. Interval * (1 + b) = b * Interval + Interval /\ b * Interval \in Nat
    BY <1>1
  <2>3. b * Interval <= MaxCatchUp * Interval
    BY <1>1, <1>3
  <2> QED  BY <1>1, <2>1, <2>2, <2>3 DEF b
<1> QED  BY <1>1, <1>2, <1>3

----------------------------------------------------------------------------
(* What one batch does to the accounts: it pays for some ticks, drops d     *)
(* intervals, and either follows its own schedule or restarts at the clock. *)
BatchOf(ticks, d) ==
  /\ ticks \in Nat /\ d \in Nat
  /\ Interval <= ticks /\ ticks <= (1 + MaxCatchUp) * Interval
  /\ paidTicks' = paidTicks + ticks
  /\ credit' = credit + ticks * rate
  /\ total' \in Nat /\ owed' \in Nat /\ lag' \in Nat
  /\ total' = total + Emitted(owed + ticks * rate)
  /\ owed' = Carried(owed + ticks * rate)
  /\ dropped' = dropped + d
  /\ nextDeadline' = accruedThrough' + Interval
  /\ \/ /\ d = 0
        /\ accruedThrough' = accruedThrough + ticks
        /\ accruedThrough' <= now \/ accruedThrough' <= nextDeadline
        /\ nextDeadline' > now
     \/ /\ 0 < d
        /\ accruedThrough' = now
        /\ accruedThrough + ticks + d * Interval <= now
        /\ now < accruedThrough + ticks + d * Interval + Interval

(* ScheduleBatch does that, whatever the clock reads when it is called.     *)
LEMMA BatchAccounts ==
  ASSUME TypeOK, nextDeadline = accruedThrough + Interval, ScheduleBatch(now)
  PROVE  \E ticks, d : BatchOf(ticks, d)
<1> USE GovernorAssumption
<1> DEFINE late  == IF now < nextDeadline THEN 0 ELSE now - nextDeadline
           ticks == Interval * Owing(late)
           parts == owed + ticks * rate
           over  == Behind(late) - MaxCatchUp
           d     == IF Abandoned(late) THEN over ELSE 0
<1>1. /\ now \in Nat /\ accruedThrough \in Nat /\ nextDeadline \in Nat
      /\ rate \in Nat /\ owed \in Nat /\ total \in Nat /\ dropped \in Nat
  BY DEF TypeOK
<1>2. late \in Nat
  BY <1>1
<1>3. /\ total' = total + Emitted(parts) /\ owed' = Carried(parts) /\ lag' = late
      /\ dropped' = IF Abandoned(late) THEN dropped + Behind(late) - MaxCatchUp ELSE dropped
      /\ accruedThrough' = IF Abandoned(late) THEN now ELSE accruedThrough + ticks
      /\ nextDeadline' = accruedThrough' + Interval
      /\ credit' = credit + ticks * rate
      /\ paidTicks' = paidTicks + ticks
  BY Zenon DEF ScheduleBatch
<1>4. /\ Behind(late) \in Nat
      /\ ticks \in Nat /\ Interval <= ticks
      /\ ticks <= (1 + MaxCatchUp) * Interval
      /\ ~Abandoned(late) => ticks <= late + Interval /\ late < ticks
      /\ Abandoned(late) =>
           /\ over \in Nat /\ 0 < over
           /\ ticks + over * Interval <= late + Interval
           /\ late + Interval < ticks + over * Interval + Interval
  BY <1>2, OwingBounds
<1>5. \/ late = 0 /\ now <= nextDeadline
      \/ late = now - nextDeadline /\ nextDeadline < now
  BY <1>1
<1>6. parts \in Nat
  <2> HIDE DEF ticks
  <2> QED  BY <1>1, <1>4
<1>7. Emitted(parts) \in Nat /\ Carried(parts) \in Nat
  BY <1>6, EmittedBounds
<1>8. total' \in Nat /\ owed' \in Nat /\ lag' \in Nat
  <2> HIDE DEF parts, late
  <2> QED  BY <1>1, <1>2, <1>3, <1>7
<1>9. ASSUME Abandoned(late)
      PROVE  late = now - nextDeadline
  <2>1. late + Interval >= Interval + Interval
    <3> HIDE DEF ticks, late, over
    <3>1. over * Interval >= Interval
      BY <1>4, <1>9
    <3> QED  BY <1>2, <1>4, <1>9, <3>1
  <2> HIDE DEF late
  <2> QED  BY <1>2, <1>5, <2>1
<1> DEFINE gap == over * Interval
<1>10. CASE Abandoned(late)
  <2>1. d = over /\ dropped' = dropped + d
    <3> HIDE DEF late
    <3> QED  BY <1>1, <1>3, <1>4, <1>10
  <2>2. /\ accruedThrough' = now
        /\ accruedThrough + ticks + gap <= now
        /\ now < accruedThrough + ticks + gap + Interval
    <3>1. gap \in Nat
      <4> HIDE DEF over
      <4> QED  BY <1>4, <1>10
    <3>2. ticks + gap <= late + Interval /\ late + Interval < ticks + gap + Interval
      BY <1>4, <1>10
    <3>3. late + Interval + accruedThrough = now
      <4> HIDE DEF late
      <4> QED  BY <1>1, <1>2, <1>9, <1>10
    <3>4. accruedThrough' = now
      BY <1>3, <1>10
    <3> HIDE DEF ticks, late, gap
    <3> QED  BY <1>1, <1>2, <1>4, <3>1, <3>2, <3>3, <3>4
  <2>3. BatchOf(ticks, d)
    <3> HIDE DEF ticks, late, over, d
    <3> QED  BY <1>3, <1>4, <1>8, <1>10, <2>1, <2>2 DEF BatchOf, parts, gap
  <2> QED  BY <2>3
<1>11. CASE ~Abandoned(late)
  <2>1. d = 0 /\ dropped' = dropped + d
    <3> HIDE DEF late
    <3> QED  BY <1>1, <1>3, <1>11
  <2>2. /\ accruedThrough' = accruedThrough + ticks
        /\ accruedThrough' <= now \/ accruedThrough' <= nextDeadline
        /\ nextDeadline' > now
    <3> HIDE DEF ticks, late
    <3> QED  BY <1>1, <1>2, <1>3, <1>4, <1>5, <1>11
  <2>3. BatchOf(ticks, d)
    <3> HIDE DEF ticks, late, over, d
    <3> QED  BY <1>3, <1>4, <1>8, <2>1, <2>2 DEF BatchOf, parts
  <2> QED  BY <2>3
<1> QED  BY <1>10, <1>11

----------------------------------------------------------------------------
(* The schedule is empty before the first call, so the invariant holds.     *)
LEMMA InitEstablishes == Init => IInv
<1> SUFFICES ASSUME Init PROVE IInv
  OBVIOUS
<1> USE GovernorAssumption DEF Init
<1>1. TypeOK
  BY DEF TypeOK
<1>2. ExactLongRun
  BY DEF ExactLongRun
<1>3. TimePaidOnce /\ NeverAhead /\ CallInv
  BY DEF TimePaidOnce, Lost, NeverAhead, CallInv
<1> QED  BY <1>1, <1>2, <1>3 DEF IInv

(* Whatever the clock does, only the latest time it has shown matters.      *)
LEMMA ClockPreserves ==
  ASSUME IInv, ClockAdvances \/ ClockSetBack
  PROVE  IInv'
<1> USE GovernorAssumption DEF IInv, scheduleVars
<1>1. CASE ClockAdvances
  <2>1. PICK s \in Steps : now' = now + s
    BY <1>1 DEF ClockAdvances
  <2>2. now' \in Nat /\ peak' \in Nat /\ now <= now' /\ now' <= peak' /\ peak <= peak'
    BY <1>1, <2>1 DEF ClockAdvances, TypeOK, CallInv
  <2>3. UNCHANGED <<call, rate, scheduleVars>>
    BY <1>1 DEF ClockAdvances
  <2>4. TypeOK'
    BY <2>2, <2>3 DEF TypeOK
  <2>5. ExactLongRun' /\ TimePaidOnce'
    BY <2>3 DEF ExactLongRun, TimePaidOnce, Lost
  <2>6. NeverAhead' /\ CallInv'
    BY <2>2, <2>3 DEF NeverAhead, CallInv, TypeOK
  <2> QED  BY <2>4, <2>5, <2>6
<1>2. CASE ClockSetBack
  <2>1. PICK s \in StepsBack : now' = now - s /\ now' >= Interval
    BY <1>2 DEF ClockSetBack
  <2>2. now' \in Nat /\ Interval <= now' /\ now' <= now
    BY <2>1 DEF TypeOK
  <2>3. UNCHANGED <<peak, call, rate, scheduleVars>>
    BY <1>2 DEF ClockSetBack
  <2>4. TypeOK'
    BY <2>2, <2>3 DEF TypeOK
  <2>5. ExactLongRun' /\ TimePaidOnce'
    BY <2>3 DEF ExactLongRun, TimePaidOnce, Lost
  <2>6. NeverAhead' /\ CallInv'
    BY <2>2, <2>3 DEF NeverAhead, CallInv, TypeOK
  <2> QED  BY <2>4, <2>5, <2>6
<1> QED  BY <1>1, <1>2

(* A call that schedules nothing yet: it may start the schedule, wait for its
   deadline, or be cancelled. *)
LEMMA CallPreserves ==
  ASSUME IInv, (\E r \in Rates : Call(r)) \/ Wait \/ WaitEnds \/ Cancel
  PROVE  IInv'
<1> USE GovernorAssumption DEF IInv, scheduleVars, clockVars
<1>1. ASSUME NEW r \in Rates, Call(r)
      PROVE  IInv'
  <2>1. UNCHANGED <<now, peak, owed, total, lag, dropped, credit, paidTicks>>
        /\ rate' \in Nat /\ started' = TRUE /\ call' = "checking"
    BY <1>1 DEF Call
  <2>2. CASE started
    <3>1. UNCHANGED <<accruedThrough, nextDeadline, origin>>
      BY <1>1, <2>2 DEF Call
    <3>2. TypeOK' /\ ExactLongRun'
      BY <2>1, <3>1 DEF TypeOK, ExactLongRun
    <3> QED  BY <2>1, <2>2, <3>1, <3>2 DEF TimePaidOnce, Lost, NeverAhead, CallInv
  <2>3. CASE ~started
    <3>1. /\ accruedThrough' = now - Interval /\ nextDeadline' = now
          /\ origin' = accruedThrough'
      BY <1>1, <2>3 DEF Call
    <3>2. /\ Interval <= now /\ now <= peak /\ now \in Nat /\ peak \in Nat
          /\ paidTicks = 0 /\ dropped = 0
      BY <2>3 DEF TypeOK, CallInv
    <3>3. accruedThrough' \in Nat /\ accruedThrough' <= peak
          /\ nextDeadline' = accruedThrough' + Interval
      BY <3>1, <3>2
    <3>4. TypeOK' /\ ExactLongRun'
      BY <2>1, <3>1, <3>2, <3>3 DEF TypeOK, ExactLongRun
    <3>5. TimePaidOnce'
      BY <2>1, <3>1, <3>2, <3>3 DEF TimePaidOnce, Lost
    <3>6. NeverAhead' /\ CallInv'
      BY <2>1, <3>2, <3>3 DEF NeverAhead, CallInv
    <3> QED  BY <3>4, <3>5, <3>6
  <2> QED  BY <2>2, <2>3
<1>2. ASSUME Wait \/ WaitEnds \/ Cancel
      PROVE  IInv'
  <2>1. /\ UNCHANGED <<now, peak, rate, scheduleVars>>
        /\ call # "none"
        /\ call' \in {"none", "waiting", "due"}
        /\ call' = "due" => nextDeadline <= now
    BY <1>2 DEF Wait, WaitEnds, Cancel, TypeOK
  <2>2. TypeOK' /\ ExactLongRun' /\ TimePaidOnce' /\ NeverAhead'
    BY <2>1 DEF TypeOK, ExactLongRun, TimePaidOnce, Lost, NeverAhead
  <2>3. CallInv'
    BY <2>1 DEF CallInv, TypeOK
  <2> QED  BY <2>2, <2>3
<1> QED  BY <1>1, <1>2

(* The batch: one step per account that ScheduleBatch keeps.                *)
LEMMA SchedulePreserves ==
  ASSUME IInv, Schedule
  PROVE  IInv'
<1> USE GovernorAssumption
<1>1. /\ started /\ TypeOK /\ nextDeadline = accruedThrough + Interval
      /\ call = "due" \/ nextDeadline <= now
      /\ ScheduleBatch(now) /\ call' = "none"
      /\ UNCHANGED <<now, peak, rate, started, origin>>
  BY DEF IInv, CallInv, TimePaidOnce, Schedule, clockVars, TypeOK
<1>2. PICK ticks, d : BatchOf(ticks, d)
  BY <1>1, BatchAccounts
<1>3. /\ ticks \in Nat /\ d \in Nat /\ Interval \in Nat /\ Unit \in Nat
      /\ now \in Nat /\ peak \in Nat /\ accruedThrough \in Nat /\ nextDeadline \in Nat
      /\ origin \in Nat /\ rate \in Nat /\ owed \in Nat /\ total \in Nat /\ dropped \in Nat
      /\ credit \in Nat /\ paidTicks \in Nat
  BY <1>1, <1>2 DEF TypeOK, BatchOf
<1>4. nextDeadline <= peak /\ now <= peak
  BY <1>1, <1>3 DEF IInv, CallInv
<1>5. accruedThrough' \in Nat /\ accruedThrough' <= peak
      /\ nextDeadline' = accruedThrough' + Interval
  BY <1>2, <1>3, <1>4 DEF BatchOf
<1>6. TypeOK'
  <2> DEFINE pay == ticks * rate
  <2>1. pay \in Nat
    BY <1>3
  <2> HIDE DEF pay
  <2>2. credit' \in Nat
    BY <1>2, <1>3, <2>1 DEF BatchOf, pay
  <2>3. paidTicks' \in Nat /\ dropped' \in Nat
    BY <1>2, <1>3 DEF BatchOf
  <2>4. nextDeadline' \in Nat
    <3>1. \A t \in Nat : t + Interval \in Nat
      BY <1>3
    <3> QED  BY <1>5, <3>1
  <2>5. total' \in Nat /\ owed' \in Nat /\ lag' \in Nat
    BY <1>2 DEF BatchOf
  <2> QED  BY <1>1, <1>5, <2>2, <2>3, <2>4, <2>5 DEF TypeOK
<1>7. ExactLongRun'
  <2> DEFINE parts == owed + ticks * rate
  <2>1. parts \in Nat /\ credit' = credit + (parts - owed)
    BY <1>2, <1>3 DEF BatchOf
  <2>2. total' = total + Emitted(parts) /\ owed' = Carried(parts)
    BY <1>2 DEF BatchOf
  <2>3. /\ Emitted(parts) \in Nat /\ Carried(parts) \in Nat
        /\ Emitted(parts) * Unit + Carried(parts) = parts
    BY <2>1, EmittedBounds
  <2>4. total * Unit + owed = credit
    BY DEF IInv, ExactLongRun
  <2> DEFINE e == Emitted(parts)
             c == Carried(parts)
  <2> HIDE DEF parts, e, c
  <2>5. e \in Nat /\ c \in Nat /\ e * Unit + c = parts /\ total' = total + e /\ owed' = c
    BY <2>2, <2>3 DEF e, c
  <2> DEFINE was == total * Unit
             more == e * Unit
  <2>6. (total + e) * Unit = was + more /\ was \in Nat /\ more \in Nat
    BY <1>3, <2>5
  <2>7. more + c = parts /\ was + owed = credit
    BY <2>4, <2>5
  <2> HIDE DEF was, more
  <2>8. was + more + c = credit'
    BY <1>3, <2>1, <2>5, <2>6, <2>7
  <2> QED  BY <2>5, <2>6, <2>8 DEF ExactLongRun
<1>8. TimePaidOnce'
  <2> DEFINE had == dropped * Interval
             add == d * Interval
  <2>1. /\ had \in Nat /\ add \in Nat
        /\ (dropped + d) * Interval = had + add
        /\ 2 * (dropped + d) * Interval = 2 * had + 2 * add
        /\ 2 * dropped * Interval = 2 * had
        /\ d = 0 => add = 0
        /\ 0 < d => Interval <= add
    BY <1>3
  <2>2. had <= Lost /\ Lost <= 2 * had
    BY <2>1 DEF IInv, TimePaidOnce
  <2>3. Lost' = accruedThrough' - origin - (paidTicks + ticks)
    BY <1>1, <1>2 DEF Lost, BatchOf
  <2> HIDE DEF had, add
  <2>4. had + add <= Lost' /\ Lost' <= 2 * had + 2 * add
    <3>1. CASE d = 0
      <4>1. accruedThrough' = accruedThrough + ticks
        BY <1>2, <1>3, <3>1 DEF BatchOf
      <4> QED  BY <1>3, <2>1, <2>2, <2>3, <3>1, <4>1 DEF Lost
    <3>2. CASE 0 < d
      <4>1. /\ accruedThrough' = now
            /\ accruedThrough + ticks + add <= now
            /\ now < accruedThrough + ticks + add + Interval
        BY <1>2, <1>3, <3>2 DEF BatchOf, add
      <4> QED  BY <1>3, <2>1, <2>2, <2>3, <3>2, <4>1 DEF Lost
    <3> QED  BY <1>3, <3>1, <3>2
  <2>5. dropped' * Interval = had + add /\ 2 * dropped' * Interval = 2 * had + 2 * add
    BY <1>2, <2>1 DEF BatchOf
  <2>6. nextDeadline' = accruedThrough' + Interval
    BY <1>2 DEF BatchOf
  <2> QED  BY <2>4, <2>5, <2>6 DEF TimePaidOnce
<1>9. NeverAhead'
  BY <1>1, <1>5 DEF NeverAhead
<1>10. CallInv'
  BY <1>1 DEF IInv, CallInv
<1> QED  BY <1>6, <1>7, <1>8, <1>9, <1>10 DEF IInv

(* The invariant is inductive ...                                          *)
LEMMA IInvPreserved == IInv /\ [Next]_vars => IInv'
<1> SUFFICES ASSUME IInv, [Next]_vars PROVE IInv'
  OBVIOUS
<1>1. CASE Next
  BY <1>1, ClockPreserves, CallPreserves, SchedulePreserves DEF Next
<1>2. CASE UNCHANGED vars
  BY <1>2 DEF IInv, TypeOK, ExactLongRun, TimePaidOnce, Lost, NeverAhead, CallInv,
              vars, clockVars, scheduleVars
<1> QED  BY <1>1, <1>2

(* ... and so holds in every reachable state.                              *)
THEOREM Invariance == Spec => []IInv
  BY InitEstablishes, IInvPreserved, PTL DEF Spec

(* Every counter of the governor stays a natural number.                    *)
THEOREM TypeCorrect == Spec => []TypeOK
  BY Invariance, PTL DEF IInv

(* Events are conserved through every change of rate, stall and cancellation. *)
THEOREM EventsConserved == Spec => []ExactLongRun
  BY Invariance, PTL DEF IInv

(* No time is paid for twice, and time goes unpaid only with a drop count.  *)
THEOREM TimeConserved == Spec => []TimePaidOnce
  BY Invariance, PTL DEF IInv

(* No event is emitted ahead of the clock, whichever way the clock is set.  *)
THEOREM NeverAheadOfClock == Spec => []NeverAhead
  BY Invariance, PTL DEF IInv

(* One call makes up for a stall or gives it up.                            *)
THEOREM CatchUpTakesOneCall == Spec => CatchesUp
<1>1. IInv /\ [Next]_vars => [paidTicks' # paidTicks => nextDeadline' > now]_vars
  <2> SUFFICES ASSUME IInv, Next, paidTicks' # paidTicks
               PROVE  nextDeadline' > now
    BY DEF vars
  <2>1. CASE Schedule
    <3>1. PICK ticks, d : BatchOf(ticks, d)
      BY <2>1, BatchAccounts DEF Schedule, IInv, CallInv, TimePaidOnce, TypeOK
    <3> QED  BY <3>1, GovernorAssumption DEF BatchOf, IInv, TypeOK
  <2>2. CASE ~Schedule
    BY <2>2 DEF Next, ClockAdvances, ClockSetBack, Call, Wait, WaitEnds, Cancel,
                clockVars, scheduleVars
  <2> QED  BY <2>1, <2>2
<1> QED  BY Invariance, <1>1, PTL DEF Spec, CatchesUp

----------------------------------------------------------------------------
(* A batch of a capped catch-up, at any rate that is asked for, fits in an
   int.  The largest settings that the options' ranges admit do not meet this. *)
BatchFitsInt == \A r \in Rates : Unit + (1 + MaxCatchUp) * Interval * r <= IntMax * Unit

CarryInv == owed < Unit /\ (call # "none" => rate \in Rates)

(* What is owed when a batch is scheduled: less than an event left over, and
   the rate over the capped number of intervals. *)
LEMMA OwedBounded ==
  ASSUME IInv, owed < Unit, rate \in Rates, NEW ticks \in Nat,
         ticks <= (1 + MaxCatchUp) * Interval
  PROVE  /\ owed + ticks * rate \in Nat
         /\ owed + ticks * rate < Unit + (1 + MaxCatchUp) * Interval * rate
<1> USE GovernorAssumption
<1> DEFINE most == (1 + MaxCatchUp) * Interval
<1>1. /\ owed \in Nat /\ rate \in Nat /\ ticks \in Nat /\ Unit \in Nat
      /\ most \in Nat /\ ticks <= most
  BY DEF IInv, TypeOK
<1> HIDE DEF most
<1>2. ticks * rate \in Nat /\ most * rate \in Nat /\ ticks * rate <= most * rate
  BY <1>1
<1>3. owed + ticks * rate \in Nat /\ owed + ticks * rate < Unit + most * rate
  <2> DEFINE pay == ticks * rate
             cap == most * rate
  <2>1. pay \in Nat /\ cap \in Nat /\ pay <= cap
    BY <1>2
  <2> HIDE DEF pay, cap
  <2>2. owed + pay \in Nat /\ owed + pay < Unit + cap
    BY <1>1, <2>1
  <2> QED  BY <2>2 DEF pay, cap
<1> QED  BY <1>3 DEF most

(* If a batch fits in an int, what is carried stays below one event.        *)
LEMMA CarryPreserved ==
  ASSUME BatchFitsInt, IInv, CarryInv, [Next]_vars
  PROVE  CarryInv'
<1>1. CASE Schedule
  <2>1. PICK ticks, d : BatchOf(ticks, d)
    BY <1>1, BatchAccounts DEF Schedule, IInv, CallInv, TimePaidOnce, TypeOK
  <2> DEFINE parts == owed + ticks * rate
  <2>2. rate \in Rates /\ owed < Unit /\ ticks \in Nat /\ ticks <= (1 + MaxCatchUp) * Interval
    BY <1>1, <2>1 DEF CarryInv, Schedule, BatchOf
  <2>3. parts \in Nat /\ parts < Unit + (1 + MaxCatchUp) * Interval * rate
    BY <2>2, OwedBounded
  <2>4. Unit + (1 + MaxCatchUp) * Interval * rate <= IntMax * Unit
    BY <2>2 DEF BatchFitsInt
  <2>5. parts < IntMax * Unit
    <3> DEFINE cap == (1 + MaxCatchUp) * Interval * rate
               int == IntMax * Unit
    <3>1. cap \in Int /\ int \in Int /\ Unit \in Int
      BY <2>2, GovernorAssumption
    <3> HIDE DEF parts, cap, int
    <3>2. parts < Unit + cap /\ Unit + cap <= int
      BY <2>3, <2>4 DEF cap, int
    <3> QED  BY <2>3, <3>1, <3>2 DEF int
  <2>6. owed' < Unit
    BY <2>1, <2>3, <2>5, EmittedBounds DEF BatchOf
  <2>7. call' = "none"
    BY <1>1 DEF Schedule
  <2> QED  BY <2>6, <2>7 DEF CarryInv
<1>2. CASE ~Schedule
  <2>1. owed' = owed
    BY <1>2 DEF Next, ClockAdvances, ClockSetBack, Call, Wait, WaitEnds, Cancel,
                vars, clockVars, scheduleVars
  <2>2. call' # "none" => rate' \in Rates
    BY <1>2 DEF CarryInv, Next, ClockAdvances, ClockSetBack, Call, Wait, WaitEnds,
                Cancel, vars, clockVars, scheduleVars
  <2> QED  BY <2>1, <2>2 DEF CarryInv
<1> QED  BY <1>1, <1>2

(* PendingFraction is a fraction whenever a capped catch-up fits in an int. *)
THEOREM CarryIsFraction ==
  ASSUME BatchFitsInt
  PROVE  Spec => []CarryInv /\ []CarryBelowOne
<1>1. Init => CarryInv
  BY GovernorAssumption DEF Init, CarryInv
<1>2. IInv /\ CarryInv /\ [Next]_vars => CarryInv'
  BY CarryPreserved
<1>3. CarryInv => CarryBelowOne
  BY DEF CarryInv, CarryBelowOne
<1> QED  BY Invariance, <1>1, <1>2, <1>3, PTL DEF Spec

(* A batch whose carry is a fraction: the one due and the capped catch-up.  *)
LEMMA BurstStep ==
  ASSUME IInv, CarryInv, Next
  PROVE  (total' - total) * Unit < Unit + (1 + MaxCatchUp) * Interval * rate
<1> USE GovernorAssumption
<1>1. /\ total \in Nat /\ rate \in Nat /\ owed \in Nat /\ Unit \in Nat \ {0}
      /\ (1 + MaxCatchUp) * Interval * rate \in Nat
  <2>1. rate \in Nat /\ (1 + MaxCatchUp) * Interval \in Nat
    BY DEF IInv, TypeOK
  <2> QED  BY <2>1 DEF IInv, TypeOK
<1>2. CASE Schedule
  <2>1. PICK ticks, d : BatchOf(ticks, d)
    BY <1>2, BatchAccounts DEF Schedule, IInv, CallInv, TimePaidOnce, TypeOK
  <2> DEFINE parts == owed + ticks * rate
  <2>2. rate \in Rates /\ owed < Unit /\ ticks \in Nat
        /\ ticks <= (1 + MaxCatchUp) * Interval
    BY <1>2, <2>1 DEF CarryInv, Schedule, BatchOf
  <2>3. parts \in Nat /\ parts < Unit + (1 + MaxCatchUp) * Interval * rate
    BY <2>2, OwedBounded
  <2>4. total' = total + Emitted(parts)
    BY <2>1 DEF BatchOf
  <2>5. /\ Emitted(parts) \in Nat /\ Carried(parts) \in Nat
        /\ Emitted(parts) * Unit + Carried(parts) = parts
    BY <2>3, EmittedBounds
  <2> DEFINE e == Emitted(parts)
             c == Carried(parts)
             cap == (1 + MaxCatchUp) * Interval * rate
  <2> HIDE DEF parts, e, c, cap
  <2>6. e \in Nat /\ c \in Nat /\ e * Unit + c = parts /\ total' = total + e
    BY <2>4, <2>5 DEF e, c
  <2>7. (total' - total) * Unit = e * Unit /\ e * Unit \in Nat
    BY <1>1, <2>6
  <2> DEFINE pay == e * Unit
  <2> HIDE DEF pay
  <2>8. pay \in Nat /\ pay + c = parts /\ parts < Unit + cap /\ cap \in Nat
    BY <1>1, <2>3, <2>6, <2>7 DEF pay, cap
  <2>9. pay < Unit + cap
    BY <1>1, <2>6, <2>8
  <2> QED  BY <2>7, <2>9 DEF pay, cap
<1>3. CASE ~Schedule
  <2>1. total' = total
    BY <1>3 DEF Next, ClockAdvances, ClockSetBack, Call, Wait, WaitEnds, Cancel,
                clockVars, scheduleVars
  <2>2. (total' - total) * Unit = 0
    BY <1>1, <2>1
  <2> QED  BY <1>1, <2>2
<1> QED  BY <1>2, <1>3

(* Under the same condition no batch exceeds the one due and the capped catch-up. *)
THEOREM BurstsAreCapped ==
  ASSUME BatchFitsInt
  PROVE  Spec => BurstCapped
<1> DEFINE Burst == (total' - total) * Unit < Unit + (1 + MaxCatchUp) * Interval * rate
<1>1. IInv /\ CarryInv /\ [Next]_vars => [Burst]_vars
  BY BurstStep
<1>2. Init => CarryInv
  BY GovernorAssumption DEF Init, CarryInv
<1>3. IInv /\ CarryInv /\ [Next]_vars => CarryInv'
  BY CarryPreserved
<1> QED  BY Invariance, <1>1, <1>2, <1>3, PTL DEF Spec, BurstCapped

----------------------------------------------------------------------------
(* The day                                                                 *)

Multipliers == {0, One} \cup {w.mult : w \in Windows}
InMode == mode \in {"Continuous", "CompressedDay", "Scheduled"}

(* Windows do not overlap, so that at most one of them contains an instant. *)
LEMMA OneWindowAtATime ==
  ASSUME NEW t \in Int
  PROVE  LET found == {w \in Windows : Contains(w, t)}
         IN  found # {} => First(found) \in Windows
<1> DEFINE found == {w \in Windows : Contains(w, t)}
<1> SUFFICES ASSUME found # {} PROVE First(found) \in Windows
  OBVIOUS
<1>1. PICK w \in found : TRUE
  OBVIOUS
<1>2. \A v \in found : w.start <= v.start
  <2> SUFFICES ASSUME NEW v \in found PROVE w.start <= v.start
    OBVIOUS
  <2>1. /\ w \in Windows /\ v \in Windows
        /\ w.start <= t /\ t < w.end /\ v.start <= t /\ t < v.end
    BY <1>1 DEF Contains
  <2>2. w.start \in Nat /\ w.end \in Nat /\ v.start \in Nat /\ v.end \in Nat
    BY <2>1, DayAssumption DEF DayAssumption
  <2>3. v # w => v.end <= w.start \/ w.end <= v.start
    BY <2>1, DayAssumption DEF DayAssumption
  <2> QED  BY <2>1, <2>2, <2>3
<1>3. First(found) \in found
  BY <1>1, <1>2 DEF First
<1> QED  BY <1>3

(* What an instant of the day looks up: a window's phase and rate, or closed and nothing. *)
Known(at) ==
  /\ at.phase \in Phases /\ at.mult \in Multipliers
  /\ at.phase = "Closed" => at.mult = 0
LEMMA LookUpKnown ==
  ASSUME NEW t \in Int
  PROVE  Known(LookUp(t))
<1> DEFINE found == {w \in Windows : Contains(w, t)}
           w == First(found)
<1>1. CASE found = {}
  BY <1>1 DEF LookUp, Known, Phases, Multipliers
<1>2. CASE found # {}
  <2>1. w \in Windows
    BY <1>2, OneWindowAtATime
  <2>2. LookUp(t) = [phase |-> w.phase, mult |-> w.mult]
    BY <1>2 DEF LookUp
  <2>3. w.phase \in Phases \ {"Closed"} /\ w.mult \in Multipliers
    BY <2>1, DayAssumption DEF DayAssumption, Multipliers
  <2> HIDE DEF w
  <2> QED  BY <2>2, <2>3 DEF Known
<1> QED  BY <1>1, <1>2

(* A compressed day is mapped on the schedule before it, too.              *)
LEMMA CompressedIsATime ==
  ASSUME NEW t \in Int, NEW from \in Int
  PROVE  CompressedTimeOfDay(t, from) \in Int
<1> DEFINE position == (t - from) % Cycle
           start == First(Windows).start
           span == Last(Windows).end - start
<1>1. Cycle \in Nat \ {0} /\ ClosedTicks \in Nat /\ ClosedTicks < Cycle
  BY DayAssumption DEF DayAssumption
<1>2. position \in Nat
  <2>1. t - from \in Int
    OBVIOUS
  <2> QED  BY <1>1, <2>1
<1>3. First(Windows) \in Windows /\ \A v \in Windows : First(Windows).start <= v.start
  BY DayAssumption DEF DayAssumption, First
<1>4. Last(Windows) \in Windows /\ \A v \in Windows : v.end <= Last(Windows).end
  BY DayAssumption DEF DayAssumption, Last
<1>5. /\ start \in Nat /\ Last(Windows).end \in Nat /\ First(Windows).end \in Nat
      /\ start < First(Windows).end /\ First(Windows).end <= Last(Windows).end
  BY <1>3, <1>4, DayAssumption DEF DayAssumption
<1>6. span \in Nat
  BY <1>5
<1> HIDE DEF position, start, span
<1>7. CASE position < ClosedTicks
  BY <1>5, <1>7 DEF CompressedTimeOfDay, position, start
<1>8. CASE ~(position < ClosedTicks)
  <2>1. position - ClosedTicks \in Nat /\ Cycle - ClosedTicks \in Nat \ {0}
    BY <1>1, <1>2, <1>8
  <2>2. (position - ClosedTicks) * span \in Nat
    BY <1>6, <2>1
  <2>3. ((position - ClosedTicks) * span) \div (Cycle - ClosedTicks) \in Nat
    BY <2>1, <2>2, Quotient
  <2>4. CompressedTimeOfDay(t, from)
          = start + ((position - ClosedTicks) * span) \div (Cycle - ClosedTicks)
    BY <1>8 DEF CompressedTimeOfDay, position, start, span
  <2> QED  BY <1>5, <2>3, <2>4
<1> QED  BY <1>7, <1>8

(* In every mode the market is in a phase it knows, at a rate that was configured. *)
LEMMA MarketKnown ==
  ASSUME InMode, NEW t \in Int, NEW from \in Int
  PROVE  Known(MarketAt(t, from))
<1>1. CASE mode = "Continuous"
  BY <1>1 DEF MarketAt, Known, Phases, Multipliers
<1>2. CASE mode = "CompressedDay"
  <2>1. Known(LookUp(CompressedTimeOfDay(t, from)))
    BY CompressedIsATime, LookUpKnown
  <2> QED  BY <1>2, <2>1 DEF MarketAt
<1>3. CASE mode = "Scheduled"
  <2>1. (t + Offset) % DayLength \in Int
    <3>1. t + Offset \in Int /\ DayLength \in Nat \ {0}
      BY DayAssumption DEF DayAssumption
    <3> QED  BY <3>1
  <2>2. Known(LookUp((t + Offset) % DayLength))
    BY <2>1, LookUpKnown
  <2> QED  BY <1>3, <2>2 DEF MarketAt
<1> QED  BY <1>1, <1>2, <1>3 DEF InMode

DayTypes ==
  /\ [mode |-> mode, ceiling |-> ceiling] \in Settings
  /\ anchor \in Nat \cup {-1}
  /\ phase \in Phases /\ multiplier \in Multipliers /\ (phase = "Closed" => multiplier = 0)
  /\ loop \in {"none", "top", "asking", "pacing", "emitting", "ended", "failed"}
  /\ count \in Nat /\ emitted \in Nat /\ offered \in Nat
  /\ auction \in BOOLEAN /\ stopping \in BOOLEAN /\ crossed \in BOOLEAN
  /\ listener \in {"none", "bound", "closed"}

(* The thread is in the governor exactly while a call is in progress; what is scheduled
   and not published yet is what the batch in hand still holds. *)
ThreadInv ==
  /\ loop = "pacing" <=> call # "none"
  /\ loop \notin {"emitting", "failed"} => count = 0 /\ emitted = 0 /\ auction = FALSE
  /\ loop = "emitting" => emitted < count
  /\ emitted <= count /\ total + emitted = offered + count

HostInv ==
  /\ anchor = -1 => listener = "none"
  /\ listener = "none" => loop = "none"
  /\ Patient /\ loop \notin {"none", "ended", "failed"} => listener = "bound"

FreshInv ==
  /\ loop \in {"asking", "pacing"} /\ ~crossed =>
       phase = MarketAt(now, anchor).phase /\ multiplier = MarketAt(now, anchor).mult
  /\ loop = "pacing" => rate = Effective

DayInv == DayTypes /\ ThreadInv /\ HostInv /\ FreshInv

(* A setting is one of those the assumption speaks of.                     *)
LEMMA SettingsKnown ==
  ASSUME DayTypes
  PROVE  /\ InMode /\ ceiling \in Nat /\ BaseRate * One <= ceiling
         /\ Effective \in Rates /\ Multipliers \subseteq Nat /\ Effective \in Nat
<1> DEFINE s == [mode |-> mode, ceiling |-> ceiling]
<1>1. s \in Settings /\ multiplier \in Multipliers
  BY DEF DayTypes
<1>2. s \in [mode : {"Continuous", "CompressedDay", "Scheduled"}, ceiling : Nat]
  BY <1>1, DayAssumption DEF DayAssumption
<1>3. InMode /\ ceiling \in Nat
  BY <1>2 DEF InMode
<1>4. BaseRate * One <= s.ceiling
  BY <1>1, DayAssumption DEF DayAssumption
<1>5. Clamped(multiplier, s.ceiling) \in Rates
  BY <1>1, DayAssumption DEF DayAssumption, Multipliers
<1>6. Multipliers \subseteq Nat
  BY DayAssumption DEF DayAssumption, Multipliers
<1> QED  BY <1>3, <1>4, <1>5, <1>6, GovernorAssumption DEF Effective, GovernorAssumption

(* The day calls the governor as its specification allows: at rates it knows, one call at
   a time.  All that holds of the governor holds of it here. *)
LEMMA DayStepsGovernor ==
  ASSUME DayTypes, [DayNext]_dayVars
  PROVE  [Next]_vars
<1>1. CASE Time
  BY <1>1 DEF Time, Next
<1>2. CASE Ask
  BY <1>2, SettingsKnown DEF Ask, Next
<1>3. CASE Pace \/ BatchDue
  BY <1>3 DEF Pace, BatchDue, Next
<1>4. CASE LoopEnds
  BY <1>4 DEF LoopEnds, Next, vars, governor
<1>5. CASE Construct \/ Bind \/ Launch \/ Advance \/ Pass \/ PassFails
  BY <1>5 DEF Construct, Bind, Launch, Advance, Pass, PassFails, vars, governor
<1>6. CASE UserStops \/ FailureStops \/ ServerStops
  BY <1>6 DEF UserStops, FailureStops, StopBegins, ServerStops, vars, governor
<1>7. CASE UNCHANGED dayVars
  BY <1>7 DEF dayVars, vars, governor
<1> QED  BY <1>1, <1>2, <1>3, <1>4, <1>5, <1>6, <1>7 DEF DayNext, Loop

(* The market does not change by itself.                                   *)
LEMMA MarketStands ==
  ASSUME now' = now, anchor' = anchor, mode' = mode
  PROVE  MarketAt(now, anchor)' = MarketAt(now, anchor)
  BY DEF MarketAt, CompressedTimeOfDay, LookUp

(* The service is set up and started.                                      *)
LEMMA StartKeeps ==
  ASSUME IInv, DayInv, Construct \/ Bind \/ Launch
  PROVE  DayInv'
<1>1. UNCHANGED <<now, mode, ceiling, call, total, rate>>
  BY DEF Construct, Bind, Launch, clockVars, governor, settings, scheduleVars
<1>2. CASE Construct
  <2>1. now \in Int /\ InMode /\ loop = "none"
    BY <1>2, SettingsKnown DEF IInv, TypeOK, DayInv, HostInv, Construct
  <2>2. Known(MarketAt(now, now))
    BY <2>1, MarketKnown
  <2>3. UNCHANGED <<loop, count, emitted, auction, offered, listener, stopping, crossed>>
    BY <1>2 DEF Construct, batch, host
  <2>4. DayTypes'
    BY <1>1, <1>2, <2>2, <2>3 DEF DayInv, DayTypes, Known, Construct, IInv, TypeOK
  <2>5. ThreadInv'
    BY <1>1, <2>3 DEF DayInv, ThreadInv
  <2>6. HostInv' /\ FreshInv'
    <3>1. anchor = -1 /\ anchor' = now /\ now \in Nat
      BY <1>2 DEF Construct, IInv, TypeOK
    <3> QED  BY <2>1, <2>3, <3>1 DEF DayInv, HostInv, FreshInv
  <2> QED  BY <2>4, <2>5, <2>6 DEF DayInv
<1>3. CASE Bind
  <2>1. UNCHANGED <<anchor, phase, multiplier, loop, count, emitted, auction, offered, stopping, crossed>>
    BY <1>3 DEF Bind, batch, market
  <2>2. FreshInv'
    BY <1>1, <2>1, MarketStands DEF DayInv, FreshInv, Effective
  <2> QED  BY <1>1, <1>3, <2>1, <2>2 DEF DayInv, DayTypes, ThreadInv, HostInv, Bind
<1>4. CASE Launch
  <2>1. UNCHANGED <<anchor, phase, multiplier, count, emitted, auction, offered, listener, stopping, crossed>>
    BY <1>4 DEF Launch, batch, market, host
  <2> QED  BY <1>1, <1>4, <2>1 DEF DayInv, DayTypes, ThreadInv, HostInv, FreshInv, Launch
<1> QED  BY <1>2, <1>3, <1>4

(* The clock moves: over a boundary it is recorded, and no phase is stale otherwise. *)
LEMMA TimeKeeps ==
  ASSUME IInv, DayInv, Time
  PROVE  DayInv'
<1>1. /\ UNCHANGED <<mode, ceiling, anchor, phase, multiplier, loop, count, emitted, auction,
                     offered, listener, stopping, call, rate, total>>
      /\ crossed' = (crossed \/ MarketAt(now', anchor) # MarketAt(now, anchor))
  BY DEF Time, ClockAdvances, ClockSetBack, settings, market, batch, host, scheduleVars
<1>2. FreshInv'
  <2>1. MarketAt(now, anchor)' = MarketAt(now', anchor)
    BY <1>1 DEF MarketAt, CompressedTimeOfDay, LookUp
  <2>2. Effective' = Effective
    BY <1>1 DEF Effective
  <2> QED  BY <1>1, <2>1, <2>2 DEF DayInv, FreshInv
<1> QED  BY <1>1, <1>2 DEF DayInv, DayTypes, ThreadInv, HostInv

(* A round begins: the phase is that of the clock as it reads now, and the rate is its. *)
LEMMA RoundKeeps ==
  ASSUME IInv, DayInv, Advance \/ Ask \/ Pace
  PROVE  DayInv'
<1>1. UNCHANGED <<now, mode, ceiling, anchor, count, emitted, auction, offered, listener,
                  stopping, crossed, total>>
  BY DEF Advance, Ask, Pace, Call, Wait, WaitEnds, clockVars, governor, settings, market, batch,
         host, scheduleVars
<1>2. MarketAt(now, anchor)' = MarketAt(now, anchor)
  BY <1>1, MarketStands
<1>3. CASE Advance
  <2>1. Known(MarketAt(now, anchor))
    <3>1. now \in Int /\ anchor \in Int /\ InMode
      BY SettingsKnown DEF IInv, TypeOK, DayInv, DayTypes
    <3> QED  BY <3>1, MarketKnown
  <2>2. UNCHANGED <<call, rate>>
    BY <1>3 DEF Advance, governor
  <2>3. loop = "top" /\ loop' = "asking"
    BY <1>3 DEF Advance
  <2>4. phase' = MarketAt(now, anchor).phase /\ multiplier' = MarketAt(now, anchor).mult
    BY <1>3 DEF Advance
  <2>5. DayTypes'
    BY <1>1, <2>1, <2>3, <2>4 DEF DayInv, DayTypes, Known
  <2>6. ThreadInv' /\ HostInv'
    BY <1>1, <2>2, <2>3 DEF DayInv, ThreadInv, HostInv
  <2>7. FreshInv'
    BY <1>2, <2>3, <2>4 DEF FreshInv
  <2> QED  BY <2>5, <2>6, <2>7 DEF DayInv
<1>4. CASE Ask
  <2>1. UNCHANGED <<phase, multiplier>> /\ loop = "asking" /\ loop' = "pacing"
        /\ call' = "checking" /\ rate' = Effective
    BY <1>4 DEF Ask, Call, market
  <2>2. Effective' = Effective
    BY <1>1, <2>1 DEF Effective
  <2> QED  BY <1>1, <1>2, <2>1, <2>2 DEF DayInv, DayTypes, ThreadInv, HostInv, FreshInv
<1>5. CASE Pace
  <2>1. UNCHANGED <<phase, multiplier, loop, rate>> /\ loop = "pacing" /\ call' # "none"
    BY <1>5 DEF Pace, Wait, WaitEnds, market
  <2>2. Effective' = Effective
    BY <1>1, <2>1 DEF Effective
  <2> QED  BY <1>1, <1>2, <2>1, <2>2 DEF DayInv, DayTypes, ThreadInv, HostInv, FreshInv
<1> QED  BY <1>3, <1>4, <1>5

(* A batch that is scheduled counts no events twice: it is what the total grows by. *)
LEMMA BatchCount ==
  ASSUME IInv, Schedule
  PROVE  \E ticks \in Nat :
           /\ owed + ticks * rate \in Nat
           /\ total' = total + Emitted(owed + ticks * rate)
           /\ Emitted(owed + ticks * rate) \in Nat
           /\ total' - total = Emitted(owed + ticks * rate)
<1>1. PICK ticks, d : BatchOf(ticks, d)
  BY BatchAccounts DEF Schedule, IInv, CallInv, TimePaidOnce, TypeOK
<1>2. ticks \in Nat /\ total' = total + Emitted(owed + ticks * rate)
  BY <1>1 DEF BatchOf
<1>3. owed \in Nat /\ rate \in Nat /\ total \in Nat
  BY DEF IInv, TypeOK
<1>4. ticks * rate \in Nat
  BY <1>2, <1>3
<1> DEFINE parts == owed + ticks * rate
<1>5. parts \in Nat
  BY <1>3, <1>4
<1> HIDE DEF parts
<1>6. Emitted(parts) \in Nat
  BY <1>5, EmittedBounds
<1> DEFINE e == Emitted(parts)
<1>7. total' = total + e
  BY <1>2 DEF parts, e
<1> HIDE DEF e
<1>8. e \in Nat
  BY <1>6 DEF e
<1>9. total' - total = e
  BY <1>3, <1>7, <1>8
<1> QED  BY <1>2, <1>5, <1>6, <1>7, <1>9 DEF parts, e

(* The batch becomes the thread's, if it has events.                       *)
LEMMA BatchKeeps ==
  ASSUME IInv, DayInv, BatchDue
  PROVE  DayInv'
<1>1. /\ UNCHANGED <<mode, ceiling, anchor, phase, multiplier, emitted, offered, listener, stopping>>
      /\ loop = "pacing" /\ Schedule /\ call' = "none" /\ crossed' = FALSE
      /\ count' = total' - total /\ auction' = (count' > 0 /\ IsAuctionPhase(phase))
      /\ loop' = IF count' = 0 THEN "top" ELSE "emitting"
  BY DEF BatchDue, Schedule, settings, market, host
<1>2. count' \in Nat
  <2>1. PICK ticks \in Nat : total' - total = Emitted(owed + ticks * rate)
                             /\ Emitted(owed + ticks * rate) \in Nat
    BY <1>1, BatchCount
  <2> QED  BY <1>1, <2>1
<1>3. count = 0 /\ emitted = 0 /\ total + emitted = offered + count /\ offered \in Nat /\ total \in Nat
  BY <1>1 DEF DayInv, DayTypes, ThreadInv, IInv, TypeOK
<1>4. total' \in Nat
  <2>1. PICK ticks \in Nat : total' = total + Emitted(owed + ticks * rate)
                             /\ Emitted(owed + ticks * rate) \in Nat
    BY <1>1, BatchCount
  <2> QED  BY <1>3, <2>1
<1>5. total' + emitted' = offered' + count' /\ emitted' <= count'
  <2>1. emitted' = 0 /\ offered' = offered
    BY <1>1, <1>3
  <2>2. total = offered
    BY <1>3
  <2>3. count' = total' - total
    BY <1>1
  <2>4. total \in Nat
    BY <1>3
  <2>5. total' = total + count'
    <3>1. \A a, b, c \in Int : c = b - a => b = a + c
      OBVIOUS
    <3>2. total \in Int /\ total' \in Int /\ count' \in Int
      BY <1>2, <1>4, <2>4
    <3> QED  BY Zenon, <2>3, <3>1, <3>2
  <2>6. total' + emitted' = offered' + count'
    BY <1>2, <1>4, <2>1, <2>2, <2>5
  <2>7. emitted' <= count'
    BY <1>2, <2>1
  <2> QED  BY <2>6, <2>7
<1>6. auction' \in BOOLEAN /\ (count' = 0 => auction' = FALSE)
  <2>1. auction' = (count' > 0 /\ IsAuctionPhase(phase))
    BY <1>1
  <2>2. count' = 0 => ~(count' > 0)
    OBVIOUS
  <2> QED  BY Zenon, <2>1, <2>2
<1>7. DayTypes'
  BY <1>1, <1>2, <1>6 DEF DayInv, DayTypes
<1>8. ThreadInv'
  <2>1. CASE count' = 0
    <3>1. loop' = "top"
      BY <1>1, <2>1
    <3> QED  BY <1>1, <1>3, <1>5, <1>6, <2>1, <3>1 DEF ThreadInv
  <2>2. CASE count' # 0
    <3>1. loop' = "emitting"
      BY <1>1, <2>2
    <3>2. emitted' < count'
      BY <1>1, <1>2, <1>3, <2>2
    <3> QED  BY <1>1, <1>5, <3>1, <3>2 DEF ThreadInv
  <2> QED  BY <2>1, <2>2
<1>9. HostInv' /\ FreshInv'
  <2>1. loop' \in {"top", "emitting"}
    BY <1>1
  <2> QED  BY <1>1, <2>1 DEF DayInv, HostInv, FreshInv
<1> QED  BY <1>7, <1>8, <1>9 DEF DayInv

(* The buffer holds at least one record.                                   *)
LEMMA BufferIsUsable ==
  ASSUME DayTypes
  PROVE  BatchCapacity \in Nat \ {0}
<1>1. /\ MinBatchCapacity \in Nat \ {0} /\ MaxBatchCapacity \in Nat
      /\ MinBatchCapacity <= MaxBatchCapacity /\ BaseRate \in Nat /\ One \in Nat
  BY DayAssumption DEF DayAssumption
<1>2. Unit \in Nat \ {0} /\ Interval \in Nat /\ MaxCatchUp \in Nat
  BY GovernorAssumption DEF GovernorAssumption
<1>3. ceiling \in Nat
  BY SettingsKnown
<1> DEFINE peak_ == IF ceiling > BaseRate * One THEN ceiling ELSE BaseRate * One
<1>4. peak_ \in Nat
  BY <1>1, <1>3
<1>5. Largest = peak_ * Interval * (1 + MaxCatchUp)
  BY DEF Largest
<1> HIDE DEF peak_
<1>6. Largest \in Nat
  <2>1. peak_ * Interval \in Nat /\ 1 + MaxCatchUp \in Nat
    BY <1>2, <1>4
  <2> QED  BY <1>5, <2>1
<1>7. CASE Largest <= MinBatchCapacity * Unit
  BY <1>1, <1>7 DEF BatchCapacity
<1>8. CASE ~(Largest <= MinBatchCapacity * Unit) /\ Largest >= MaxBatchCapacity * Unit
  BY <1>1, <1>8 DEF BatchCapacity
<1>9. CASE ~(Largest <= MinBatchCapacity * Unit) /\ ~(Largest >= MaxBatchCapacity * Unit)
  <2> DEFINE q == (Largest + Unit - 1) \div Unit
  <2>1. Largest + Unit - 1 \in Nat
    BY <1>2, <1>6
  <2>2. q \in Nat /\ Largest + Unit - 1 < q * Unit + Unit
    BY <1>2, <2>1, Quotient
  <2>3. BatchCapacity = q
    BY <1>9 DEF BatchCapacity
  <2> HIDE DEF q
  <2>4. q # 0
    <3> SUFFICES ASSUME q = 0 PROVE FALSE
      OBVIOUS
    <3>1. Largest + Unit - 1 < Unit
      BY <1>2, <2>2
    <3>2. Largest = 0
      BY <1>2, <1>6, <3>1
    <3>3. MinBatchCapacity * Unit \in Nat
      BY <1>1, <1>2
    <3> QED  BY <1>9, <3>2, <3>3
  <2> QED  BY <2>2, <2>3, <2>4
<1> QED  BY <1>7, <1>8, <1>9

(* A pass publishes what it takes and forgets the batch when it was the last; one that
   fails ends the thread with the rest in hand. *)
LEMMA PassKeeps ==
  ASSUME IInv, DayInv, Pass \/ PassFails
  PROVE  DayInv'
<1>1. UNCHANGED <<mode, ceiling, anchor, phase, multiplier, call, rate, total, now, listener,
                  stopping, crossed>>
  BY DEF Pass, PassFails, clockVars, governor, settings, market, host, scheduleVars
<1>2. loop = "emitting" /\ call = "none"
  BY DEF Pass, PassFails, DayInv, ThreadInv, DayTypes
<1>3. count \in Nat /\ emitted \in Nat /\ offered \in Nat /\ emitted < count
  BY <1>2 DEF DayInv, DayTypes, ThreadInv
<1>4. CASE PassFails
  <2>1. UNCHANGED <<count, emitted, auction, offered>> /\ loop' = "failed"
    BY <1>4 DEF PassFails, batch
  <2> QED  BY <1>1, <1>2, <2>1 DEF DayInv, DayTypes, ThreadInv, HostInv, FreshInv
<1>5. CASE Pass
  <2> DEFINE take == Take
  <2>1. take \in Nat /\ emitted + take <= count
    <3>1. BatchCapacity \in Nat
      BY BufferIsUsable DEF DayInv
    <3> QED  BY <1>3, <3>1 DEF Take
  <2>2. /\ offered' = offered + take
        /\ IF emitted + take < count
           THEN emitted' = emitted + take /\ UNCHANGED <<count, auction, loop>>
           ELSE emitted' = 0 /\ count' = 0 /\ auction' = FALSE /\ loop' = "top"
    BY <1>5 DEF Pass
  <2> HIDE DEF take
  <2>3. total + emitted = offered + count /\ total \in Nat
    BY DEF DayInv, ThreadInv, IInv, TypeOK
  <2>4. CASE emitted + take < count
    <3>1. emitted' = emitted + take /\ UNCHANGED <<count, auction, loop>>
      BY <2>2, <2>4
    <3>2. /\ emitted' \in Nat /\ offered' \in Nat /\ emitted' < count'
          /\ total' + emitted' = offered' + count'
      BY <1>1, <1>3, <2>1, <2>2, <2>3, <2>4, <3>1
    <3>3. emitted' <= count'
      BY <1>3, <3>1, <3>2
    <3> QED  BY <1>1, <1>2, <3>1, <3>2, <3>3 DEF DayInv, DayTypes, ThreadInv, HostInv, FreshInv
  <2>5. CASE ~(emitted + take < count)
    <3>1. emitted' = 0 /\ count' = 0 /\ auction' = FALSE /\ loop' = "top"
      BY <2>2, <2>5
    <3>2. offered' \in Nat /\ total' + emitted' = offered' + count'
      <4>1. emitted + take = count /\ offered' = offered + take /\ total' = total
        BY <1>1, <1>3, <2>1, <2>2, <2>5
      <4>2. total = offered + take
        BY <1>3, <2>1, <2>3, <4>1
      <4>3. total' = offered' /\ offered' \in Nat
        BY <1>3, <2>1, <4>1, <4>2
      <4>4. emitted' = 0 /\ count' = 0
        BY <3>1
      <4>5. total' + emitted' = offered' + count'
        BY Zenon, <4>3, <4>4
      <4> QED  BY Zenon, <4>3, <4>5
    <3>3. DayTypes'
      BY <1>1, <3>1, <3>2 DEF DayInv, DayTypes
    <3>4. ThreadInv'
      <4>1. (loop = "pacing" <=> call # "none")'
        BY <1>1, <1>2, <3>1
      <4>2. emitted' <= count'
        BY <3>1
      <4> QED  BY Zenon, <3>1, <3>2, <4>1, <4>2 DEF ThreadInv
    <3>5. HostInv' /\ FreshInv'
      BY <1>1, <1>2, <3>1 DEF DayInv, HostInv, FreshInv
    <3> QED  BY <3>3, <3>4, <3>5 DEF DayInv
  <2> QED  BY <2>4, <2>5
<1> QED  BY <1>4, <1>5

(* The token is cancelled, the thread ends, the server stops.              *)
LEMMA StopKeeps ==
  ASSUME IInv, DayInv, LoopEnds \/ UserStops \/ FailureStops \/ ServerStops
  PROVE  DayInv'
<1>1. UNCHANGED <<mode, ceiling, anchor, phase, multiplier, rate, total, now, count, emitted,
                  auction, offered, crossed>>
  BY DEF LoopEnds, UserStops, FailureStops, StopBegins, ServerStops, Cancel, clockVars, governor,
         settings, market, batch, scheduleVars
<1>2. CASE LoopEnds
  <2>1. loop \in {"top", "pacing"} /\ loop' = "ended" /\ call' = "none"
        /\ UNCHANGED <<listener, stopping>>
    BY <1>2 DEF LoopEnds, Cancel, host, governor, DayInv, DayTypes, ThreadInv
  <2> QED  BY <1>1, <2>1 DEF DayInv, DayTypes, ThreadInv, HostInv, FreshInv
<1>3. CASE UserStops \/ FailureStops
  <2>1. UNCHANGED <<call, loop, listener>> /\ stopping' = TRUE
    BY <1>3 DEF UserStops, FailureStops, StopBegins, governor
  <2>2. FreshInv'
    <3>1. MarketAt(now, anchor)' = MarketAt(now, anchor)
      BY <1>1, MarketStands
    <3>2. Effective' = Effective
      BY <1>1 DEF Effective
    <3> QED  BY <1>1, <2>1, <3>1, <3>2 DEF DayInv, FreshInv
  <2> QED  BY <1>1, <2>1, <2>2 DEF DayInv, DayTypes, ThreadInv, HostInv
<1>4. CASE ServerStops
  <2>1. UNCHANGED <<call, loop, stopping>> /\ listener = "bound" /\ listener' = "closed" /\ Ended
    BY <1>4 DEF ServerStops, governor
  <2>2. FreshInv'
    <3>1. MarketAt(now, anchor)' = MarketAt(now, anchor)
      BY <1>1, MarketStands
    <3>2. Effective' = Effective
      BY <1>1 DEF Effective
    <3> QED  BY <1>1, <2>1, <3>1, <3>2 DEF DayInv, FreshInv
  <2> QED  BY <1>1, <2>1, <2>2 DEF DayInv, DayTypes, ThreadInv, HostInv, Ended
<1> QED  BY <1>2, <1>3, <1>4

(* What the invariant relates is read off the state.                       *)
LEMMA DayStep ==
  ASSUME IInv, DayInv, [DayNext]_dayVars
  PROVE  DayInv'
<1>1. CASE Construct \/ Bind \/ Launch
  BY <1>1, StartKeeps
<1>2. CASE Time
  BY <1>2, TimeKeeps
<1>3. CASE Advance \/ Ask \/ Pace
  BY <1>3, RoundKeeps
<1>4. CASE BatchDue
  BY <1>4, BatchKeeps
<1>5. CASE Pass \/ PassFails
  BY <1>5, PassKeeps
<1>6. CASE LoopEnds \/ UserStops \/ FailureStops \/ ServerStops
  BY <1>6, StopKeeps
<1>7. CASE UNCHANGED dayVars
  <2>1. UNCHANGED <<now, call, rate, total, mode, ceiling, anchor, phase, multiplier, loop,
                    count, emitted, auction, offered, listener, stopping, crossed>>
    BY <1>7 DEF dayVars, clockVars, governor, scheduleVars, settings, market, batch, host
  <2>2. MarketAt(now, anchor)' = MarketAt(now, anchor)
    BY <2>1, MarketStands
  <2>3. Effective' = Effective
    BY <2>1 DEF Effective
  <2> QED  BY <2>1, <2>2, <2>3 DEF DayInv, DayTypes, ThreadInv, HostInv, FreshInv
<1> QED  BY <1>1, <1>2, <1>3, <1>4, <1>5, <1>6, <1>7 DEF DayNext, Loop

(* Nothing is set up yet.                                                  *)
LEMMA DayStart == DayInit => DayInv
<1> SUFFICES ASSUME DayInit PROVE DayInv
  OBVIOUS
<1>1. /\ anchor = -1 /\ phase = "Closed" /\ multiplier = 0
      /\ loop = "none" /\ count = 0 /\ emitted = 0 /\ auction = FALSE /\ offered = 0
      /\ listener = "none" /\ stopping = FALSE /\ crossed = FALSE
      /\ call = "none" /\ total = 0
  BY DEF DayInit, Init
<1>2. PICK s \in Settings : mode = s.mode /\ ceiling = s.ceiling
  BY DEF DayInit
<1>3. [mode |-> mode, ceiling |-> ceiling] \in Settings
  <2>1. s \in [mode : {"Continuous", "CompressedDay", "Scheduled"}, ceiling : Nat]
    BY DayAssumption DEF DayAssumption
  <2>2. s = [mode |-> s.mode, ceiling |-> s.ceiling]
    BY <2>1
  <2> QED  BY <1>2, <2>2
<1>4. DayTypes
  BY <1>1, <1>3 DEF DayTypes, Phases, Multipliers
<1>5. ThreadInv
  BY <1>1 DEF ThreadInv
<1> QED  BY <1>1, <1>4, <1>5 DEF DayInv, HostInv, FreshInv

(* The loop, the session clock and the host in front of it use the governor only as its
   own specification allows, so that every theorem about RateGovernor holds of the day
   (FeedPublisherService.Run). *)
THEOREM DayImplementsGovernor == DaySpec => Spec /\ []DayInv
<1>1. DayInit => Init /\ IInv /\ DayInv
  BY DayStart, InitEstablishes DEF DayInit
<1>2. IInv /\ [Next]_vars => IInv'
  BY IInvPreserved
<1>3. DayInv /\ [DayNext]_dayVars => [Next]_vars
  BY DayStepsGovernor DEF DayInv
<1>4. IInv /\ DayInv /\ [DayNext]_dayVars => DayInv'
  BY DayStep
<1> QED  BY <1>1, <1>2, <1>3, <1>4, PTL DEF DaySpec, Spec

(* The type invariant of the day.                                          *)
THEOREM DayTypeCorrect == DaySpec => []DayTypeOK
<1>1. DayInv => DayTypeOK
  <2> SUFFICES ASSUME DayInv PROVE DayTypeOK
    OBVIOUS
  <2>1. multiplier \in Nat
    BY SettingsKnown DEF DayInv, DayTypes
  <2> QED  BY <2>1 DEF DayInv, DayTypes, DayTypeOK
<1> QED  BY <1>1, DayImplementsGovernor, PTL

(* Time is accounted for across phases, waits that are cancelled and a host that stops
   the loop: paid once, or counted as dropped (RateGovernor.ScheduleBatch). *)
THEOREM DayPaysOnce == DaySpec => []TimePaidOnce
  BY DayImplementsGovernor, TimeConserved, PTL

(* Between batches what was offered is what was scheduled, which the governor accounts
   for: several passes, a stop in the middle of them and a cancelled wait lose nothing. *)
THEOREM PublishedAsScheduled == DaySpec => []ScheduledIsPublished
<1>1. IInv /\ DayInv => ScheduledIsPublished
  <2> SUFFICES ASSUME IInv, DayInv, loop \in {"top", "asking", "pacing", "ended"}
               PROVE  offered * Unit + owed = credit
    BY DEF ScheduledIsPublished
  <2>1. count = 0 /\ emitted = 0 /\ total + emitted = offered + count
    BY DEF DayInv, ThreadInv
  <2>2. total \in Nat /\ offered \in Nat /\ total * Unit + owed = credit
    BY DEF IInv, TypeOK, ExactLongRun, DayInv, DayTypes
  <2>3. offered = total
    BY <2>1, <2>2
  <2> QED  BY <2>2, <2>3
<1> QED  BY <1>1, DayImplementsGovernor, Invariance, PTL

(* The time and the credit of the governor stand still unless a batch is scheduled. *)
LEMMA OnlyBatchesPay ==
  ASSUME [DayNext]_dayVars, paidTicks' # paidTicks
  PROVE  BatchDue
  BY DEF DayNext, Loop, dayVars, Time, ClockAdvances, ClockSetBack, Construct, Bind, Launch,
         Advance, Ask, Call, Pace, Wait, WaitEnds, Pass, PassFails, LoopEnds, Cancel, UserStops,
         FailureStops, StopBegins, ServerStops, governor, scheduleVars

(* A batch takes rate and stamp from the market as it is, unless a boundary has passed
   since the batch before: the error is one batch at a boundary (Run, StampAuctionPrints). *)
THEOREM StaleAtMostOnce == DaySpec => StaleForOneBatch
<1> DEFINE Fresh ==
      ~crossed => LET at == MarketAt(now, anchor)
                  IN  rate = Clamped(at.mult, ceiling)
                      /\ (loop' = "emitting" => auction' = IsAuctionPhase(at.phase))
<1>1. ASSUME IInv, DayInv, [DayNext]_dayVars, paidTicks' # paidTicks
      PROVE  Fresh
  <2> SUFFICES ASSUME ~crossed
               PROVE  /\ rate = Clamped(MarketAt(now, anchor).mult, ceiling)
                      /\ loop' = "emitting" => auction' = IsAuctionPhase(MarketAt(now, anchor).phase)
    OBVIOUS
  <2>1. BatchDue
    BY <1>1, OnlyBatchesPay
  <2>2. /\ loop = "pacing"
        /\ loop' = IF count' = 0 THEN "top" ELSE "emitting"
        /\ auction' = (count' > 0 /\ IsAuctionPhase(phase))
        /\ count' = total' - total
    BY <2>1 DEF BatchDue
  <2>3. phase = MarketAt(now, anchor).phase /\ multiplier = MarketAt(now, anchor).mult
        /\ rate = Effective
    BY <1>1, <2>2 DEF DayInv, FreshInv
  <2>4. rate = Clamped(MarketAt(now, anchor).mult, ceiling)
    BY <2>3 DEF Effective
  <2>5. ASSUME loop' = "emitting"
        PROVE  auction' = IsAuctionPhase(MarketAt(now, anchor).phase)
    <3>1. PICK ticks \in Nat : total' - total = Emitted(owed + ticks * rate)
                               /\ Emitted(owed + ticks * rate) \in Nat
      BY <1>1, <2>1, BatchCount DEF BatchDue
    <3>2. count' \in Nat
      BY <2>2, <3>1
    <3>3. count' > 0
      <4>1. count' # 0
        BY <2>2, <2>5
      <4> QED  BY <3>2, <4>1
    <3>4. IsAuctionPhase(phase) \in BOOLEAN
      BY DEF IsAuctionPhase
    <3> QED  BY Zenon, <2>2, <2>3, <3>3, <3>4
  <2> QED  BY <2>4, <2>5
<1>2. IInv /\ DayInv /\ [DayNext]_dayVars => [paidTicks' # paidTicks => Fresh]_dayVars
  BY <1>1
<1> QED  BY <1>2, DayImplementsGovernor, Invariance, PTL DEF DaySpec, StaleForOneBatch

(* The listener is bound before the first record is published and closed after the last,
   if the host waits for the loop (StartAsync, StopAsync). *)
THEOREM TapeIsCovered ==
  ASSUME Patient
  PROVE  DaySpec => ListenerCoversTape
<1>1. DayInv /\ [DayNext]_dayVars => [offered' # offered => listener = "bound"]_dayVars
  <2> SUFFICES ASSUME DayInv, DayNext, offered' # offered PROVE listener = "bound"
    BY DEF dayVars
  <2>1. loop = "emitting"
    BY DEF DayNext, Loop, Time, Construct, Bind, Launch, Advance, Ask, Pace, BatchDue, Pass,
           PassFails, LoopEnds, UserStops, FailureStops, StopBegins, ServerStops, batch
  <2> QED  BY <2>1 DEF DayInv, HostInv
<1> QED  BY <1>1, DayImplementsGovernor, PTL DEF DaySpec, ListenerCoversTape

(* The largest batch, rounded up, is what the buffer holds.                *)
LEMMA BufferHoldsLargest ==
  ASSUME DayTypes, Largest <= MaxBatchCapacity * Unit
  PROVE  Largest <= BatchCapacity * Unit
<1>1. MinBatchCapacity \in Nat /\ MaxBatchCapacity \in Nat /\ BaseRate \in Nat /\ One \in Nat
  BY DayAssumption DEF DayAssumption
<1>2. Unit \in Nat \ {0} /\ Interval \in Nat /\ MaxCatchUp \in Nat
  BY GovernorAssumption DEF GovernorAssumption
<1>3. Largest \in Nat
  <2>1. ceiling \in Nat
    BY SettingsKnown
  <2> DEFINE peak_ == IF ceiling > BaseRate * One THEN ceiling ELSE BaseRate * One
  <2>2. peak_ \in Nat
    BY <1>1, <2>1
  <2>3. Largest = peak_ * Interval * (1 + MaxCatchUp)
    BY DEF Largest
  <2> HIDE DEF peak_
  <2> QED  BY <1>2, <2>2, <2>3
<1>4. CASE Largest <= MinBatchCapacity * Unit
  BY <1>4 DEF BatchCapacity
<1>5. CASE ~(Largest <= MinBatchCapacity * Unit) /\ Largest >= MaxBatchCapacity * Unit
  BY <1>5 DEF BatchCapacity
<1>6. CASE ~(Largest <= MinBatchCapacity * Unit) /\ ~(Largest >= MaxBatchCapacity * Unit)
  <2> DEFINE q == (Largest + Unit - 1) \div Unit
  <2>1. Largest + Unit - 1 \in Nat
    BY <1>2, <1>3
  <2>2. q \in Nat /\ Largest + Unit - 1 < q * Unit + Unit
    BY <1>2, <2>1, Quotient
  <2>3. BatchCapacity = q
    BY <1>6 DEF BatchCapacity
  <2> HIDE DEF q
  <2>4. q * Unit \in Nat
    BY <1>2, <2>2
  <2>5. Largest <= q * Unit
    BY <1>2, <1>3, <2>2, <2>4
  <2> QED  BY <2>3, <2>5
<1> QED  BY <1>4, <1>5, <1>6

(* A batch is paid at a rate no higher than the ceiling, so it is less than one event
   more than the largest. *)
LEMMA BatchFitsLargest ==
  ASSUME IInv, DayInv, CarryInv, BatchDue
  PROVE  count' \in Nat /\ count' * Unit < Unit + Largest
<1>1. /\ loop = "pacing" /\ rate = Effective /\ count' = total' - total
      /\ ceiling \in Nat /\ BaseRate * One <= ceiling /\ rate \in Nat
  BY SettingsKnown DEF BatchDue, DayInv, FreshInv
<1>2. count' \in Nat
  <2>1. PICK ticks \in Nat : total' - total = Emitted(owed + ticks * rate)
                             /\ Emitted(owed + ticks * rate) \in Nat
    BY BatchCount DEF BatchDue
  <2> QED  BY <1>1, <2>1
<1>3. (total' - total) * Unit < Unit + (1 + MaxCatchUp) * Interval * rate
  BY BurstStep DEF BatchDue, Next
<1>4. rate <= ceiling
  <2>1. BaseRate * multiplier \in Nat
    <3>1. multiplier \in Nat /\ BaseRate \in Nat
      BY SettingsKnown, DayAssumption DEF DayInv, DayTypes, DayAssumption
    <3> QED  BY <3>1
  <2> DEFINE asked == BaseRate * multiplier
  <2>2. asked \in Nat
    BY <2>1
  <2>3. rate = IF asked > ceiling THEN ceiling ELSE asked
    BY <1>1 DEF Effective, Clamped
  <2> HIDE DEF asked
  <2> QED  BY <1>1, <2>2, <2>3
<1>5. Largest = ceiling * Interval * (1 + MaxCatchUp)
  <2> DEFINE base == BaseRate * One
  <2>1. base \in Nat /\ base <= ceiling
    BY <1>1, DayAssumption DEF DayAssumption
  <2>2. Largest = (IF ceiling > base THEN ceiling ELSE base) * Interval * (1 + MaxCatchUp)
    BY DEF Largest
  <2> HIDE DEF base
  <2>3. (IF ceiling > base THEN ceiling ELSE base) = ceiling
    BY <1>1, <2>1
  <2> QED  BY <2>2, <2>3
<1>6. (1 + MaxCatchUp) * Interval * rate <= Largest
  <2> DEFINE k == (1 + MaxCatchUp) * Interval
  <2>1. k \in Nat /\ Interval \in Nat /\ MaxCatchUp \in Nat
    BY GovernorAssumption DEF GovernorAssumption
  <2>2. ceiling * Interval * (1 + MaxCatchUp) = k * ceiling
    BY <1>1, <2>1
  <2> HIDE DEF k
  <2>3. k * rate <= k * ceiling
    BY <1>1, <1>4, <2>1
  <2> QED  BY <1>5, <2>2, <2>3 DEF k
<1>7. count' * Unit < Unit + Largest
  <2> DEFINE pay == (1 + MaxCatchUp) * Interval * rate
             large == ceiling * Interval * (1 + MaxCatchUp)
             made == count' * Unit
  <2>1. /\ pay \in Nat /\ large \in Nat /\ Unit \in Nat /\ made \in Nat
        /\ made < Unit + pay /\ pay <= large
    BY <1>1, <1>2, <1>3, <1>5, <1>6, GovernorAssumption DEF GovernorAssumption
  <2> HIDE DEF pay, large, made
  <2>2. made < Unit + large
    BY <2>1
  <2> QED  BY <1>5, <2>2 DEF large, made
<1> QED  BY <1>2, <1>7

(* A batch of c events of u parts, less than one event more than what b of them hold. *)
LEMMA RoundedUpHolds ==
  ASSUME NEW c \in Nat, NEW b \in Nat, NEW u \in Nat \ {0}, NEW large \in Nat,
         c * u < u + large, large <= b * u
  PROVE  c <= b
<1> SUFFICES ASSUME ~(c <= b) PROVE FALSE
  OBVIOUS
<1>1. b + 1 <= c
  OBVIOUS
<1>2. (b + 1) * u <= c * u
  BY <1>1
<1>3. (b + 1) * u = b * u + u
  OBVIOUS
<1> DEFINE made == c * u
           most == b * u
<1>4. made \in Nat /\ most \in Nat /\ made < u + large /\ large <= most /\ most + u <= made
  BY <1>2, <1>3
<1> HIDE DEF made, most
<1> QED  BY <1>4

(* What a phase that is closed owes is less than an event, and a batch that does not fit
   the buffer is of a size that was cut. *)
FitInv == ClosedIsQuiet /\ OnePass

LEMMA FitKept ==
  ASSUME IInv, DayInv, CarryInv, FitInv, [DayNext]_dayVars
  PROVE  FitInv'
<1>1. CASE BatchDue
  <2>1. UNCHANGED <<ceiling, phase, multiplier>> /\ loop = "pacing" /\ rate = Effective
        /\ count' = total' - total /\ loop' = IF count' = 0 THEN "top" ELSE "emitting"
    BY <1>1 DEF BatchDue, settings, market, DayInv, FreshInv
  <2>2. Largest' = Largest /\ BatchCapacity' = BatchCapacity
    BY <2>1 DEF Largest, BatchCapacity
  <2>3. OnePass'
    <3> SUFFICES ASSUME Largest <= MaxBatchCapacity * Unit PROVE count' <= BatchCapacity
      BY <2>2 DEF OnePass
    <3>1. count' \in Nat /\ count' * Unit < Unit + Largest
      BY <1>1, BatchFitsLargest
    <3>2. Largest <= BatchCapacity * Unit
      BY BufferHoldsLargest DEF DayInv
    <3>3. BatchCapacity \in Nat /\ Unit \in Nat \ {0}
      BY BufferIsUsable, GovernorAssumption DEF DayInv, GovernorAssumption
    <3>4. Largest \in Nat
      <4>1. ceiling \in Nat /\ BaseRate * One \in Nat /\ Interval \in Nat /\ MaxCatchUp \in Nat
        BY SettingsKnown, DayAssumption, GovernorAssumption
           DEF DayInv, DayAssumption, GovernorAssumption
      <4> DEFINE fastest == IF ceiling > BaseRate * One THEN ceiling ELSE BaseRate * One
      <4>2. fastest \in Nat
        BY <4>1
      <4>3. Largest = fastest * Interval * (1 + MaxCatchUp)
        BY DEF Largest
      <4> HIDE DEF fastest
      <4> QED  BY <4>1, <4>2, <4>3
    <3> QED  BY <3>1, <3>2, <3>3, <3>4, RoundedUpHolds
  <2>4. ClosedIsQuiet'
    <3> SUFFICES ASSUME phase = "Closed" PROVE count' = 0
      BY <2>1 DEF ClosedIsQuiet
    <3>1. multiplier = 0 /\ ceiling \in Nat /\ BaseRate \in Nat
      BY SettingsKnown, DayAssumption DEF DayInv, DayTypes, DayAssumption
    <3>2. rate = 0
      BY <2>1, <3>1 DEF Effective, Clamped
    <3>3. PICK ticks \in Nat : count' = Emitted(owed + ticks * rate)
      BY <1>1, <2>1, BatchCount DEF BatchDue
    <3>4. owed \in Nat /\ owed < Unit /\ Unit \in Nat \ {0} /\ IntMax \in Nat \ {0}
      BY GovernorAssumption DEF IInv, TypeOK, CarryInv, GovernorAssumption
    <3>5. owed + ticks * rate = owed
      BY <3>2, <3>4
    <3>6. Emitted(owed) = 0
      <4>1. Unit <= IntMax * Unit
        BY <3>4
      <4>2. owed \div Unit = 0
        BY <3>4
      <4> QED  BY <3>4, <4>1, <4>2 DEF Emitted
    <3> QED  BY <3>3, <3>5, <3>6
  <2> QED  BY <2>3, <2>4 DEF FitInv
<1>2. CASE ~BatchDue
  <2>1. ceiling' = ceiling
        /\ (loop' = "emitting" => loop = "emitting" /\ UNCHANGED <<phase, count>>)
    BY <1>2 DEF DayNext, Loop, dayVars, Time, Construct, Bind, Launch, Advance, Ask, Pace, Pass,
                PassFails, LoopEnds, UserStops, FailureStops, StopBegins, ServerStops, settings,
                market, batch, DayInv, HostInv
  <2>2. Largest' = Largest /\ BatchCapacity' = BatchCapacity
    BY <2>1 DEF Largest, BatchCapacity
  <2> QED  BY <2>1, <2>2 DEF FitInv, ClosedIsQuiet, OnePass
<1> QED  BY <1>1, <1>2

(* If a capped catch-up fits in an int, a closed market emits nothing, not even the
   fraction the phase before left over, and no batch takes a second pass for being larger
   than the buffer was sized for (CalculateBatchCapacity, Run). *)
THEOREM BatchesFit ==
  ASSUME BatchFitsInt
  PROVE  DaySpec => []OnePass /\ []ClosedIsQuiet
<1>1. DayInit => FitInv
  BY DEF DayInit, FitInv, ClosedIsQuiet, OnePass
<1>2. IInv /\ DayInv /\ CarryInv /\ FitInv /\ [DayNext]_dayVars => FitInv'
  BY FitKept
<1>3. Spec => []CarryInv
  BY CarryIsFraction, PTL
<1>4. FitInv => OnePass /\ ClosedIsQuiet
  BY DEF FitInv
<1> QED  BY <1>1, <1>2, <1>3, <1>4, DayImplementsGovernor, Invariance, PTL DEF DaySpec
----------------------------------------------------------------------------
(***************************************************************************)
(* The server.  Each part of the inductive invariant of FeedServer has a   *)
(* lemma of its own, with one step per action; the slots are counted by    *)
(* adding one connection to a finite set or taking one out of it.          *)
(***************************************************************************)


(* Every step leaves the variables of their kinds. *)
LEMMA ShapePreserved ==
  ASSUME ShapeOK, [ServerNext]_serverVars
  PROVE  ShapeOK'
PROOF
<1> USE DEF ShapeOK, Places, Become,
           serverVars, acceptVars, metricVars, stopVars, publishVars
<1>1. ASSUME NEW c \in Connections, Accept(c) PROVE ShapeOK'
  BY <1>1 DEF Accept
<1>2. ASSUME NEW c \in Connections, RejectStopping(c) PROVE ShapeOK'
  BY <1>2 DEF RejectStopping, Reject
<1>3. ASSUME NEW c \in Connections, ClaimSlot(c) PROVE ShapeOK'
  BY <1>3 DEF ClaimSlot
<1>4. ASSUME NEW c \in Connections, RejectFull(c) PROVE ShapeOK'
  BY <1>4 DEF RejectFull, Reject
<1>5. ASSUME NEW c \in Connections, SetupFails(c) PROVE ShapeOK'
  BY <1>5 DEF SetupFails, Reject
<1>6. ASSUME NEW c \in Connections, JoinRoster(c) PROVE ShapeOK'
  BY <1>6 DEF JoinRoster, RosterWith
<1>7. ASSUME NEW c \in Connections, DisposeUnrostered(c) PROVE ShapeOK'
  BY <1>7 DEF DisposeUnrostered
<1>8. ASSUME NEW c \in Connections, CountAccepted(c) PROVE ShapeOK'
  BY <1>8 DEF CountAccepted
<1>9. ASSUME NEW c \in Connections, StartSession(c) PROVE ShapeOK'
  BY <1>9 DEF StartSession
<1>10. ASSUME NEW c \in Connections, StartFails(c) PROVE ShapeOK'
  BY <1>10 DEF StartFails
<1>11. ASSUME NEW c \in Connections, AdmitReturns(c) PROVE ShapeOK'
  BY <1>11 DEF AdmitReturns
<1>12. ASSUME NEW c \in Connections, SessionCloses(c) PROVE ShapeOK'
  BY <1>12 DEF SessionCloses
<1>13. ASSUME NEW c \in Connections, SessionEnds(c) PROVE ShapeOK'
  BY <1>13 DEF SessionEnds
<1>14. ASSUME NEW c \in Connections, LeaveRoster(c) PROVE ShapeOK'
  BY <1>14 DEF LeaveRoster
<1>15. ASSUME NEW c \in Connections, ReleaseSlot(c) PROVE ShapeOK'
  BY <1>15 DEF ReleaseSlot
<1>16. ASSUME NEW c \in Connections, CountClosed(c) PROVE ShapeOK'
  BY <1>16 DEF CountClosed
<1>17. ASSUME NEW c \in Connections, Offer(c) PROVE ShapeOK'
  BY <1>17 DEF Offer
<1>18. CASE AcceptLoopEnds
  BY <1>18 DEF AcceptLoopEnds
<1>19. CASE Publish
  BY <1>19 DEF Publish
<1>20. CASE StopAsync
  BY <1>20 DEF StopAsync
<1>21. CASE CancelShutdown
  BY <1>21 DEF CancelShutdown
<1>22. CASE TakeRoster
  BY <1>22 DEF TakeRoster
<1>23. ASSUME NEW c \in Connections, StopSession(c) PROVE ShapeOK'
  BY <1>23 DEF StopSession
<1>24. CASE StopReturns
  BY <1>24 DEF StopReturns, AllEnded
<1>25. CASE UNCHANGED serverVars
  BY <1>25
<1>26. QED
  BY <1>1, <1>2, <1>3, <1>4, <1>5, <1>6, <1>7, <1>8, <1>9, <1>10, <1>11, <1>12, <1>13, <1>14,
     <1>15, <1>16, <1>17, <1>18, <1>19, <1>20, <1>21, <1>22, <1>23, <1>24, <1>25 DEF ServerNext,
     Admission, Callback, Stopping

(* The accept loop admits one connection at a time: it takes the next only when
   the last has started, failed or been turned away. *)
LEMMA AdmissionPreserved ==
  ASSUME ShapeOK, OneAtATime, [ServerNext]_serverVars
  PROVE  OneAtATime'
PROOF
<1> USE DEF ShapeOK, OneAtATime, BeingAdmitted, Become,
           serverVars, acceptVars, metricVars, stopVars, publishVars
<1>1. ASSUME NEW c \in Connections, Accept(c) PROVE OneAtATime'
  BY <1>1 DEF Accept
<1>2. ASSUME NEW c \in Connections, RejectStopping(c) PROVE OneAtATime'
  BY <1>2 DEF RejectStopping, Reject
<1>3. ASSUME NEW c \in Connections, ClaimSlot(c) PROVE OneAtATime'
  BY <1>3 DEF ClaimSlot
<1>4. ASSUME NEW c \in Connections, RejectFull(c) PROVE OneAtATime'
  BY <1>4 DEF RejectFull, Reject
<1>5. ASSUME NEW c \in Connections, SetupFails(c) PROVE OneAtATime'
  BY <1>5 DEF SetupFails, Reject
<1>6. ASSUME NEW c \in Connections, JoinRoster(c) PROVE OneAtATime'
  BY <1>6 DEF JoinRoster, RosterWith
<1>7. ASSUME NEW c \in Connections, DisposeUnrostered(c) PROVE OneAtATime'
  BY <1>7 DEF DisposeUnrostered
<1>8. ASSUME NEW c \in Connections, CountAccepted(c) PROVE OneAtATime'
  BY <1>8 DEF CountAccepted
<1>9. ASSUME NEW c \in Connections, StartSession(c) PROVE OneAtATime'
  BY <1>9 DEF StartSession
<1>10. ASSUME NEW c \in Connections, StartFails(c) PROVE OneAtATime'
  BY <1>10 DEF StartFails
<1>11. ASSUME NEW c \in Connections, AdmitReturns(c) PROVE OneAtATime'
  BY <1>11 DEF AdmitReturns
<1>12. ASSUME NEW c \in Connections, SessionCloses(c) PROVE OneAtATime'
  BY <1>12 DEF SessionCloses
<1>13. ASSUME NEW c \in Connections, SessionEnds(c) PROVE OneAtATime'
  BY <1>13 DEF SessionEnds
<1>14. ASSUME NEW c \in Connections, LeaveRoster(c) PROVE OneAtATime'
  BY <1>14 DEF LeaveRoster
<1>15. ASSUME NEW c \in Connections, ReleaseSlot(c) PROVE OneAtATime'
  BY <1>15 DEF ReleaseSlot
<1>16. ASSUME NEW c \in Connections, CountClosed(c) PROVE OneAtATime'
  BY <1>16 DEF CountClosed
<1>17. ASSUME NEW c \in Connections, Offer(c) PROVE OneAtATime'
  BY <1>17 DEF Offer
<1>18. CASE AcceptLoopEnds
  BY <1>18 DEF AcceptLoopEnds
<1>19. CASE Publish
  BY <1>19 DEF Publish
<1>20. CASE StopAsync
  BY <1>20 DEF StopAsync
<1>21. CASE CancelShutdown
  BY <1>21 DEF CancelShutdown
<1>22. CASE TakeRoster
  BY <1>22 DEF TakeRoster
<1>23. ASSUME NEW c \in Connections, StopSession(c) PROVE OneAtATime'
  BY <1>23 DEF StopSession
<1>24. CASE StopReturns
  BY <1>24 DEF StopReturns, AllEnded
<1>25. CASE UNCHANGED serverVars
  BY <1>25
<1>26. QED
  BY <1>1, <1>2, <1>3, <1>4, <1>5, <1>6, <1>7, <1>8, <1>9, <1>10, <1>11, <1>12, <1>13, <1>14,
     <1>15, <1>16, <1>17, <1>18, <1>19, <1>20, <1>21, <1>22, <1>23, <1>24, <1>25 DEF ServerNext,
     Admission, Callback, Stopping

(* A session joins the roster before it starts and leaves it only in its callback,
   unless the stop took it first: nobody is in both places, or in neither. *)
LEMMA RosterPreserved ==
  ASSUME ShapeOK, OneAtATime, RosterInv, StopInv, [ServerNext]_serverVars
  PROVE  RosterInv'
PROOF
<1> USE DEF ShapeOK, OneAtATime, BeingAdmitted, RosterInv, StopInv, Listed, Leaving, Become,
           serverVars, acceptVars, metricVars, stopVars, publishVars
<1>1. ASSUME NEW c \in Connections, Accept(c) PROVE RosterInv'
  BY <1>1 DEF Accept
<1>2. ASSUME NEW c \in Connections, RejectStopping(c) PROVE RosterInv'
  BY <1>2 DEF RejectStopping, Reject
<1>3. ASSUME NEW c \in Connections, ClaimSlot(c) PROVE RosterInv'
  BY <1>3 DEF ClaimSlot
<1>4. ASSUME NEW c \in Connections, RejectFull(c) PROVE RosterInv'
  BY <1>4 DEF RejectFull, Reject
<1>5. ASSUME NEW c \in Connections, SetupFails(c) PROVE RosterInv'
  BY <1>5 DEF SetupFails, Reject
<1>6. ASSUME NEW c \in Connections, JoinRoster(c) PROVE RosterInv'
  BY <1>6 DEF JoinRoster, RosterWith
<1>7. ASSUME NEW c \in Connections, DisposeUnrostered(c) PROVE RosterInv'
  BY <1>7 DEF DisposeUnrostered
<1>8. ASSUME NEW c \in Connections, CountAccepted(c) PROVE RosterInv'
  BY <1>8 DEF CountAccepted
<1>9. ASSUME NEW c \in Connections, StartSession(c) PROVE RosterInv'
  BY <1>9 DEF StartSession
<1>10. ASSUME NEW c \in Connections, StartFails(c) PROVE RosterInv'
  BY <1>10 DEF StartFails
<1>11. ASSUME NEW c \in Connections, AdmitReturns(c) PROVE RosterInv'
  BY <1>11 DEF AdmitReturns
<1>12. ASSUME NEW c \in Connections, SessionCloses(c) PROVE RosterInv'
  BY <1>12 DEF SessionCloses
<1>13. ASSUME NEW c \in Connections, SessionEnds(c) PROVE RosterInv'
  BY <1>13 DEF SessionEnds
<1>14. ASSUME NEW c \in Connections, LeaveRoster(c) PROVE RosterInv'
  BY <1>14 DEF LeaveRoster
<1>15. ASSUME NEW c \in Connections, ReleaseSlot(c) PROVE RosterInv'
  BY <1>15 DEF ReleaseSlot
<1>16. ASSUME NEW c \in Connections, CountClosed(c) PROVE RosterInv'
  BY <1>16 DEF CountClosed
<1>17. ASSUME NEW c \in Connections, Offer(c) PROVE RosterInv'
  BY <1>17 DEF Offer
<1>18. CASE AcceptLoopEnds
  BY <1>18 DEF AcceptLoopEnds
<1>19. CASE Publish
  BY <1>19 DEF Publish
<1>20. CASE StopAsync
  BY <1>20 DEF StopAsync
<1>21. CASE CancelShutdown
  BY <1>21 DEF CancelShutdown
<1>22. CASE TakeRoster
  BY <1>22 DEF TakeRoster
<1>23. ASSUME NEW c \in Connections, StopSession(c) PROVE RosterInv'
  BY <1>23 DEF StopSession
<1>24. CASE StopReturns
  BY <1>24 DEF StopReturns, AllEnded
<1>25. CASE UNCHANGED serverVars
  BY <1>25
<1>26. QED
  BY <1>1, <1>2, <1>3, <1>4, <1>5, <1>6, <1>7, <1>8, <1>9, <1>10, <1>11, <1>12, <1>13, <1>14,
     <1>15, <1>16, <1>17, <1>18, <1>19, <1>20, <1>21, <1>22, <1>23, <1>24, <1>25 DEF ServerNext,
     Admission, Callback, Stopping

(* The stop empties the roster when the accept loop has ended, so it stays empty. *)
LEMMA StopPreserved ==
  ASSUME ShapeOK, OneAtATime, RosterInv, StopInv, [ServerNext]_serverVars
  PROVE  StopInv'
PROOF
<1> USE DEF ShapeOK, OneAtATime, BeingAdmitted, RosterInv, StopInv, AllEnded, Listed, Leaving,
     Become,
           serverVars, acceptVars, metricVars, stopVars, publishVars
<1>1. ASSUME NEW c \in Connections, Accept(c) PROVE StopInv'
  BY <1>1 DEF Accept
<1>2. ASSUME NEW c \in Connections, RejectStopping(c) PROVE StopInv'
  BY <1>2 DEF RejectStopping, Reject
<1>3. ASSUME NEW c \in Connections, ClaimSlot(c) PROVE StopInv'
  BY <1>3 DEF ClaimSlot
<1>4. ASSUME NEW c \in Connections, RejectFull(c) PROVE StopInv'
  BY <1>4 DEF RejectFull, Reject
<1>5. ASSUME NEW c \in Connections, SetupFails(c) PROVE StopInv'
  BY <1>5 DEF SetupFails, Reject
<1>6. ASSUME NEW c \in Connections, JoinRoster(c) PROVE StopInv'
  BY <1>6 DEF JoinRoster, RosterWith
<1>7. ASSUME NEW c \in Connections, DisposeUnrostered(c) PROVE StopInv'
  BY <1>7 DEF DisposeUnrostered
<1>8. ASSUME NEW c \in Connections, CountAccepted(c) PROVE StopInv'
  BY <1>8 DEF CountAccepted
<1>9. ASSUME NEW c \in Connections, StartSession(c) PROVE StopInv'
  BY <1>9 DEF StartSession
<1>10. ASSUME NEW c \in Connections, StartFails(c) PROVE StopInv'
  BY <1>10 DEF StartFails
<1>11. ASSUME NEW c \in Connections, AdmitReturns(c) PROVE StopInv'
  BY <1>11 DEF AdmitReturns
<1>12. ASSUME NEW c \in Connections, SessionCloses(c) PROVE StopInv'
  BY <1>12 DEF SessionCloses
<1>13. ASSUME NEW c \in Connections, SessionEnds(c) PROVE StopInv'
  BY <1>13 DEF SessionEnds
<1>14. ASSUME NEW c \in Connections, LeaveRoster(c) PROVE StopInv'
  BY <1>14 DEF LeaveRoster
<1>15. ASSUME NEW c \in Connections, ReleaseSlot(c) PROVE StopInv'
  BY <1>15 DEF ReleaseSlot
<1>16. ASSUME NEW c \in Connections, CountClosed(c) PROVE StopInv'
  BY <1>16 DEF CountClosed
<1>17. ASSUME NEW c \in Connections, Offer(c) PROVE StopInv'
  BY <1>17 DEF Offer
<1>18. CASE AcceptLoopEnds
  BY <1>18 DEF AcceptLoopEnds
<1>19. CASE Publish
  BY <1>19 DEF Publish
<1>20. CASE StopAsync
  BY <1>20 DEF StopAsync
<1>21. CASE CancelShutdown
  BY <1>21 DEF CancelShutdown
<1>22. CASE TakeRoster
  BY <1>22 DEF TakeRoster
<1>23. ASSUME NEW c \in Connections, StopSession(c) PROVE StopInv'
  BY <1>23 DEF StopSession
<1>24. CASE StopReturns
  BY <1>24 DEF StopReturns, AllEnded
<1>25. CASE UNCHANGED serverVars
  BY <1>25
<1>26. QED
  BY <1>1, <1>2, <1>3, <1>4, <1>5, <1>6, <1>7, <1>8, <1>9, <1>10, <1>11, <1>12, <1>13, <1>14,
     <1>15, <1>16, <1>17, <1>18, <1>19, <1>20, <1>21, <1>22, <1>23, <1>24, <1>25 DEF ServerNext,
     Admission, Callback, Stopping

(* A session is counted in before it starts, counted out last, and never rejected. *)
LEMMA LedgerPreserved ==
  ASSUME ShapeOK, LedgerInv, [ServerNext]_serverVars
  PROVE  LedgerInv'
PROOF
<1> USE DEF ShapeOK, LedgerInv, Counted, Become,
           serverVars, acceptVars, metricVars, stopVars, publishVars
<1>1. ASSUME NEW c \in Connections, Accept(c) PROVE LedgerInv'
  BY <1>1 DEF Accept
<1>2. ASSUME NEW c \in Connections, RejectStopping(c) PROVE LedgerInv'
  BY <1>2 DEF RejectStopping, Reject
<1>3. ASSUME NEW c \in Connections, ClaimSlot(c) PROVE LedgerInv'
  BY <1>3 DEF ClaimSlot
<1>4. ASSUME NEW c \in Connections, RejectFull(c) PROVE LedgerInv'
  BY <1>4 DEF RejectFull, Reject
<1>5. ASSUME NEW c \in Connections, SetupFails(c) PROVE LedgerInv'
  BY <1>5 DEF SetupFails, Reject
<1>6. ASSUME NEW c \in Connections, JoinRoster(c) PROVE LedgerInv'
  BY <1>6 DEF JoinRoster, RosterWith
<1>7. ASSUME NEW c \in Connections, DisposeUnrostered(c) PROVE LedgerInv'
  BY <1>7 DEF DisposeUnrostered
<1>8. ASSUME NEW c \in Connections, CountAccepted(c) PROVE LedgerInv'
  BY <1>8 DEF CountAccepted
<1>9. ASSUME NEW c \in Connections, StartSession(c) PROVE LedgerInv'
  BY <1>9 DEF StartSession
<1>10. ASSUME NEW c \in Connections, StartFails(c) PROVE LedgerInv'
  BY <1>10 DEF StartFails
<1>11. ASSUME NEW c \in Connections, AdmitReturns(c) PROVE LedgerInv'
  BY <1>11 DEF AdmitReturns
<1>12. ASSUME NEW c \in Connections, SessionCloses(c) PROVE LedgerInv'
  BY <1>12 DEF SessionCloses
<1>13. ASSUME NEW c \in Connections, SessionEnds(c) PROVE LedgerInv'
  BY <1>13 DEF SessionEnds
<1>14. ASSUME NEW c \in Connections, LeaveRoster(c) PROVE LedgerInv'
  BY <1>14 DEF LeaveRoster
<1>15. ASSUME NEW c \in Connections, ReleaseSlot(c) PROVE LedgerInv'
  BY <1>15 DEF ReleaseSlot
<1>16. ASSUME NEW c \in Connections, CountClosed(c) PROVE LedgerInv'
  BY <1>16 DEF CountClosed
<1>17. ASSUME NEW c \in Connections, Offer(c) PROVE LedgerInv'
  BY <1>17 DEF Offer
<1>18. CASE AcceptLoopEnds
  BY <1>18 DEF AcceptLoopEnds
<1>19. CASE Publish
  BY <1>19 DEF Publish
<1>20. CASE StopAsync
  BY <1>20 DEF StopAsync
<1>21. CASE CancelShutdown
  BY <1>21 DEF CancelShutdown
<1>22. CASE TakeRoster
  BY <1>22 DEF TakeRoster
<1>23. ASSUME NEW c \in Connections, StopSession(c) PROVE LedgerInv'
  BY <1>23 DEF StopSession
<1>24. CASE StopReturns
  BY <1>24 DEF StopReturns, AllEnded
<1>25. CASE UNCHANGED serverVars
  BY <1>25
<1>26. QED
  BY <1>1, <1>2, <1>3, <1>4, <1>5, <1>6, <1>7, <1>8, <1>9, <1>10, <1>11, <1>12, <1>13, <1>14,
     <1>15, <1>16, <1>17, <1>18, <1>19, <1>20, <1>21, <1>22, <1>23, <1>24, <1>25 DEF ServerNext,
     Admission, Callback, Stopping

(* Publish takes its snapshot when the last was finished, so whoever is open has
   every earlier batch and is in the snapshot of the new one. *)
LEMMA OffersPreserved ==
  ASSUME ShapeOK, RosterInv, StopInv, OpenSessionsMissNothing, [ServerNext]_serverVars
  PROVE  OpenSessionsMissNothing'
PROOF
<1> USE DEF ShapeOK, RosterInv, StopInv, OpenSessionsMissNothing, Those, Listed, Become,
           serverVars, acceptVars, metricVars, stopVars, publishVars
<1>1. ASSUME NEW c \in Connections, Accept(c) PROVE OpenSessionsMissNothing'
  BY <1>1 DEF Accept
<1>2. ASSUME NEW c \in Connections, RejectStopping(c) PROVE OpenSessionsMissNothing'
  BY <1>2 DEF RejectStopping, Reject
<1>3. ASSUME NEW c \in Connections, ClaimSlot(c) PROVE OpenSessionsMissNothing'
  BY <1>3 DEF ClaimSlot
<1>4. ASSUME NEW c \in Connections, RejectFull(c) PROVE OpenSessionsMissNothing'
  BY <1>4 DEF RejectFull, Reject
<1>5. ASSUME NEW c \in Connections, SetupFails(c) PROVE OpenSessionsMissNothing'
  BY <1>5 DEF SetupFails, Reject
<1>6. ASSUME NEW c \in Connections, JoinRoster(c) PROVE OpenSessionsMissNothing'
  BY <1>6 DEF JoinRoster, RosterWith
<1>7. ASSUME NEW c \in Connections, DisposeUnrostered(c) PROVE OpenSessionsMissNothing'
  BY <1>7 DEF DisposeUnrostered
<1>8. ASSUME NEW c \in Connections, CountAccepted(c) PROVE OpenSessionsMissNothing'
  BY <1>8 DEF CountAccepted
<1>9. ASSUME NEW c \in Connections, StartSession(c) PROVE OpenSessionsMissNothing'
  BY <1>9 DEF StartSession
<1>10. ASSUME NEW c \in Connections, StartFails(c) PROVE OpenSessionsMissNothing'
  BY <1>10 DEF StartFails
<1>11. ASSUME NEW c \in Connections, AdmitReturns(c) PROVE OpenSessionsMissNothing'
  BY <1>11 DEF AdmitReturns
<1>12. ASSUME NEW c \in Connections, SessionCloses(c) PROVE OpenSessionsMissNothing'
  BY <1>12 DEF SessionCloses
<1>13. ASSUME NEW c \in Connections, SessionEnds(c) PROVE OpenSessionsMissNothing'
  BY <1>13 DEF SessionEnds
<1>14. ASSUME NEW c \in Connections, LeaveRoster(c) PROVE OpenSessionsMissNothing'
  BY <1>14 DEF LeaveRoster
<1>15. ASSUME NEW c \in Connections, ReleaseSlot(c) PROVE OpenSessionsMissNothing'
  BY <1>15 DEF ReleaseSlot
<1>16. ASSUME NEW c \in Connections, CountClosed(c) PROVE OpenSessionsMissNothing'
  BY <1>16 DEF CountClosed
<1>17. ASSUME NEW c \in Connections, Offer(c) PROVE OpenSessionsMissNothing'
  BY <1>17 DEF Offer
<1>18. CASE AcceptLoopEnds
  BY <1>18 DEF AcceptLoopEnds
<1>19. CASE Publish
  BY <1>19 DEF Publish
<1>20. CASE StopAsync
  BY <1>20 DEF StopAsync
<1>21. CASE CancelShutdown
  BY <1>21 DEF CancelShutdown
<1>22. CASE TakeRoster
  BY <1>22 DEF TakeRoster
<1>23. ASSUME NEW c \in Connections, StopSession(c) PROVE OpenSessionsMissNothing'
  BY <1>23 DEF StopSession
<1>24. CASE StopReturns
  BY <1>24 DEF StopReturns, AllEnded
<1>25. CASE UNCHANGED serverVars
  BY <1>25
<1>26. QED
  BY <1>1, <1>2, <1>3, <1>4, <1>5, <1>6, <1>7, <1>8, <1>9, <1>10, <1>11, <1>12, <1>13, <1>14,
     <1>15, <1>16, <1>17, <1>18, <1>19, <1>20, <1>21, <1>22, <1>23, <1>24, <1>25 DEF ServerNext,
     Admission, Callback, Stopping

(* The sets that are counted are finite. *)
LEMMA HoldersFinite ==
  ASSUME ShapeOK
  PROVE  /\ Holders \subseteq Connections
         /\ IsFiniteSet(Holders) /\ IsFiniteSet(Holders \ Those({"full"}))
         /\ Cardinality(Holders) \in Nat /\ Cardinality(Holders \ Those({"full"})) \in Nat
PROOF
<1>1. Holders \subseteq Connections
  BY DEF Holders, Those, ShapeOK
<1>2. IsFiniteSet(Holders) /\ IsFiniteSet(Holders \ Those({"full"}))
  BY <1>1, FS_Subset, ServerAssumption DEF ServerAssumption
<1>3. QED
  BY <1>1, <1>2, FS_CardinalityType

(* A step that moves a slot from one place to another keeps the count. *)
LEMMA SlotKept ==
  ASSUME SlotInv, admitted' = admitted, Holders' = Holders,
         Those({"full"})' = Those({"full"})
  PROVE  SlotInv'
PROOF
BY DEF SlotInv

(* A step that gives one slot back lowers the count by one. *)
LEMMA SlotFreed ==
  ASSUME ShapeOK, SlotInv, NEW c \in Holders,
         admitted' = admitted - 1, Holders' = Holders \ {c},
         Those({"full"})' = Those({"full"}) \ {c}
  PROVE  SlotInv'
PROOF
<1>1. Cardinality(Holders') = Cardinality(Holders) - 1
  BY HoldersFinite, FS_RemoveElement
<1>2. (Holders \ Those({"full"}))' = (Holders \ Those({"full"})) \ {c}
  OBVIOUS
<1> DEFINE Granted == Holders \ Those({"full"})
<1>3. Cardinality(Granted \ {c}) \in {Cardinality(Granted), Cardinality(Granted) - 1}
  BY HoldersFinite, FS_RemoveElement
<1>4. Cardinality(Granted \ {c}) <= MaxSessions
  <2>1. Cardinality(Granted) \in Nat /\ Cardinality(Granted) <= MaxSessions
    BY HoldersFinite DEF SlotInv
  <2> HIDE DEF Granted
  <2>2. QED
    BY <1>3, <2>1, ServerAssumption DEF ServerAssumption
<1>5. QED
  BY <1>1, <1>2, <1>4 DEF SlotInv

(* A claim adds one slot, and one that is served only below the limit. *)
LEMMA SlotClaimed ==
  ASSUME ShapeOK, OneAtATime, RosterInv, SlotInv, NEW c \in Connections, ClaimSlot(c)
  PROVE  SlotInv'
PROOF
<1>1. c \notin Holders
  BY DEF ClaimSlot, Holders, Those, RosterInv, Listed, Leaving
<1>2. Holders' = Holders \cup {c} /\ admitted' = admitted + 1
  BY DEF ClaimSlot, Become, Holders, Those, ShapeOK, acceptVars, stopVars
<1>3. Cardinality(Holders') = admitted + 1
  BY <1>1, <1>2, HoldersFinite, FS_AddElement DEF SlotInv
<1>4. CASE OverLimit
  <2>1. (Holders \ Those({"full"}))' = Holders \ Those({"full"})
    BY <1>1, <1>2, <1>4 DEF ClaimSlot, Become, Those, ShapeOK
  <2>2. QED
    BY <1>2, <1>3, <2>1 DEF SlotInv
<1>5. CASE ~OverLimit
  <2>1. (Holders \ Those({"full"}))' = (Holders \ Those({"full"})) \cup {c}
    BY <1>1, <1>2, <1>5 DEF ClaimSlot, Become, Those, ShapeOK
  <2>2. (Holders \ Those({"full"}))' \subseteq Holders' /\ IsFiniteSet(Holders')
    BY <1>2, HoldersFinite, FS_AddElement
  <2>3. Cardinality((Holders \ Those({"full"}))') <= Cardinality(Holders')
    BY <2>2, FS_Subset
  <2>4. Cardinality((Holders \ Those({"full"}))') \in Nat
    BY <2>2, FS_Subset, FS_CardinalityType
  <2>5. admitted + 1 <= MaxSessions /\ admitted \in Nat
    BY <1>5, HoldersFinite, ServerAssumption DEF OverLimit, SlotInv, ServerAssumption
  <2>6. QED
    BY <1>2, <1>3, <2>3, <2>4, <2>5, ServerAssumption DEF SlotInv, ServerAssumption
<1>6. QED
  BY <1>4, <1>5

(* Every step claims a slot, gives one back, or moves it from one place to another. *)
LEMMA SlotsPreserved ==
  ASSUME ShapeOK, OneAtATime, RosterInv, StopInv, SlotInv, [ServerNext]_serverVars
  PROVE  SlotInv'
PROOF
<1> USE DEF Holders, Those, ShapeOK, OneAtATime, BeingAdmitted, RosterInv, StopInv, Listed, Leaving,
           Become, serverVars, acceptVars, metricVars, stopVars, publishVars
<1>1. ASSUME NEW c \in Connections, Accept(c) PROVE SlotInv'
  <2>1. admitted' = admitted /\ Holders' = Holders /\ Those({"full"})' = Those({"full"})
    BY <1>1 DEF Accept
  <2>2. QED
    BY <2>1, SlotKept
<1>2. ASSUME NEW c \in Connections, RejectStopping(c) PROVE SlotInv'
  <2>1. admitted' = admitted /\ Holders' = Holders /\ Those({"full"})' = Those({"full"})
    BY <1>2 DEF RejectStopping, Reject
  <2>2. QED
    BY <2>1, SlotKept
<1>3. ASSUME NEW c \in Connections, ClaimSlot(c) PROVE SlotInv'
  BY <1>3, SlotClaimed
<1>4. ASSUME NEW c \in Connections, RejectFull(c) PROVE SlotInv'
  <2>1. c \in Holders /\ admitted' = admitted - 1 /\ Holders' = Holders \ {c}
    BY <1>4 DEF RejectFull, Reject
  <2>2. Those({"full"})' = Those({"full"}) \ {c}
    BY <1>4 DEF RejectFull, Reject
  <2>3. QED
    BY <2>1, <2>2, SlotFreed
<1>5. ASSUME NEW c \in Connections, SetupFails(c) PROVE SlotInv'
  <2>1. c \in Holders /\ admitted' = admitted - 1 /\ Holders' = Holders \ {c}
    BY <1>5 DEF SetupFails, Reject
  <2>2. Those({"full"})' = Those({"full"}) \ {c}
    BY <1>5 DEF SetupFails, Reject
  <2>3. QED
    BY <2>1, <2>2, SlotFreed
<1>6. ASSUME NEW c \in Connections, JoinRoster(c) PROVE SlotInv'
  <2>1. admitted' = admitted /\ Holders' = Holders /\ Those({"full"})' = Those({"full"})
    BY <1>6 DEF JoinRoster, RosterWith
  <2>2. QED
    BY <2>1, SlotKept
<1>7. ASSUME NEW c \in Connections, DisposeUnrostered(c) PROVE SlotInv'
  <2>1. c \in Holders /\ admitted' = admitted - 1 /\ Holders' = Holders \ {c}
    BY <1>7 DEF DisposeUnrostered
  <2>2. Those({"full"})' = Those({"full"}) \ {c}
    BY <1>7 DEF DisposeUnrostered
  <2>3. QED
    BY <2>1, <2>2, SlotFreed
<1>8. ASSUME NEW c \in Connections, CountAccepted(c) PROVE SlotInv'
  <2>1. admitted' = admitted /\ Holders' = Holders /\ Those({"full"})' = Those({"full"})
    BY <1>8 DEF CountAccepted
  <2>2. QED
    BY <2>1, SlotKept
<1>9. ASSUME NEW c \in Connections, StartSession(c) PROVE SlotInv'
  <2>1. admitted' = admitted /\ Holders' = Holders /\ Those({"full"})' = Those({"full"})
    BY <1>9 DEF StartSession
  <2>2. QED
    BY <2>1, SlotKept
<1>10. ASSUME NEW c \in Connections, StartFails(c) PROVE SlotInv'
  <2>1. admitted' = admitted /\ Holders' = Holders /\ Those({"full"})' = Those({"full"})
    BY <1>10 DEF StartFails
  <2>2. QED
    BY <2>1, SlotKept
<1>11. ASSUME NEW c \in Connections, AdmitReturns(c) PROVE SlotInv'
  <2>1. admitted' = admitted /\ Holders' = Holders /\ Those({"full"})' = Those({"full"})
    BY <1>11 DEF AdmitReturns
  <2>2. QED
    BY <2>1, SlotKept
<1>12. ASSUME NEW c \in Connections, SessionCloses(c) PROVE SlotInv'
  <2>1. admitted' = admitted /\ Holders' = Holders /\ Those({"full"})' = Those({"full"})
    BY <1>12 DEF SessionCloses
  <2>2. QED
    BY <2>1, SlotKept
<1>13. ASSUME NEW c \in Connections, SessionEnds(c) PROVE SlotInv'
  <2>1. admitted' = admitted /\ Holders' = Holders /\ Those({"full"})' = Those({"full"})
    BY <1>13 DEF SessionEnds
  <2>2. QED
    BY <2>1, SlotKept
<1>14. ASSUME NEW c \in Connections, LeaveRoster(c) PROVE SlotInv'
  <2>1. admitted' = admitted /\ Holders' = Holders /\ Those({"full"})' = Those({"full"})
    BY <1>14 DEF LeaveRoster
  <2>2. QED
    BY <2>1, SlotKept
<1>15. ASSUME NEW c \in Connections, ReleaseSlot(c) PROVE SlotInv'
  <2>1. CASE c \in removed
    <3>1. c \in Holders /\ admitted' = admitted - 1 /\ Holders' = Holders \ {c}
      BY <1>15, <2>1 DEF ReleaseSlot
    <3>2. Those({"full"})' = Those({"full"}) \ {c}
      BY <1>15, <2>1 DEF ReleaseSlot
    <3>3. QED
      BY <3>1, <3>2, SlotFreed
  <2>2. CASE c \notin removed
    <3>1. admitted' = admitted /\ Holders' = Holders /\ Those({"full"})' = Those({"full"})
      BY <1>15, <2>2 DEF ReleaseSlot
    <3>2. QED
      BY <3>1, SlotKept
  <2>3. QED
    BY <2>1, <2>2
<1>16. ASSUME NEW c \in Connections, CountClosed(c) PROVE SlotInv'
  <2>1. admitted' = admitted /\ Holders' = Holders /\ Those({"full"})' = Those({"full"})
    BY <1>16 DEF CountClosed
  <2>2. QED
    BY <2>1, SlotKept
<1>17. ASSUME NEW c \in Connections, Offer(c) PROVE SlotInv'
  <2>1. admitted' = admitted /\ Holders' = Holders /\ Those({"full"})' = Those({"full"})
    BY <1>17 DEF Offer
  <2>2. QED
    BY <2>1, SlotKept
<1>18. CASE AcceptLoopEnds
  <2>1. admitted' = admitted /\ Holders' = Holders /\ Those({"full"})' = Those({"full"})
    BY <1>18 DEF AcceptLoopEnds
  <2>2. QED
    BY <2>1, SlotKept
<1>19. CASE Publish
  <2>1. admitted' = admitted /\ Holders' = Holders /\ Those({"full"})' = Those({"full"})
    BY <1>19 DEF Publish
  <2>2. QED
    BY <2>1, SlotKept
<1>20. CASE StopAsync
  <2>1. admitted' = admitted /\ Holders' = Holders /\ Those({"full"})' = Those({"full"})
    BY <1>20 DEF StopAsync
  <2>2. QED
    BY <2>1, SlotKept
<1>21. CASE CancelShutdown
  <2>1. admitted' = admitted /\ Holders' = Holders /\ Those({"full"})' = Those({"full"})
    BY <1>21 DEF CancelShutdown
  <2>2. QED
    BY <2>1, SlotKept
<1>22. CASE TakeRoster
  <2>1. admitted' = admitted /\ Holders' = Holders /\ Those({"full"})' = Those({"full"})
    BY <1>22 DEF TakeRoster
  <2>2. QED
    BY <2>1, SlotKept
<1>23. ASSUME NEW c \in Connections, StopSession(c) PROVE SlotInv'
  <2>1. admitted' = admitted /\ Holders' = Holders /\ Those({"full"})' = Those({"full"})
    BY <1>23 DEF StopSession
  <2>2. QED
    BY <2>1, SlotKept
<1>24. CASE StopReturns
  <2>1. admitted' = admitted /\ Holders' = Holders /\ Those({"full"})' = Those({"full"})
    BY <1>24 DEF StopReturns, AllEnded
  <2>2. QED
    BY <2>1, SlotKept
<1>25. CASE UNCHANGED serverVars
  <2>1. admitted' = admitted /\ Holders' = Holders /\ Those({"full"})' = Those({"full"})
    BY <1>25
  <2>2. QED
    BY <2>1, SlotKept
<1>26. QED
  BY <1>1, <1>2, <1>3, <1>4, <1>5, <1>6, <1>7, <1>8, <1>9, <1>10, <1>11, <1>12, <1>13, <1>14,
     <1>15, <1>16, <1>17, <1>18, <1>19, <1>20, <1>21, <1>22, <1>23, <1>24, <1>25 DEF ServerNext,
     Admission, Callback, Stopping

(* The whole invariant, from its parts.  That the count of slots is a natural
   number follows from what it counts. *)
LEMMA StepPreserves == ServerInv /\ [ServerNext]_serverVars => ServerInv'
PROOF
<1> SUFFICES ASSUME ServerInv, [ServerNext]_serverVars PROVE ServerInv'
  OBVIOUS
<1>1. /\ ShapeOK /\ OneAtATime /\ RosterInv /\ StopInv /\ LedgerInv
      /\ SlotInv /\ OpenSessionsMissNothing
  BY DEF ServerInv, ServerTypeOK
<1>2. ShapeOK'
  BY <1>1, ShapePreserved
<1>3. OneAtATime' /\ RosterInv' /\ StopInv'
  BY <1>1, AdmissionPreserved, RosterPreserved, StopPreserved
<1>4. LedgerInv' /\ SlotInv' /\ OpenSessionsMissNothing'
  BY <1>1, LedgerPreserved, SlotsPreserved, OffersPreserved
<1>5. admitted' \in Nat
  <2>1. Holders' \subseteq Connections
    BY <1>2 DEF Holders, Those, ShapeOK
  <2>2. IsFiniteSet(Holders')
    BY <2>1, FS_Subset, ServerAssumption DEF ServerAssumption
  <2>3. QED
    BY <1>4, <2>2, FS_CardinalityType DEF SlotInv
<1>6. QED
  BY <1>2, <1>3, <1>4, <1>5 DEF ServerInv, ServerTypeOK

(* The server starts with no connection, no session and nothing counted. *)
LEMMA ServerStarts == ServerInit => ServerInv
PROOF
<1> SUFFICES ASSUME ServerInit PROVE ServerInv
  OBVIOUS
<1>1. ServerTypeOK
  BY DEF ServerInit, ServerTypeOK, ShapeOK, Places
<1>2. OneAtATime /\ RosterInv /\ StopInv /\ LedgerInv
  BY DEF ServerInit, OneAtATime, BeingAdmitted, RosterInv, Listed, StopInv, LedgerInv, Counted
<1>3. SlotInv
  <2>1. Holders = {} /\ Holders \ Those({"full"}) = {}
    BY DEF ServerInit, Holders, Those
  <2>2. QED
    BY <2>1, FS_EmptySet, ServerAssumption DEF SlotInv, ServerInit, ServerAssumption
<1>4. OpenSessionsMissNothing
  BY DEF ServerInit, OpenSessionsMissNothing, Those
<1>5. QED
  BY <1>1, <1>2, <1>3, <1>4 DEF ServerInv

(* The inductive invariant holds of every behaviour. *)
THEOREM ServerInvariance == ServerSpec => []ServerInv
PROOF
BY ServerStarts, StepPreserves, PTL DEF ServerSpec

(* Every variable keeps its type; the count of slots never falls below zero. *)
THEOREM ServerTypeCorrect == ServerSpec => []ServerTypeOK
PROOF
<1>1. ServerInv => ServerTypeOK
  BY DEF ServerInv
<1>2. QED
  BY <1>1, ServerInvariance, PTL

(* Admission never lets more than MaxSessions connections be served at a time:
   whoever is served holds a slot, and only the last claim can be one too many. *)
THEOREM AdmissionIsBounded == ServerSpec => []SlotsBounded
PROOF
<1>1. ServerInv => SlotsBounded
  <2> SUFFICES ASSUME ServerInv PROVE SlotsBounded
    OBVIOUS
  <2>1. IsFiniteSet(Holders \ Those({"full"}))
    BY HoldersFinite DEF ServerInv, ServerTypeOK
  <2>2. Serving \subseteq Holders \ Those({"full"})
    BY DEF ServerInv, RosterInv, Listed, Serving, Those, Holders
  <2>3. Cardinality(Serving) <= Cardinality(Holders \ Those({"full"}))
    BY <2>1, <2>2, FS_Subset
  <2>4. Cardinality(Serving) \in Nat
    BY <2>1, <2>2, FS_Subset, FS_CardinalityType
  <2>5. Cardinality(Holders \ Those({"full"})) \in Nat
    BY HoldersFinite DEF ServerInv, ServerTypeOK
  <2>6. QED
    BY <2>3, <2>4, <2>5, ServerAssumption DEF ServerInv, SlotInv, SlotsBounded, ServerAssumption
<1>2. QED
  BY <1>1, ServerInvariance, PTL

(* Every way through Admit and OnSessionClosed gives back the slot it claimed,
   once: until the stop, the count is the roster and the steps under way. *)
THEOREM SlotsAreConserved == ServerSpec => []SlotsConserved
PROOF
<1>1. ServerInv => SlotsConserved
  <2> SUFFICES ASSUME ServerInv, stop \notin {"draining", "stopped"}
               PROVE  admitted = Cardinality(roster) + Cardinality(Those({"full", "claimed"}))
                                 + Cardinality(Those({"removed"}) \cap removed)
    BY DEF SlotsConserved
  <2> DEFINE Claims == Those({"full", "claimed"})
             Closes == Those({"removed"}) \cap removed
  <2>1. Holders = roster \cup Claims \cup Closes
    BY DEF ServerInv, StopInv, Holders
  <2>2. IsFiniteSet(roster) /\ IsFiniteSet(Claims) /\ IsFiniteSet(Closes)
  <3>1. roster \subseteq Connections /\ Claims \subseteq Connections /\ Closes \subseteq
     Connections
      BY DEF ServerInv, ServerTypeOK, ShapeOK, Those
    <3>2. QED
      BY <3>1, FS_Subset, ServerAssumption DEF ServerAssumption
  <2>3. roster \cap Claims = {} /\ (roster \cup Claims) \cap Closes = {}
    BY DEF ServerInv, RosterInv, Listed, Leaving, Those
  <2> HIDE DEF Claims, Closes
  <2>4. /\ IsFiniteSet(roster \cup Claims)
        /\ Cardinality(roster \cup Claims) =
             Cardinality(roster) + Cardinality(Claims) - Cardinality(roster \cap Claims)
    BY <2>2, FS_Union
  <2>5. Cardinality(roster \cup Claims \cup Closes) =
          Cardinality(roster \cup Claims) + Cardinality(Closes)
          - Cardinality((roster \cup Claims) \cap Closes)
    BY <2>2, <2>4, FS_Union
  <2>6. /\ Cardinality(roster) \in Nat /\ Cardinality(Claims) \in Nat
        /\ Cardinality(Closes) \in Nat
        /\ Cardinality(roster \cap Claims) = 0
        /\ Cardinality((roster \cup Claims) \cap Closes) = 0
    BY <2>2, <2>3, FS_CardinalityType, FS_EmptySet
  <2>7. admitted = Cardinality(roster) + Cardinality(Claims) + Cardinality(Closes)
    BY <2>1, <2>4, <2>5, <2>6 DEF ServerInv, SlotInv
  <2>8. QED
    BY <2>7 DEF Claims, Closes
<1>2. QED
  BY <1>1, ServerInvariance, PTL

(* The ledger never shows fewer sessions than are connected. *)
THEOREM LedgerIsSound == ServerSpec => []LedgerSound
PROOF
<1>1. ServerInv => LedgerSound
  BY DEF ServerInv, LedgerInv, Counted, LedgerSound, Those
<1>2. QED
  BY <1>1, ServerInvariance, PTL

(* No update of the roster loses a session that is open. *)
THEOREM OpenStaysReachable == ServerSpec => []OpenIsReachable
PROOF
<1>1. ServerInv => OpenIsReachable
  BY DEF ServerInv, RosterInv, Listed, OpenIsReachable, Those
<1>2. QED
  BY <1>1, ServerInvariance, PTL

(* The fan-out over a snapshot skips nobody who was open when it was taken. *)
THEOREM FanOutIsComplete == ServerSpec => []OpenSessionsMissNothing
PROOF
<1>1. ServerInv => OpenSessionsMissNothing
  BY DEF ServerInv
<1>2. QED
  BY <1>1, ServerInvariance, PTL

(* When StopAsync has returned nothing is open and nothing will be. *)
THEOREM StopIsComplete == ServerSpec => []NothingOpenAfterStop
PROOF
<1>1. ServerInv => NothingOpenAfterStop
  BY DEF ServerInv, OneAtATime, BeingAdmitted, RosterInv, Listed, Leaving, StopInv, AllEnded,
         NothingOpenAfterStop, Those
<1>2. QED
  BY <1>1, ServerInvariance, PTL
=============================================================================
