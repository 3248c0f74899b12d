--------------------------- MODULE MarketCalendar ---------------------------
(***************************************************************************)
(* EGX's trading calendar: which session a page shows at an instant, and   *)
(* when the next one opens.  Instants and civil times are counted in half  *)
(* hours, which every boundary of the calendar is a multiple of; a civil   *)
(* date is the number of days since 1970-01-01.                            *)
(***************************************************************************)
EXTENDS Integers

CONSTANTS SpringAt,       \* the instant Cairo's summer time begins
          AutumnAt,       \* the instant it ends
          Instants        \* bound: the instants at which something may happen

Hour == 2
Day  == 24 * Hour

(* Egypt's clocks change at the midnight between a Thursday and a Friday, EGX's weekend:
   summer time begins at the end of a winter day and ends at the end of a summer day. *)
ASSUME CalendarAssumption ==
  /\ SpringAt \in Nat /\ AutumnAt \in Nat /\ SpringAt < AutumnAt
  /\ (SpringAt + 2 * Hour) % (7 * Day) = Day /\ (AutumnAt + 3 * Hour) % (7 * Day) = Day
  /\ Instants \subseteq Nat /\ Instants # {}

MarketOpen     == 10 * Hour
MarketClose    == 14 * Hour + 1
PreOpenAuction == 1
Noon           == 12 * Hour

(* Cairo is two hours ahead of UTC, three in summer.                       *)
CairoOffset(t) == IF SpringAt <= t /\ t < AutumnAt THEN 3 * Hour ELSE 2 * Hour

(* The civil fields of an instant; 1970-01-01 was a Thursday, and 0 is Sunday. *)
CairoParts(t) ==
  LET wall == t + CairoOffset(t)
  IN  [date |-> wall \div Day, weekday |-> (wall \div Day + 4) % 7, time |-> wall % Day]

CairoDateKey(t) == CairoParts(t).date

(* The instant of a civil time: two corrections of a guess that takes it for UTC. *)
CairoEpochFor(date, time) ==
  LET wall  == date * Day + time
      guess == wall - CairoOffset(wall)
  IN  wall - CairoOffset(guess)

IsTradingDay(weekday) == weekday \in 0 .. 4

WeekdayOfDateKey(date) == CairoParts(CairoEpochFor(date, Noon)).weekday

ShiftDateKey(date, days) == CairoDateKey(CairoEpochFor(date, Noon) + days * Day)

(* The nearest trading day before (step = -1) or after (step = 1) a date, within a week. *)
NearestTradingDay(date, step) ==
  LET candidate[n \in 0 .. 7] == IF n = 0 THEN date ELSE ShiftDateKey(candidate[n - 1], step)
      trades(n) == IsTradingDay(WeekdayOfDateKey(candidate[n]))
  IN  candidate[CHOOSE n \in 1 .. 7 : trades(n) /\ \A m \in 1 .. n - 1 : ~ trades(m)]
PreviousTradingDateKey(date) == NearestTradingDay(date, -1)
NextTradingDateKey(date)     == NearestTradingDay(date, 1)

(* Mutant: the offset is that of winter all the year. *)
SessionInWinterTime(date) ==
  [session |-> date,
   openAt  |-> date * Day + MarketOpen - 2 * Hour,
   closeAt |-> date * Day + MarketClose - 2 * Hour]

SessionOf(date) ==
  [session |-> date,
   openAt  |-> CairoEpochFor(date, MarketOpen),
   closeAt |-> CairoEpochFor(date, MarketClose)]

(* The session to display at an instant, and when that next changes: at its close
   while it runs, else at the next open.                                   *)
GetMarketStatus(t) ==
  LET today   == SessionOf(CairoDateKey(t))
      trading == IsTradingDay(CairoParts(t).weekday)
      showing(state, shown, next) ==
        [state |-> state, session |-> shown.session, openAt |-> shown.openAt,
         closeAt |-> shown.closeAt, nextChangeAt |-> next]
      closed(shown, next) == showing("closed", SessionOf(shown), CairoEpochFor(next, MarketOpen))
  IN  CASE trading /\ today.openAt <= t /\ t < today.closeAt ->
             showing("open", today, today.closeAt)
        [] trading /\ t < today.openAt ->
             closed(PreviousTradingDateKey(today.session), today.session)
        [] trading /\ t >= today.closeAt ->
             closed(today.session, NextTradingDateKey(today.session))
        [] OTHER ->
             closed(PreviousTradingDateKey(today.session), NextTradingDateKey(today.session))

StatusAt == [t \in Instants |-> GetMarketStatus(t)]

IsPreOpenAuction(market, t) ==
  market.state = "closed" /\ market.nextChangeAt - t \in 1 .. PreOpenAuction

(* How a banner names the next opening: by the viewer's own Cairo day, or by a
   weekday (0 .. 6).                                                       *)
TODAY    == 7
TOMORROW == 8
FormatNextOpen(market, t) ==
  LET open == CairoParts(market.nextChangeAt)
  IN  IF open.date = CairoDateKey(t) THEN TODAY
      ELSE IF open.date = CairoDateKey(t + Day) THEN TOMORROW
      ELSE open.weekday

(* The instant a development clock starts from: a civil time on the latest trading day. *)
SimulatedClockTarget(time, t) ==
  LET today == CairoDateKey(t)
      date  == IF IsTradingDay(CairoParts(t).weekday) THEN today
               ELSE PreviousTradingDateKey(today)
  IN  CairoEpochFor(date, time)
=============================================================================
