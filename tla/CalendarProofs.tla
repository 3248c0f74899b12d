--------------------------- MODULE CalendarProofs ---------------------------
(***************************************************************************)
(* Theorems about the calendar of the exchange, the parts of a page that   *)
(* tell its status, and the source that simulates its market.  They hold   *)
(* for every set of instants, and for a summer time that begins and ends   *)
(* at any of the midnights CalendarAssumption names: those between a       *)
(* Thursday and a Friday, when nothing is traded.                          *)
(*                                                                         *)
(* The calendar comes first: civil time and its correction (PartsOf), the  *)
(* trading days before and after a date, found within the steps the code   *)
(* allows itself, and the status at an instant, which stands until the     *)
(* boundary it names (SoundAt).  Then the header: what its observers have  *)
(* seen, and the timers they set.  Then the simulated source: its engine   *)
(* runs with the session that was last seen open (EngineInv), its delay    *)
(* queue is in order (DelayInv), and its tape is the session's, rebuilt or *)
(* live (TapeInv).                                                         *)
(***************************************************************************)
EXTENDS MarketHeader, SimulatedSource, WellFoundedInduction, TLAPS

(* The constants of the calendar, in half hours.                           *)
LEMMA Units ==
  /\ Hour = 2 /\ Day = 48 /\ Noon = 24 /\ MarketOpen = 20 /\ MarketClose = 29
  /\ PreOpenAuction = 1
BY DEF Hour, Day, Noon, MarketOpen, MarketClose, PreOpenAuction

(* The first day of summer time, and the first day of winter time after it. *)
SpringDay == (SpringAt + 4) \div 48
AutumnDay == (AutumnAt + 6) \div 48
OffsetOn(date) == IF SpringDay <= date /\ date < AutumnDay THEN 6 ELSE 4

(* Where the clocks change, in days: on Fridays.                           *)
LEMMA ChangesAtMidnight ==
  /\ SpringDay \in Int /\ AutumnDay \in Int
  /\ SpringAt = 48 * SpringDay - 4 /\ AutumnAt = 48 * AutumnDay - 6
  /\ SpringAt \in Int /\ AutumnAt \in Int /\ SpringAt < AutumnAt
  /\ SpringDay % 7 = 1 /\ AutumnDay % 7 = 1
  /\ Instants \subseteq Nat /\ Instants # {}
<1>1. /\ SpringAt \in Nat /\ AutumnAt \in Nat /\ SpringAt < AutumnAt
      /\ (SpringAt + 4) % 336 = 48 /\ (AutumnAt + 6) % 336 = 48
  BY CalendarAssumption, Units
<1>2. ASSUME NEW n \in Nat, n % 336 = 48
      PROVE  n \div 48 \in Int /\ n = 48 * (n \div 48) /\ (n \div 48) % 7 = 1
  <2>1. n = 336 * (n \div 336) + 48 /\ n \div 336 \in Nat
    BY <1>2
  <2> DEFINE w == n \div 336
  <2> HIDE DEF w
  <2>2. n = 48 * (7 * w + 1) /\ 7 * w + 1 \in Nat /\ w \in Nat
    BY <2>1 DEF w
  <2>3. n \div 48 = 7 * w + 1
    BY <2>2
  <2>4. (7 * w + 1) % 7 = 1
    BY <2>2
  <2> QED  BY <2>2, <2>3, <2>4
<1>3. SpringAt + 4 \in Nat /\ AutumnAt + 6 \in Nat
  BY <1>1
<1>4. SpringDay \in Int /\ SpringAt + 4 = 48 * SpringDay /\ SpringDay % 7 = 1
  BY <1>1, <1>2, <1>3 DEF SpringDay
<1>5. AutumnDay \in Int /\ AutumnAt + 6 = 48 * AutumnDay /\ AutumnDay % 7 = 1
  BY <1>1, <1>2, <1>3 DEF AutumnDay
<1> QED  BY <1>1, <1>4, <1>5, CalendarAssumption

(* The whole days and the rest of a number of half hours.                  *)
LEMMA Remainders ==
  ASSUME NEW n \in Int
  PROVE  n \div 48 \in Int /\ n % 48 \in 0 .. 47 /\ n = 48 * (n \div 48) + (n % 48)
<1>1. n \div 48 \in Int
  OBVIOUS
<1>2. n % 48 \in 0 .. 47
  OBVIOUS
<1>3. n = 48 * (n \div 48) + (n % 48)
  OBVIOUS
<1> QED  BY <1>1, <1>2, <1>3

(* The civil fields of an instant: its day, and the half hour of that day. *)
LEMMA PartsOf ==
  ASSUME NEW t \in Int
  PROVE  /\ CairoOffset(t) \in {4, 6}
         /\ CairoParts(t).date \in Int /\ CairoParts(t).time \in 0 .. 47
         /\ CairoDateKey(t) = CairoParts(t).date
         /\ t + CairoOffset(t) = 48 * CairoParts(t).date + CairoParts(t).time
         /\ CairoParts(t).weekday = (CairoParts(t).date + 4) % 7
<1>1. CairoOffset(t) \in {4, 6}
  BY Units DEF CairoOffset
<1>2. \A n \in Int : n \div 48 \in Int /\ n % 48 \in 0 .. 47 /\ n = 48 * (n \div 48) + (n % 48)
  BY Remainders
<1>3. t + CairoOffset(t) \in Int
  BY <1>1
<1>4. CairoParts(t) = [date |-> (t + CairoOffset(t)) \div 48,
                       weekday |-> ((t + CairoOffset(t)) \div 48 + 4) % 7,
                       time |-> (t + CairoOffset(t)) % 48]
  BY Units DEF CairoParts
<1> QED  BY <1>1, <1>2, <1>3, <1>4 DEF CairoDateKey

(* A day and a half hour of it are the civil fields of only one reading.   *)
LEMMA FieldsAreUnique ==
  \A d, e \in Int : \A m, n \in 0 .. 47 : 48 * d + m = 48 * e + n => d = e /\ m = n
OBVIOUS

(* Away from midnight the offset is that of the day.                       *)
LEMMA DaytimeOffset ==
  ASSUME NEW date \in Int, NEW t \in Int, 48 * date - 2 <= t, t <= 48 * date + 41
  PROVE  CairoOffset(t) = OffsetOn(date)
BY ChangesAtMidnight, Units DEF CairoOffset, OffsetOn

(* The instant of a civil time of the day, and its offset, away from midnight. *)
LEMMA EpochOf ==
  ASSUME NEW date \in Int, NEW time \in 4 .. 41
  PROVE  /\ CairoEpochFor(date, time) = 48 * date + time - OffsetOn(date)
         /\ CairoEpochFor(date, time) \in Int
         /\ CairoOffset(CairoEpochFor(date, time)) = OffsetOn(date)
<1> USE ChangesAtMidnight, Units
<1> DEFINE wall == 48 * date + time
<1>1. wall \in Int /\ date * 48 + time = wall
  OBVIOUS
<1>2. \A t \in Int : 48 * date - 2 <= t /\ t <= 48 * date + 41 => CairoOffset(t) = OffsetOn(date)
  BY DaytimeOffset
<1>3. CairoOffset(wall) = OffsetOn(date)
  BY <1>1, <1>2
<1>4. OffsetOn(date) \in {4, 6}
  BY DEF OffsetOn
<1>5. CairoOffset(wall - OffsetOn(date)) = OffsetOn(date)
  BY <1>1, <1>2, <1>4
<1>6. CairoEpochFor(date, time) = wall - OffsetOn(date)
  BY <1>1, <1>3, <1>5 DEF CairoEpochFor
<1> QED  BY <1>1, <1>4, <1>5, <1>6


(* The weekday of a date, and the date some days from another.             *)
LEMMA DatesAround ==
  ASSUME NEW date \in Int
  PROVE  /\ WeekdayOfDateKey(date) = (date + 4) % 7
         /\ \A step \in {-1, 1} : ShiftDateKey(date, step) = date + step
<1> USE Units
<1> DEFINE noon == CairoEpochFor(date, Noon)
<1>1. noon = 48 * date + 24 - OffsetOn(date) /\ noon \in Int /\ CairoOffset(noon) = OffsetOn(date)
  BY EpochOf
<1>2. OffsetOn(date) \in {4, 6}
  BY DEF OffsetOn
<1>3. ASSUME NEW k \in -1 .. 1
      PROVE  CairoDateKey(noon + k * 48) = date + k
  <2>1. noon + k * 48 \in Int
    BY <1>1
  <2> DEFINE there == CairoParts(noon + k * 48)
             off == CairoOffset(noon + k * 48)
  <2>2. /\ off \in {4, 6} /\ there.date \in Int /\ there.time \in 0 .. 47
        /\ noon + k * 48 + off = 48 * there.date + there.time
        /\ CairoDateKey(noon + k * 48) = there.date
    BY <2>1, PartsOf
  <2> HIDE DEF noon, there, off
  <2>3. noon + k * 48 + off = 48 * (date + k) + (24 - OffsetOn(date) + off)
    BY <1>1, <1>2, <2>2
  <2>4. date + k \in Int /\ 24 - OffsetOn(date) + off \in 0 .. 47
    BY <1>2, <2>2
  <2>5. 48 * there.date + there.time = 48 * (date + k) + (24 - OffsetOn(date) + off)
    BY <2>2, <2>3
  <2>6. there.date = date + k
    <3>1. \A d \in Int, m \in 0 .. 47, r \in 0 .. 47 : 48 * d + m = 48 * (date + k) + r => d = date + k
      BY <2>4, FieldsAreUnique
    <3> QED  BY <2>2, <2>4, <2>5, <3>1
  <2> QED  BY <2>2, <2>6
<1>4. CairoDateKey(noon) = date
  <2>1. noon + 0 * 48 = noon
    BY <1>1
  <2>2. CairoDateKey(noon + 0 * 48) = date + 0
    BY <1>3
  <2> QED  BY <2>1, <2>2
<1>5. WeekdayOfDateKey(date) = (date + 4) % 7
  BY <1>1, <1>4, PartsOf DEF WeekdayOfDateKey
<1>6. ASSUME NEW step \in {-1, 1}
      PROVE  ShiftDateKey(date, step) = date + step
  BY <1>3, <1>6 DEF ShiftDateKey
<1> QED  BY <1>5, <1>6

Trades(date) == IsTradingDay((date + 4) % 7)

(* The nearest trading day is at most three days away, and no trading day is between. *)
LEMMA NearestOf ==
  ASSUME NEW date \in Int, NEW step \in {-1, 1}
  PROVE  \E n \in 1 .. 3 : /\ NearestTradingDay(date, step) = date + step * n
                           /\ Trades(date + step * n)
                           /\ \A m \in 1 .. n - 1 : ~ Trades(date + step * m)
<1> DEFINE walk(f) == [n \in 0 .. 7 |-> IF n = 0 THEN date ELSE ShiftDateKey(f[n - 1], step)]
           candidate == CHOOSE f : f = walk(f)
           straight == [n \in 0 .. 7 |-> date + step * n]
           trades(n) == IsTradingDay(WeekdayOfDateKey(candidate[n]))
           chosen == CHOOSE n \in 1 .. 7 : trades(n) /\ \A m \in 1 .. n - 1 : ~ trades(m)
<1>1. straight = walk(straight)
  <2>1. ASSUME NEW n \in 1 .. 7
        PROVE  ShiftDateKey(straight[n - 1], step) = date + step * n
    <3>1. n - 1 \in 0 .. 7 /\ straight[n - 1] = date + step * (n - 1) /\ step * (n - 1) \in Int
      OBVIOUS
    <3>2. date + step * (n - 1) \in Int
      BY <3>1
    <3>3. ShiftDateKey(date + step * (n - 1), step) = date + step * (n - 1) + step
      BY <3>2, DatesAround
    <3>4. date + step * (n - 1) + step = date + step * n
      OBVIOUS
    <3> QED  BY <3>1, <3>3, <3>4
  <2>2. straight[0] = date
    OBVIOUS
  <2> QED  BY <2>1, <2>2
<1>2. candidate = walk(candidate)
  BY <1>1
<1> HIDE DEF candidate, straight
<1>3. ASSUME NEW n \in 1 .. 7, candidate[n - 1] \in Int
      PROVE  candidate[n] = candidate[n - 1] + step
  BY <1>2, <1>3, DatesAround
<1>4. candidate[0] = date
  BY <1>2
<1>5. /\ candidate[1] = date + step /\ candidate[2] = date + 2 * step
      /\ candidate[3] = date + 3 * step
  <2>1. candidate[1] = date + step
    BY <1>3, <1>4
  <2>2. candidate[2] = candidate[1] + step
    BY <1>3, <2>1
  <2>3. candidate[3] = candidate[2] + step
    BY <1>3, <2>1, <2>2
  <2> QED  BY <2>1, <2>2, <2>3
<1>6. ASSUME NEW n \in 1 .. 3
      PROVE  candidate[n] = date + step * n /\ (trades(n) <=> Trades(date + step * n))
  <2>1. candidate[n] = date + step * n /\ date + step * n \in Int
    BY <1>5
  <2> QED  BY <2>1, DatesAround DEF Trades
<1> HIDE DEF trades
<1>7. PICK n \in 1 .. 3 : /\ Trades(date + step * n)
                          /\ \A m \in 1 .. n - 1 : ~ Trades(date + step * m)
  <2>1. Trades(date + step * 1) \/ Trades(date + step * 2) \/ Trades(date + step * 3)
    BY DEF Trades, IsTradingDay
  <2> QED  BY <2>1
<1>8. trades(n) /\ \A m \in 1 .. n - 1 : ~ trades(m)
  BY <1>6, <1>7
<1>9. chosen = n
  <2>1. ASSUME NEW k \in 1 .. 7, trades(k), \A m \in 1 .. k - 1 : ~ trades(m)
        PROVE  k = n
    BY <2>1, <1>8
  <2> QED  BY <1>8, <2>1
<1>10. NearestTradingDay(date, step) = candidate[chosen]
  BY DEF NearestTradingDay, trades, candidate
<1> QED  BY <1>6, <1>7, <1>9, <1>10

(* The trading days before and after a date.                               *)
LEMMA NextTradingOf ==
  ASSUME NEW date \in Int
  PROVE  /\ NextTradingDateKey(date) \in Int /\ Trades(NextTradingDateKey(date))
         /\ date < NextTradingDateKey(date) /\ NextTradingDateKey(date) <= date + 3
         /\ \A d \in Int : date < d /\ d < NextTradingDateKey(date) => ~ Trades(d)
<1>1. PICK n \in 1 .. 3 : /\ NearestTradingDay(date, 1) = date + 1 * n
                          /\ Trades(date + 1 * n)
                          /\ \A m \in 1 .. n - 1 : ~ Trades(date + 1 * m)
  BY NearestOf
<1>2. NextTradingDateKey(date) = date + n /\ Trades(date + n)
  BY <1>1 DEF NextTradingDateKey
<1>3. ASSUME NEW d \in Int, date < d, d < date + n
      PROVE  ~ Trades(d)
  <2>1. d - date \in 1 .. n - 1 /\ date + 1 * (d - date) = d
    BY <1>3
  <2> QED  BY <1>1, <2>1
<1> QED  BY <1>2, <1>3

(* The nearest trading day before a date is at most three days back.       *)
LEMMA PreviousTradingOf ==
  ASSUME NEW date \in Int
  PROVE  /\ PreviousTradingDateKey(date) \in Int /\ Trades(PreviousTradingDateKey(date))
         /\ PreviousTradingDateKey(date) < date /\ date - 3 <= PreviousTradingDateKey(date)
         /\ \A d \in Int : PreviousTradingDateKey(date) < d /\ d < date => ~ Trades(d)
<1>1. PICK n \in 1 .. 3 : /\ NearestTradingDay(date, -1) = date + (-1) * n
                          /\ Trades(date + (-1) * n)
                          /\ \A m \in 1 .. n - 1 : ~ Trades(date + (-1) * m)
  BY NearestOf
<1>2. PreviousTradingDateKey(date) = date - n /\ Trades(date - n)
  <2>1. date + (-1) * n = date - n
    OBVIOUS
  <2> QED  BY <1>1, <2>1 DEF PreviousTradingDateKey
<1>3. ASSUME NEW d \in Int, date - n < d, d < date
      PROVE  ~ Trades(d)
  <2>1. date - d \in 1 .. n - 1 /\ date + (-1) * (date - d) = d
    BY <1>3
  <2> QED  BY <1>1, <2>1
<1> QED  BY <1>2, <1>3

Opens(date)  == 48 * date + 20 - OffsetOn(date)
Closes(date) == 48 * date + 29 - OffsetOn(date)

(* The session of a date: it is over before the next day's opens.          *)
LEMMA SessionIs ==
  ASSUME NEW date \in Int
  PROVE  /\ SessionOf(date) = [session |-> date, openAt |-> Opens(date), closeAt |-> Closes(date)]
         /\ CairoEpochFor(date, MarketOpen) = Opens(date)
         /\ Opens(date) \in Int /\ Closes(date) \in Int /\ Closes(date) = Opens(date) + 9
         /\ \A d \in Int : date < d => Closes(date) < Opens(d)
<1>1. OffsetOn(date) \in {4, 6} /\ \A d \in Int : OffsetOn(d) \in {4, 6}
  BY DEF OffsetOn
<1>2. CairoEpochFor(date, MarketOpen) = Opens(date) /\ CairoEpochFor(date, MarketClose) = Closes(date)
  BY EpochOf, Units DEF Opens, Closes
<1>3. Opens(date) \in Int /\ Closes(date) \in Int /\ Closes(date) = Opens(date) + 9
  BY <1>1 DEF Opens, Closes
<1>4. ASSUME NEW d \in Int, date < d
      PROVE  Closes(date) < Opens(d)
  BY <1>1, <1>4 DEF Opens, Closes
<1> QED  BY <1>2, <1>3, <1>4 DEF SessionOf

(* Where an instant lies in its day.                                       *)
LEMMA InTheDay ==
  ASSUME NEW t \in Int
  PROVE  LET date == CairoDateKey(t)  time == CairoParts(t).time
         IN  /\ date \in Int /\ time \in 0 .. 47
             /\ Opens(date) <= t <=> time >= 20
             /\ t < Closes(date) <=> time < 29
             /\ \A d \in Int : d < date => Closes(d) <= t
             /\ \A d \in Int : date < d => t < Opens(d)
<1> DEFINE date == CairoDateKey(t)
           time == CairoParts(t).time
           off == CairoOffset(t)
<1>1. /\ off \in {4, 6} /\ date \in Int /\ time \in 0 .. 47
      /\ t + off = 48 * date + time
  BY PartsOf
<1>2. 4 <= time /\ time <= 41 => off = OffsetOn(date)
  BY <1>1, DaytimeOffset
<1>3. \A d \in Int : OffsetOn(d) \in {4, 6}
  BY DEF OffsetOn
<1> HIDE DEF date, time, off
<1>4. Opens(date) <= t <=> time >= 20
  BY <1>1, <1>2, <1>3 DEF Opens
<1>5. t < Closes(date) <=> time < 29
  BY <1>1, <1>2, <1>3 DEF Closes
<1>6. ASSUME NEW d \in Int, d < date PROVE Closes(d) <= t
  BY <1>1, <1>3, <1>6 DEF Closes
<1>7. ASSUME NEW d \in Int, date < d PROVE t < Opens(d)
  BY <1>1, <1>3, <1>7 DEF Opens
<1> QED  BY <1>1, <1>4, <1>5, <1>6, <1>7 DEF date, time

(* The session last opened at an instant, and the next one to open.        *)
Around(t, s, n) ==
  /\ s \in Int /\ n \in Int /\ Trades(s) /\ Trades(n) /\ s < n
  /\ \A d \in Int : s < d /\ d < n => ~ Trades(d)
  /\ Opens(s) <= t /\ t < Opens(n)

Shown(t, s, n) ==
  [state |-> IF t < Closes(s) THEN "open" ELSE "closed", session |-> s, openAt |-> Opens(s),
   closeAt |-> Closes(s), nextChangeAt |-> IF t < Closes(s) THEN Closes(s) ELSE Opens(n)]

(* The status of an instant is that of the session last opened.            *)
LEMMA StatusOf ==
  ASSUME NEW t \in Int
  PROVE  \E s, n \in Int : Around(t, s, n) /\ GetMarketStatus(t) = Shown(t, s, n)
<1> DEFINE date == CairoDateKey(t)
           time == CairoParts(t).time
           next == NextTradingDateKey(date)
           previous == PreviousTradingDateKey(date)
<1>1. /\ date \in Int /\ time \in 0 .. 47
      /\ Opens(date) <= t <=> time >= 20
      /\ t < Closes(date) <=> time < 29
      /\ \A d \in Int : d < date => Closes(d) <= t
      /\ \A d \in Int : date < d => t < Opens(d)
  BY InTheDay
<1>2. /\ next \in Int /\ Trades(next) /\ date < next
      /\ \A d \in Int : date < d /\ d < next => ~ Trades(d)
  BY <1>1, NextTradingOf
<1>3. /\ previous \in Int /\ Trades(previous) /\ previous < date
      /\ \A d \in Int : previous < d /\ d < date => ~ Trades(d)
  BY <1>1, PreviousTradingOf
<1>4. IsTradingDay(CairoParts(t).weekday) <=> Trades(date)
  BY PartsOf DEF Trades
<1>5. \A d \in Int : /\ SessionOf(d) = [session |-> d, openAt |-> Opens(d), closeAt |-> Closes(d)]
                      /\ CairoEpochFor(d, MarketOpen) = Opens(d)
                      /\ Opens(d) \in Int /\ Closes(d) \in Int /\ Closes(d) = Opens(d) + 9
  BY SessionIs
<1>6. SessionOf(date).openAt = Opens(date) /\ SessionOf(date).closeAt = Closes(date)
      /\ SessionOf(date).session = date
  BY <1>1, <1>5
<1> HIDE DEF date, time, next, previous
<1>7. CASE Trades(date) /\ Opens(date) <= t /\ t < Closes(date)
  <2>1. GetMarketStatus(t) = Shown(t, date, next)
    BY <1>1, <1>4, <1>5, <1>6, <1>7 DEF GetMarketStatus, Shown, date
  <2>2. Around(t, date, next)
    BY <1>1, <1>2, <1>7 DEF Around
  <2> QED  BY <1>1, <1>2, <2>1, <2>2
<1>8. CASE Trades(date) /\ t < Opens(date)
  <2>1. Around(t, previous, date)
    <3>1. Opens(previous) <= t
      BY <1>1, <1>3, <1>5
    <3> QED  BY <1>1, <1>3, <1>8, <3>1 DEF Around
  <2>2. ~ (t < Closes(previous)) /\ ~ (Opens(date) <= t)
    BY <1>1, <1>3, <1>5, <1>8
  <2>3. GetMarketStatus(t) = Shown(t, previous, date)
    BY <1>1, <1>3, <1>4, <1>5, <1>6, <1>8, <2>2 DEF GetMarketStatus, Shown, date, previous
  <2> QED  BY <1>1, <1>3, <2>1, <2>3
<1>9. CASE Trades(date) /\ t >= Closes(date)
  <2>1. ~ (t < Closes(date)) /\ ~ (t < Opens(date)) /\ Opens(date) <= t
    BY <1>1, <1>5, <1>9
  <2>2. Around(t, date, next)
    BY <1>1, <1>2, <1>9, <2>1 DEF Around
  <2>3. GetMarketStatus(t) = Shown(t, date, next)
    BY <1>1, <1>2, <1>4, <1>5, <1>6, <1>9, <2>1 DEF GetMarketStatus, Shown, date, next
  <2> QED  BY <1>1, <1>2, <2>2, <2>3
<1>10. CASE ~ Trades(date)
  <2>1. ~ (t < Closes(previous))
    BY <1>1, <1>3, <1>5
  <2>2. Around(t, previous, next)
    <3>1. Opens(previous) <= t
      BY <1>1, <1>3, <1>5
    <3>2. ASSUME NEW d \in Int, previous < d, d < next
          PROVE  ~ Trades(d)
      <4>1. d < date \/ d = date \/ date < d
        BY <1>1
      <4> QED  BY <1>2, <1>3, <1>10, <3>2, <4>1
    <3>3. previous < next
      BY <1>1, <1>2, <1>3
    <3> QED  BY <1>1, <1>2, <1>3, <3>1, <3>2, <3>3 DEF Around
  <2>3. GetMarketStatus(t) = Shown(t, previous, next)
    BY <1>1, <1>2, <1>3, <1>4, <1>5, <1>6, <1>10, <2>1 DEF GetMarketStatus, Shown, date, previous, next
  <2> QED  BY <1>2, <1>3, <2>2, <2>3
<1>11. Opens(date) \in Int /\ Closes(date) \in Int
  BY <1>1, <1>5
<1> QED  BY <1>7, <1>8, <1>9, <1>10, <1>11

(* Sessions open one after another, and there is a trading day within three days. *)
LEMMA AroundFacts ==
  ASSUME NEW t \in Int, NEW s, NEW n, Around(t, s, n)
  PROVE  /\ s \in Int /\ n \in Int /\ Opens(s) \in Int /\ Opens(n) \in Int /\ Closes(s) \in Int
         /\ Opens(s) <= t /\ t < Opens(n) /\ Closes(s) = Opens(s) + 9 /\ Closes(s) < Opens(n)
         /\ n <= s + 3 /\ Opens(n) <= Opens(s) + 146
<1>1. s \in Int /\ n \in Int /\ s < n /\ Opens(s) <= t /\ t < Opens(n)
  BY DEF Around
<1>2. /\ Opens(s) \in Int /\ Opens(n) \in Int /\ Closes(s) \in Int /\ Closes(s) = Opens(s) + 9
      /\ Closes(s) < Opens(n)
  BY <1>1, SessionIs
<1>3. n <= s + 3
  <2>1. Trades(s + 1) \/ Trades(s + 2) \/ Trades(s + 3)
    BY <1>1 DEF Trades, IsTradingDay
  <2>2. \A k \in 1 .. 3 : s + k \in Int /\ (s + k < n => ~ Trades(s + k))
    BY <1>1 DEF Around
  <2>3. \E k \in 1 .. 3 : ~ (s + k < n)
    BY <2>1, <2>2
  <2> QED  BY <1>1, <2>3
<1>4. Opens(n) <= Opens(s) + 146
  <2>1. OffsetOn(s) \in {4, 6} /\ OffsetOn(n) \in {4, 6}
    BY DEF OffsetOn
  <2> QED  BY <1>1, <1>3, <2>1 DEF Opens
<1> QED  BY <1>1, <1>2, <1>3, <1>4

(* The last and the next session stay the same until the next one opens.   *)
LEMMA AroundStands ==
  ASSUME NEW t \in Int, NEW u \in Int, NEW s, NEW n, NEW p, NEW q,
         Around(t, s, n), Around(u, p, q), t <= u, u < Opens(n)
  PROVE  p = s /\ q = n
<1>1. /\ s \in Int /\ n \in Int /\ p \in Int /\ q \in Int /\ s < n /\ p < q
      /\ Trades(s) /\ Trades(n) /\ Trades(p) /\ Trades(q)
      /\ Opens(s) <= t /\ Opens(p) <= u /\ u < Opens(q)
      /\ \A d \in Int : s < d /\ d < n => ~ Trades(d)
      /\ \A d \in Int : p < d /\ d < q => ~ Trades(d)
  BY DEF Around
<1>2. ASSUME NEW d \in Int, NEW e \in Int, d <= e
      PROVE  Opens(d) \in Int /\ Opens(e) \in Int /\ Opens(d) <= Opens(e)
  <2>1. OffsetOn(d) \in {4, 6} /\ OffsetOn(e) \in {4, 6}
    BY DEF OffsetOn
  <2> QED  BY <1>2, <2>1 DEF Opens
<1>3. ~ (p < s)
  <2>1. SUFFICES ASSUME p < s PROVE FALSE
    OBVIOUS
  <2>2. ~ (s < q)
    BY <1>1, <2>1
  <2>3. Opens(q) \in Int /\ Opens(s) \in Int /\ Opens(q) <= Opens(s)
    BY <1>1, <1>2, <2>2
  <2> QED  BY <1>1, <2>3
<1>4. ~ (s < p)
  <2>1. SUFFICES ASSUME s < p PROVE FALSE
    OBVIOUS
  <2>2. ~ (p < n)
    BY <1>1, <2>1
  <2>3. Opens(n) \in Int /\ Opens(p) \in Int /\ Opens(n) <= Opens(p)
    BY <1>1, <1>2, <2>2
  <2> QED  BY <1>1, <2>3
<1>5. p = s
  BY <1>1, <1>3, <1>4
<1>6. ~ (q < n) /\ ~ (n < q)
  BY <1>1, <1>5
<1> QED  BY <1>1, <1>5, <1>6

(* A status stands until the instant it names, which is yet to come.       *)
LEMMA CalendarStands ==
  ASSUME NEW t \in Int
  PROVE  /\ GetMarketStatus(t).nextChangeAt \in Int /\ GetMarketStatus(t).nextChangeAt > t
         /\ \A u \in Int : t <= u /\ u < GetMarketStatus(t).nextChangeAt =>
              GetMarketStatus(u) = GetMarketStatus(t)
<1>1. PICK s \in Int, n \in Int : Around(t, s, n) /\ GetMarketStatus(t) = Shown(t, s, n)
  BY StatusOf
<1>2. /\ Opens(n) \in Int /\ Closes(s) \in Int /\ t < Opens(n) /\ Closes(s) < Opens(n)
  BY <1>1, AroundFacts
<1>3. GetMarketStatus(t).nextChangeAt = IF t < Closes(s) THEN Closes(s) ELSE Opens(n)
  BY <1>1 DEF Shown
<1>4. ASSUME NEW u \in Int, t <= u, u < GetMarketStatus(t).nextChangeAt
      PROVE  GetMarketStatus(u) = GetMarketStatus(t)
  <2>1. u < Opens(n)
    BY <1>2, <1>3, <1>4
  <2>2. PICK p \in Int, q \in Int : Around(u, p, q) /\ GetMarketStatus(u) = Shown(u, p, q)
    BY StatusOf
  <2>3. p = s /\ q = n
    BY <1>1, <1>4, <2>1, <2>2, AroundStands
  <2>4. (u < Closes(s)) <=> (t < Closes(s))
    BY <1>2, <1>3, <1>4
  <2> QED  BY <1>1, <2>2, <2>3, <2>4 DEF Shown
<1> QED  BY <1>2, <1>3, <1>4

(* The market trades from each session's opening to its close, and at no other time. *)
LEMMA TradingIs ==
  ASSUME NEW t \in Int
  PROVE  TradingAt(t) <=> \E d \in Int : Trades(d) /\ Opens(d) <= t /\ t < Closes(d)
<1> DEFINE date == CairoDateKey(t)
           time == CairoParts(t).time
<1>1. /\ date \in Int /\ time \in 0 .. 47
      /\ Opens(date) <= t <=> time >= 20
      /\ t < Closes(date) <=> time < 29
      /\ \A d \in Int : d < date => Closes(d) <= t
      /\ \A d \in Int : date < d => t < Opens(d)
  BY InTheDay
<1>2. IsTradingDay(CairoParts(t).weekday) <=> Trades(date)
  BY PartsOf DEF Trades
<1>3. MarketOpen .. MarketClose - 1 = 20 .. 28
  BY Units
<1>4. TradingAt(t) <=> Trades(date) /\ time \in 20 .. 28
  BY <1>2, <1>3 DEF TradingAt
<1> HIDE DEF date, time
<1>5. time \in 20 .. 28 <=> Opens(date) <= t /\ t < Closes(date)
  BY <1>1
<1>6. ASSUME NEW d \in Int, Opens(d) <= t, t < Closes(d)
      PROVE  d = date
  <2>1. Opens(d) \in Int /\ Closes(d) \in Int
    BY SessionIs
  <2>2. ~ (d < date) /\ ~ (date < d)
    BY <1>1, <1>6, <2>1
  <2> QED  BY <1>1, <2>2
<1> QED  BY <1>1, <1>4, <1>5, <1>6

(* Between two openings the market trades until the first one's close.     *)
LEMMA AroundTrading ==
  ASSUME NEW t \in Int, NEW s, NEW n, Around(t, s, n)
  PROVE  TradingAt(t) <=> t < Closes(s)
<1>1. /\ s \in Int /\ n \in Int /\ Trades(s) /\ Opens(s) <= t /\ t < Opens(n)
      /\ \A d \in Int : s < d /\ d < n => ~ Trades(d)
      /\ Closes(s) \in Int /\ Opens(s) \in Int /\ Opens(n) \in Int
  BY AroundFacts DEF Around
<1>2. ASSUME NEW d \in Int, Trades(d), Opens(d) <= t, t < Closes(d)
      PROVE  d = s
  <2>1. /\ Opens(d) \in Int /\ Closes(d) \in Int
        /\ d < s => Closes(d) < Opens(s)
    BY <1>1, SessionIs
  <2>2. n < d => Closes(n) < Opens(d) /\ Closes(n) = Opens(n) + 9 /\ Closes(n) \in Int
    BY <1>1, SessionIs
  <2>3. ~ (d < s)
    BY <1>1, <1>2, <2>1
  <2>4. ~ (n < d) /\ d # n
    BY <1>1, <1>2, <2>1, <2>2
  <2>5. ~ (s < d)
    BY <1>1, <1>2, <2>4
  <2> QED  BY <1>1, <2>3, <2>5
<1> QED  BY <1>1, <1>2, TradingIs

(* Whatever lies between the openings around an instant lies between the same. *)
LEMMA AroundMoves ==
  ASSUME NEW t, NEW s, NEW n, Around(t, s, n), NEW u \in Int, Opens(s) <= u, u < Opens(n)
  PROVE  Around(u, s, n)
BY DEF Around

(* An opening is a time of trading, and the half hour before is not.       *)
LEMMA OpeningTrades ==
  ASSUME NEW d \in Int, Trades(d)
  PROVE  TradingAt(Opens(d)) /\ ~ TradingAt(Opens(d) - 1) /\ Opens(d) \in Int
<1>1. Opens(d) \in Int /\ Closes(d) \in Int /\ Closes(d) = Opens(d) + 9
  BY SessionIs
<1>2. TradingAt(Opens(d))
  BY <1>1, TradingIs
<1>3. ASSUME NEW e \in Int, Opens(e) <= Opens(d) - 1, Opens(d) - 1 < Closes(e)
      PROVE  FALSE
  <2>1. Opens(e) \in Int /\ Closes(e) \in Int /\ (e < d => Closes(e) < Opens(d))
    BY SessionIs
  <2>2. d < e => Closes(d) < Opens(e)
    BY SessionIs
  <2> QED  BY <1>1, <1>3, <2>1, <2>2
<1>4. Opens(d) - 1 \in Int
  BY <1>1
<1>5. ~ TradingAt(Opens(d) - 1)
  BY <1>3, <1>4, TradingIs
<1> QED  BY <1>1, <1>2, <1>5

(* An opening falls on its own date, and by its own weekday.               *)
LEMMA OpeningIs ==
  ASSUME NEW d \in Int
  PROVE  /\ CairoParts(Opens(d)).date = d /\ CairoParts(Opens(d)).time = 20
         /\ CairoParts(Opens(d)).weekday = (d + 4) % 7
         /\ CairoDateKey(Opens(d)) = d
<1>1. Opens(d) \in Int /\ Opens(d) + OffsetOn(d) = 48 * d + 20 /\ OffsetOn(d) \in {4, 6}
  BY DEF Opens, OffsetOn
<1>2. CairoOffset(Opens(d)) = OffsetOn(d)
  BY <1>1, DaytimeOffset
<1> DEFINE there == CairoParts(Opens(d))
<1>3. /\ there.date \in Int /\ there.time \in 0 .. 47
      /\ Opens(d) + CairoOffset(Opens(d)) = 48 * there.date + there.time
      /\ CairoDateKey(Opens(d)) = there.date /\ there.weekday = (there.date + 4) % 7
  BY <1>1, PartsOf
<1> HIDE DEF there
<1>4. 48 * there.date + there.time = 48 * d + 20
  BY <1>1, <1>2, <1>3
<1>5. there.date = d /\ there.time = 20
  BY <1>3, <1>4, FieldsAreUnique
<1> QED  BY <1>3, <1>5 DEF there

(* What the rest uses of the assumptions on the calendar.                  *)
LEMMA InstantsAreNat == Instants \subseteq Nat /\ Instants # {}
BY CalendarAssumption

(* A set of natural numbers has a least member.                            *)
LEMMA LeastOf ==
  ASSUME NEW S, S \subseteq Nat, S # {}
  PROVE  \E x \in S : \A y \in S : x <= y
<1>1. PICK x \in S : \A y \in S : ~ (<<y, x>> \in OpToRel(<, Nat))
  BY WFMin, NatLessThanWellFounded
<1>2. ASSUME NEW y \in S, y < x
      PROVE  FALSE
  <2>1. <<y, x>> \in OpToRel(<, Nat)
    BY <1>2 DEF OpToRel
  <2> QED  BY <1>1, <2>1
<1> QED  BY <1>2

(* A set of numbers with a bound has a greatest member.                    *)
LEMMA MaxOf ==
  ASSUME NEW S, S \subseteq Int, S # {}, NEW bound \in Int, \A y \in S : y <= bound
  PROVE  Max(S) \in S /\ \A y \in S : y <= Max(S)
<1> DEFINE below == {bound - y : y \in S}
<1>1. below \subseteq Nat /\ below # {}
  <2>1. \A y \in S : bound - y \in Nat
    OBVIOUS
  <2> QED  BY <2>1
<1>2. PICK x \in below : \A y \in below : x <= y
  BY <1>1, LeastOf
<1>3. PICK m \in S : x = bound - m
  BY <1>2
<1>4. \A y \in S : bound - m <= bound - y
  BY <1>2, <1>3
<1>5. \A y \in S : m >= y
  BY <1>4
<1>6. Max(S) \in S /\ \A y \in S : Max(S) >= y
  BY <1>5 DEF Max
<1> QED  BY <1>6

(* The least of a set of numbers that has one.                             *)
LEMMA MinIs ==
  ASSUME NEW S, S \subseteq Int, NEW x \in S, \A y \in S : x <= y
  PROVE  Min(S) = x
<1>1. \A z \in S : (\A y \in S : z <= y) => z = x
  <2>1. ASSUME NEW z \in S, \A y \in S : z <= y
        PROVE  z = x
    BY <2>1
  <2> QED  BY <2>1
<1>2. (CHOOSE z \in S : \A y \in S : z <= y) = x
  BY <1>1
<1> QED  BY <1>2 DEF Min

(* The greater of two numbers.                                             *)
LEMMA MaxOfTwo ==
  ASSUME NEW a \in Int, NEW b \in Int
  PROVE  /\ Max({a, b}) \in Int /\ a <= Max({a, b}) /\ b <= Max({a, b})
         /\ Max({a, b}) = a \/ Max({a, b}) = b
<1> DEFINE bound == IF a <= b THEN b ELSE a
<1>1. bound \in Int /\ {a, b} \subseteq Int /\ {a, b} # {} /\ \A y \in {a, b} : y <= bound
  OBVIOUS
<1>2. Max({a, b}) \in {a, b} /\ \A y \in {a, b} : y <= Max({a, b})
  <2> HIDE DEF bound
  <2> QED  BY <1>1, MaxOf
<1> QED  BY <1>2

(* No trading day is a Friday or a Saturday.                               *)
LEMMA WeekendsRest ==
  ASSUME NEW d \in Int, d % 7 = 1
  PROVE  ~ Trades(d) /\ ~ Trades(d + 1)
<1>1. (d + 4) % 7 = 5 /\ (d + 5) % 7 = 6
  OBVIOUS
<1>2. d + 1 + 4 = d + 5
  OBVIOUS
<1> QED  BY <1>1, <1>2 DEF Trades, IsTradingDay

(* A day from now is tomorrow, as far as a trading day after today can tell: the days on
   which the clocks change are not traded.                                 *)
LEMMA ADayFromNow ==
  ASSUME NEW t \in Int, NEW n \in Int, Trades(n), n # CairoDateKey(t)
  PROVE  n = CairoDateKey(t + 48) <=> n = CairoDateKey(t) + 1
<1> DEFINE date == CairoDateKey(t)
           then == CairoDateKey(t + 48)
           time == CairoParts(t).time
           later == CairoParts(t + 48).time
           off == CairoOffset(t)
           change == CairoOffset(t + 48)
<1>1. t + 48 \in Int
  OBVIOUS
<1>2. /\ off \in {4, 6} /\ date \in Int /\ time \in 0 .. 47
      /\ t + off = 48 * date + time
  BY PartsOf
<1>3. /\ change \in {4, 6} /\ then \in Int /\ later \in 0 .. 47
      /\ t + 48 + change = 48 * then + later
  BY <1>1, PartsOf
<1>4. off = (IF SpringAt <= t /\ t < AutumnAt THEN 6 ELSE 4)
      /\ change = (IF SpringAt <= t + 48 /\ t + 48 < AutumnAt THEN 6 ELSE 4)
  BY Units DEF CairoOffset
<1>5. ~ Trades(SpringDay) /\ ~ Trades(SpringDay + 1) /\ ~ Trades(AutumnDay)
  BY ChangesAtMidnight, WeekendsRest
<1>6. n # SpringDay /\ n # SpringDay + 1 /\ n # AutumnDay
  BY <1>5
<1> HIDE DEF date, then, time, later, off, change
<1>7. CASE off = change
  BY <1>2, <1>3, <1>7 DEF date, then
<1>8. CASE off = 4 /\ change = 6
  <2>1. t < 48 * SpringDay - 4 /\ 48 * SpringDay - 4 <= t + 48
    BY <1>4, <1>8, ChangesAtMidnight
  <2>2. date = SpringDay - 1
    BY <1>2, <1>8, <2>1, ChangesAtMidnight
  <2>3. then \in {SpringDay, SpringDay + 1}
    BY <1>2, <1>3, <1>8, <2>2, ChangesAtMidnight
  <2> QED  BY <1>6, <2>2, <2>3, ChangesAtMidnight DEF date, then
<1>9. CASE off = 6 /\ change = 4
  <2>1. t < 48 * AutumnDay - 6 /\ 48 * AutumnDay - 6 <= t + 48
    BY <1>4, <1>9, ChangesAtMidnight
  <2>2. date = AutumnDay - 1
    BY <1>2, <1>9, <2>1, ChangesAtMidnight
  <2>3. then \in {AutumnDay - 1, AutumnDay}
    BY <1>2, <1>3, <1>9, <2>2, ChangesAtMidnight
  <2> QED  BY <1>6, <2>2, <2>3, ChangesAtMidnight DEF date, then
<1> QED  BY <1>2, <1>3, <1>7, <1>8, <1>9

----------------------------------------------------------------------------
(* The calendar against a search of the half hours around an instant       *)

(* The market is open exactly in trading hours.                            *)
LEMMA OpenIsTrading ==
  ASSUME NEW t \in Int
  PROVE  (GetMarketStatus(t).state = "open") <=> TradingAt(t)
<1>1. PICK s \in Int, n \in Int : Around(t, s, n) /\ GetMarketStatus(t) = Shown(t, s, n)
  BY StatusOf
<1>2. (GetMarketStatus(t).state = "open") <=> t < Closes(s)
  BY <1>1 DEF Shown
<1> QED  BY <1>1, <1>2, AroundTrading

(* A status names the first change there is.                               *)
LEMMA FirstChange ==
  ASSUME NEW t \in Int
  PROVE  GetMarketStatus(t).nextChangeAt =
           Min({u \in t + 1 .. t + 8 * Day : TradingAt(u) # TradingAt(t)})
<1> DEFINE next == GetMarketStatus(t).nextChangeAt
           changes == {u \in t + 1 .. t + 8 * Day : TradingAt(u) # TradingAt(t)}
<1>1. PICK s \in Int, n \in Int : Around(t, s, n) /\ GetMarketStatus(t) = Shown(t, s, n)
  BY StatusOf
<1>2. /\ Opens(s) \in Int /\ Opens(n) \in Int /\ Closes(s) \in Int
      /\ Opens(s) <= t /\ t < Opens(n) /\ Closes(s) = Opens(s) + 9 /\ Closes(s) < Opens(n)
      /\ Opens(n) <= Opens(s) + 146
  BY <1>1, AroundFacts
<1>3. next = IF t < Closes(s) THEN Closes(s) ELSE Opens(n)
  BY <1>1 DEF Shown
<1>4. \A u \in Int : Opens(s) <= u /\ u < Opens(n) => (TradingAt(u) <=> u < Closes(s))
  BY <1>1, AroundMoves, AroundTrading
<1>5. TradingAt(Opens(n))
  BY <1>1, OpeningTrades DEF Around
<1>6. \A u : TradingAt(u) \in BOOLEAN
  BY DEF TradingAt
<1>7. t + 8 * Day = t + 384
  BY Units
<1> HIDE DEF next
<1>8. next \in t + 1 .. t + 384
  BY <1>2, <1>3
<1>9. CASE t < Closes(s)
  <2>1. TradingAt(t)
    BY <1>2, <1>4, <1>9
  <2>2. ~ TradingAt(next)
    BY <1>2, <1>3, <1>4, <1>9
  <2>3. ASSUME NEW u \in t + 1 .. t + 384, ~ TradingAt(u)
        PROVE  next <= u
    BY <1>2, <1>3, <1>4, <1>9, <2>3
  <2>4. next \in changes /\ \A u \in changes : next <= u
    BY <1>6, <1>7, <1>8, <2>1, <2>2, <2>3
  <2> QED  BY <1>7, <2>4, MinIs DEF next
<1>10. CASE ~ (t < Closes(s))
  <2>1. ~ TradingAt(t)
    BY <1>2, <1>4, <1>10
  <2>2. TradingAt(next)
    BY <1>3, <1>5, <1>10
  <2>3. ASSUME NEW u \in t + 1 .. t + 384, TradingAt(u)
        PROVE  next <= u
    <3>1. u < Opens(n) => u < Closes(s)
      BY <1>2, <1>4, <2>3
    <3> QED  BY <1>2, <1>3, <1>10, <2>3, <3>1
  <2>4. next \in changes /\ \A u \in changes : next <= u
    BY <1>6, <1>7, <1>8, <2>1, <2>2, <2>3
  <2> QED  BY <1>7, <2>4, MinIs DEF next
<1> QED  BY <1>9, <1>10

(* The session shown is the latest that has opened.                        *)
LEMMA LatestSession ==
  ASSUME NEW t \in Int
  PROVE  LET shown == GetMarketStatus(t)
         IN  /\ shown.openAt <= t /\ TradingAt(shown.openAt) /\ ~ TradingAt(shown.openAt - 1)
             /\ \A u \in shown.openAt + 1 .. t : TradingAt(u) => u < shown.closeAt
<1>1. PICK s \in Int, n \in Int : Around(t, s, n) /\ GetMarketStatus(t) = Shown(t, s, n)
  BY StatusOf
<1>2. GetMarketStatus(t).openAt = Opens(s) /\ GetMarketStatus(t).closeAt = Closes(s)
  BY <1>1 DEF Shown
<1>3. Opens(s) \in Int /\ Opens(s) <= t /\ t < Opens(n) /\ Opens(n) \in Int
  BY <1>1, AroundFacts
<1>4. TradingAt(Opens(s)) /\ ~ TradingAt(Opens(s) - 1)
  BY <1>1, OpeningTrades DEF Around
<1>5. ASSUME NEW u \in Opens(s) + 1 .. t, TradingAt(u)
      PROVE  u < Closes(s)
  <2>1. u \in Int /\ Opens(s) <= u /\ u < Opens(n)
    BY <1>3
  <2>2. Around(u, s, n)
    BY <1>1, <2>1, AroundMoves
  <2> QED  BY <1>5, <2>1, <2>2, AroundTrading
<1> QED  BY <1>2, <1>3, <1>4, <1>5

(* The pre-open auction is the last half hour before an opening.           *)
LEMMA AuctionIs ==
  ASSUME NEW t \in Int
  PROVE  IsPreOpenAuction(GetMarketStatus(t), t) <=> (~ TradingAt(t) /\ TradingAt(t + 1))
<1>1. PICK s \in Int, n \in Int : Around(t, s, n) /\ GetMarketStatus(t) = Shown(t, s, n)
  BY StatusOf
<1>2. /\ Opens(s) \in Int /\ Opens(n) \in Int /\ Closes(s) \in Int
      /\ Opens(s) <= t /\ t < Opens(n) /\ Closes(s) < Opens(n)
  BY <1>1, AroundFacts
<1>3. \A u \in Int : Opens(s) <= u /\ u < Opens(n) => (TradingAt(u) <=> u < Closes(s))
  BY <1>1, AroundMoves, AroundTrading
<1>4. TradingAt(Opens(n))
  BY <1>1, OpeningTrades DEF Around
<1>5. IsPreOpenAuction(GetMarketStatus(t), t) <=> ~ (t < Closes(s)) /\ Opens(n) - t = 1
  <2>1. CASE t < Closes(s)
    BY <1>1, <2>1 DEF IsPreOpenAuction, Shown
  <2>2. CASE ~ (t < Closes(s))
    <3>1. GetMarketStatus(t).state = "closed" /\ GetMarketStatus(t).nextChangeAt = Opens(n)
      BY <1>1, <2>2 DEF Shown
    <3>2. Opens(n) - t \in 1 .. 1 <=> Opens(n) - t = 1
      BY <1>2
    <3> QED  BY <2>2, <3>1, <3>2, Units DEF IsPreOpenAuction
  <2> QED  BY <2>1, <2>2
<1>6. CASE t + 1 < Opens(n)
  <2>1. TradingAt(t + 1) <=> t + 1 < Closes(s)
    BY <1>2, <1>3, <1>6
  <2>2. TradingAt(t) <=> t < Closes(s)
    BY <1>2, <1>3
  <2>3. t + 1 < Closes(s) => t < Closes(s)
    BY <1>2
  <2>4. Opens(n) - t # 1
    BY <1>2, <1>6
  <2> QED  BY <1>5, <2>1, <2>2, <2>3, <2>4
<1>7. CASE ~ (t + 1 < Opens(n))
  <2>1. Opens(n) = t + 1 /\ Opens(n) - t = 1
    BY <1>2, <1>7
  <2>2. TradingAt(t) <=> t < Closes(s)
    BY <1>2, <1>3
  <2> QED  BY <1>4, <1>5, <2>1, <2>2
<1> QED  BY <1>6, <1>7

(* The next opening is called today, tomorrow or by its weekday.           *)
LEMMA OpeningIsNamed ==
  ASSUME NEW t \in Int, GetMarketStatus(t).state = "closed"
  PROVE  LET shown == GetMarketStatus(t)
             away  == CairoDateKey(shown.nextChangeAt) - CairoDateKey(t)
         IN  FormatNextOpen(shown, t) =
               CASE away = 0 -> TODAY [] away = 1 -> TOMORROW
                 [] OTHER -> CairoParts(shown.nextChangeAt).weekday
<1>1. PICK s \in Int, n \in Int : Around(t, s, n) /\ GetMarketStatus(t) = Shown(t, s, n)
  BY StatusOf
<1>2. GetMarketStatus(t).nextChangeAt = Opens(n)
  BY <1>1 DEF Shown
<1>3. n \in Int /\ Trades(n) /\ CairoParts(Opens(n)).date = n /\ CairoDateKey(Opens(n)) = n
  BY <1>1, OpeningIs DEF Around
<1>4. CairoDateKey(t) \in Int
  BY PartsOf
<1> DEFINE date == CairoDateKey(t)
           then == CairoDateKey(t + Day)
           weekday == CairoParts(Opens(n)).weekday
<1>5. n # date => (n = then <=> n = date + 1)
  BY <1>3, ADayFromNow, Units
<1>6. FormatNextOpen(GetMarketStatus(t), t) =
        IF n = date THEN TODAY ELSE IF n = then THEN TOMORROW ELSE weekday
  BY <1>2, <1>3 DEF FormatNextOpen
<1> HIDE DEF date, then, weekday
<1>7. (n - date = 0 <=> n = date) /\ (n - date = 1 <=> n = date + 1)
  BY <1>3, <1>4 DEF date
<1>8. ~ (n = date /\ n = date + 1)
  BY <1>3, <1>4 DEF date
<1>9. CASE n = date
  <2>1. ~ (n - date = 1) /\ n - date = 0
    BY <1>7, <1>8, <1>9
  <2> QED  BY <1>2, <1>3, <1>6, <1>7, <1>9, <2>1 DEF date, weekday
<1>10. CASE n # date
  BY <1>2, <1>3, <1>5, <1>6, <1>7, <1>10 DEF date, weekday
<1> QED  BY <1>9, <1>10

(* The development clock lands on an opening that is not after today.      *)
LEMMA ClockIsStaged ==
  ASSUME NEW t \in Int
  PROVE  LET staged == CairoParts(SimulatedClockTarget(MarketOpen, t))
         IN  IsTradingDay(staged.weekday) /\ staged.time = MarketOpen /\ staged.date <= CairoDateKey(t)
<1> DEFINE today == CairoDateKey(t)
           date == IF IsTradingDay(CairoParts(t).weekday) THEN today ELSE PreviousTradingDateKey(today)
<1>1. today \in Int /\ CairoParts(t).weekday = (today + 4) % 7
  BY PartsOf
<1>2. date \in Int /\ Trades(date) /\ date <= today
  <2>1. CASE IsTradingDay(CairoParts(t).weekday)
    <3>1. date = today
      BY <2>1
    <3> QED  BY <1>1, <2>1, <3>1 DEF Trades
  <2>2. CASE ~ IsTradingDay(CairoParts(t).weekday)
    <3>1. date = PreviousTradingDateKey(today)
      BY <2>2
    <3> QED  BY <1>1, <3>1, PreviousTradingOf
  <2> QED  BY <2>1, <2>2
<1>3. SimulatedClockTarget(MarketOpen, t) = CairoEpochFor(date, MarketOpen)
  BY DEF SimulatedClockTarget
<1> HIDE DEF date
<1>4. CairoEpochFor(date, MarketOpen) = Opens(date)
  BY <1>2, SessionIs
<1>5. /\ CairoParts(Opens(date)).date = date /\ CairoParts(Opens(date)).time = 20
      /\ CairoParts(Opens(date)).weekday = (date + 4) % 7
  BY <1>2, OpeningIs
<1> QED  BY <1>2, <1>3, <1>4, <1>5, Units DEF Trades

(* All of it, at every instant.                                            *)
LEMMA CalendarIsSound ==
  ASSUME NEW t \in Int
  PROVE  SoundAt(t)
<1> DEFINE before == GetMarketStatus(t - 1)
<1>1. before.nextChangeAt > t => GetMarketStatus(t) = before
  <2>1. t - 1 \in Int
    OBVIOUS
  <2>2. before.nextChangeAt \in Int /\ \A u \in Int : t - 1 <= u /\ u < before.nextChangeAt =>
          GetMarketStatus(u) = before
    BY <2>1, CalendarStands
  <2> HIDE DEF before
  <2> QED  BY <2>2
<1> QED
  BY <1>1, OpenIsTrading, FirstChange, LatestSession, AuctionIs, OpeningIsNamed, ClockIsStaged
  DEF SoundAt

----------------------------------------------------------------------------
ConnStates == {"connecting", "connected", "reconnecting", "closed"}
StreamsSeen == Streams \cup {None}
Statuses == {StatusAt[t] : t \in Instants}

HeaderTypes ==
  /\ now \in Instants
  /\ conn \in ConnStates /\ identity \in StreamsSeen
  /\ stage \in [Observers -> {"away", "rendered", "watching"}]
  /\ status \in [Observers -> Statuses]
  /\ view \in [state : ConnStates, heldSince : Int]
  /\ badge \in [stream : StreamsSeen, flips : Nat, flippedFrom : StreamsSeen]
  /\ recovery \in [shown : BOOLEAN, interrupted : BOOLEAN]
  /\ outage \in [at : Int, retried : BOOLEAN]

Agreed ==
  /\ stage["pill"] # "away" /\ "pill" \notin missed => pill = conn
  /\ stage["badge"] # "away" /\ "badge" \notin missed => badge.stream = identity
  /\ stage["board"] # "away" /\ "board" \notin missed =>
       view.state = conn /\ viewerStream = identity

OutageKnown ==
  /\ IsHeld(conn) => outage # NoOutage
  /\ stage["board"] = "rendered" /\ heardFrom # Never => view.state = conn
  /\ stage["board"] # "watching" => ~recovery.interrupted
  /\ heardFrom # Never /\ recovery.interrupted => outage # NoOutage

PageInv == HeaderTypes /\ Agreed /\ OutageKnown

(* The calendar calls a market open or closed.                             *)
LEMMA OpenOrClosed == \A s \in Statuses : s.state \in {"open", "closed"}
<1>1. ASSUME NEW t
      PROVE  GetMarketStatus(t).state \in {"open", "closed"}
  BY DEF GetMarketStatus
<1> QED  BY <1>1 DEF Statuses, StatusAt

(* A recovery is about to be confirmed, or not: in either case it is a record of two flags. *)
LEMMA RecoveringIsFlags ==
  ASSUME HeaderTypes, NEW state
  PROVE  /\ Recovering(state) \in [shown : BOOLEAN, interrupted : BOOLEAN]
         /\ Recovering(state).interrupted => IsHeld(state) \/ recovery.interrupted
         /\ state = "connected" => ~Recovering(state).interrupted
<1>1. recovery \in [shown : BOOLEAN, interrupted : BOOLEAN]
  BY DEF HeaderTypes
<1>2. CASE IsHeld(state)
  BY <1>1, <1>2 DEF Recovering, IsHeld
<1>3. CASE ~IsHeld(state) /\ state = "connected" /\ recovery.interrupted
  BY <1>1, <1>3 DEF Recovering
<1>4. CASE ~IsHeld(state) /\ ~(state = "connected" /\ recovery.interrupted)
  BY <1>1, <1>4 DEF Recovering
<1> QED  BY <1>2, <1>3, <1>4

(* A status event tells every observer that watches the same, and the others lose it. *)
LEMMA StatusEventKeeps ==
  ASSUME PageInv, NEW state \in ConnStates, NEW given \in StreamsSeen,
         StatusEvent(state, given),
         outage' \in [at : Int, retried : BOOLEAN],
         IsHeld(state) => outage' # NoOutage,
         state # "connected" /\ outage # NoOutage => outage' # NoOutage
  PROVE  PageInv'
<1> USE DEF PageInv
<1>1. UNCHANGED <<now, stage, status>> /\ conn' = state /\ identity' = given
  BY DEF StatusEvent, clocks
<1>2. CASE stage["board"] = "watching"
  <2>1. /\ view' = [state |-> state, heldSince |-> HeldSince(state)]
        /\ viewerStream' = given /\ recovery' = Recovering(state)
    BY <1>2 DEF StatusEvent
  <2>2. HeldSince(state) \in Int
    BY InstantsAreNat, HeaderAssumption DEF HeldSince, Never, HeaderTypes
  <2>3. HeaderTypes'
    <3>1. view' \in [state : ConnStates, heldSince : Int]
      BY <2>1, <2>2
    <3>2. badge' \in [stream : StreamsSeen, flips : Nat, flippedFrom : StreamsSeen]
      BY DEF StatusEvent, HeaderTypes
    <3> QED  BY <1>1, <2>1, <3>1, <3>2, RecoveringIsFlags DEF HeaderTypes
  <2>4. Agreed'
    BY <1>1, <2>1 DEF StatusEvent, Heard, Agreed, HeaderTypes, Observers
  <2>5. OutageKnown'
    BY <1>1, <1>2, <2>1, RecoveringIsFlags DEF StatusEvent, Heard, OutageKnown
  <2> QED  BY <2>3, <2>4, <2>5
<1>3. CASE stage["board"] # "watching"
  <2>1. UNCHANGED <<view, viewerStream, recovery>>
    BY <1>3 DEF StatusEvent, boardHas
  <2>2. HeaderTypes'
    <3>1. badge' \in [stream : StreamsSeen, flips : Nat, flippedFrom : StreamsSeen]
      BY DEF StatusEvent, HeaderTypes
    <3> QED  BY <1>1, <2>1, <3>1 DEF HeaderTypes
  <2>3. Agreed'
    BY <1>1, <1>3, <2>1 DEF StatusEvent, Heard, Agreed, HeaderTypes, Observers
  <2>4. OutageKnown'
    BY <1>1, <1>3, <2>1 DEF StatusEvent, Heard, OutageKnown
  <2> QED  BY <2>2, <2>3, <2>4
<1> QED  BY <1>2, <1>3

(* An instant is a number, and another than Never.                         *)
LEMMA NowIsNumber ==
  ASSUME HeaderTypes
  PROVE  now \in Int /\ now # Never
  BY InstantsAreNat DEF HeaderTypes, Never

(* Every step keeps what the observers agree on.                           *)
LEMMA PageKeeps ==
  ASSUME PageInv, [Next]_vars
  PROVE  PageInv'
<1> USE DEF PageInv
<1>1. CASE Connected
  <2>1. PICK given \in Streams : StatusEvent("connected", given)
    BY <1>1 DEF Connected
  <2>2. outage' = NoOutage /\ NoOutage \in [at : Int, retried : BOOLEAN]
    BY <1>1 DEF Connected, NoOutage, Never
  <2>3. "connected" \in ConnStates /\ given \in StreamsSeen /\ ~IsHeld("connected")
    BY DEF ConnStates, StreamsSeen, IsHeld
  <2> QED  BY <2>1, <2>2, <2>3, StatusEventKeeps
<1>2. CASE Dropped
  <2>1. PICK state \in {"closed", "reconnecting"} : StatusEvent(state, identity)
    BY <1>2 DEF Dropped
  <2>2. outage' \in [at : Int, retried : BOOLEAN] /\ outage' # NoOutage
    BY <1>2, NowIsNumber DEF Dropped, NoOutage, HeaderTypes
  <2>3. state \in ConnStates /\ identity \in StreamsSeen
    BY DEF ConnStates, HeaderTypes
  <2> QED  BY <2>1, <2>2, <2>3, StatusEventKeeps
<1>3. CASE Retry
  <2>1. StatusEvent("connecting", identity)
    BY <1>3 DEF Retry
  <2>2. /\ outage' \in [at : Int, retried : BOOLEAN]
        /\ outage # NoOutage => outage' # NoOutage
    BY <1>3 DEF Retry, NoOutage, HeaderTypes
  <2>3. "connecting" \in ConnStates /\ identity \in StreamsSeen /\ ~IsHeld("connecting")
    BY DEF ConnStates, HeaderTypes, IsHeld
  <2> QED  BY <2>1, <2>2, <2>3, StatusEventKeeps
<1>4. CASE EntitlementChanged
  <2>1. PICK given \in Streams \ {identity} :
          /\ identity' = given
          /\ badge' = IF stage["badge"] = "watching"
                      THEN [stream |-> given, flips |-> badge.flips + 1,
                            flippedFrom |-> badge.stream]
                      ELSE badge
          /\ viewerStream' = IF stage["board"] = "watching" THEN given ELSE viewerStream
    BY <1>4 DEF EntitlementChanged
  <2>2. UNCHANGED <<now, conn, outage, stage, status, view, pill, recovery>>
        /\ Heard({"badge", "board"}, {})
    BY <1>4 DEF EntitlementChanged, clocks, moments
  <2>3. badge' \in [stream : StreamsSeen, flips : Nat, flippedFrom : StreamsSeen]
    BY <2>1 DEF HeaderTypes, StreamsSeen
  <2>4. HeaderTypes'
    BY <2>1, <2>2, <2>3 DEF HeaderTypes, StreamsSeen
  <2>5. Agreed'
    BY <2>1, <2>2 DEF Heard, Agreed, HeaderTypes, Observers
  <2>6. OutageKnown'
    BY <2>2 DEF Heard, OutageKnown
  <2> QED  BY <2>4, <2>5, <2>6
<1>5. ASSUME NEW w \in Observers, Render(w)
      PROVE  PageInv'
  <2>1. /\ stage[w] = "away" /\ stage' = [stage EXCEPT ![w] = "rendered"]
        /\ status' = [status EXCEPT ![w] = StatusAt[now]]
        /\ UNCHANGED <<now, conn, identity, outage, recovery, missed>>
    BY <1>5 DEF Render, source
  <2>2. view' \in [state : ConnStates, heldSince : Int]
    BY <1>5, NowIsNumber DEF Render, HeaderTypes, Never
  <2>3. badge' \in [stream : StreamsSeen, flips : Nat, flippedFrom : StreamsSeen]
    BY <1>5 DEF Render, HeaderTypes
  <2>4. HeaderTypes'
    BY <2>1, <2>2, <2>3 DEF HeaderTypes, Statuses
  <2>5. Agreed'
    BY <1>5, <2>1 DEF Render, Agreed, HeaderTypes, Observers
  <2>6. OutageKnown'
    BY <1>5, <2>1 DEF Render, OutageKnown, HeaderTypes, Observers
  <2> QED  BY <2>4, <2>5, <2>6
<1>6. ASSUME NEW w \in Observers, Watch(w)
      PROVE  PageInv'
  <2>1. /\ stage[w] = "rendered" /\ stage' = [stage EXCEPT ![w] = "watching"]
        /\ recovery' = IF w = "board" THEN Recovering(view.state) ELSE recovery
        /\ UNCHANGED <<now, conn, identity, outage, status, pill, view, viewerStream, badge,
                       missed, heardFrom>>
    BY <1>6 DEF Watch, source, boardHas
  <2>2. HeaderTypes'
    BY <2>1, RecoveringIsFlags DEF HeaderTypes
  <2>3. Agreed'
    BY <2>1 DEF Agreed, HeaderTypes, Observers
  <2>4. OutageKnown'
    BY <2>1, RecoveringIsFlags DEF OutageKnown, HeaderTypes, Observers
  <2> QED  BY <2>2, <2>3, <2>4
<1>7. ASSUME NEW w \in Observers, Poll(w) \/ BoundaryFires(w)
      PROVE  PageInv'
  <2>1. /\ status' = [status EXCEPT ![w] = StatusAt[now]]
        /\ UNCHANGED <<now, conn, identity, outage, stage, pill, view, viewerStream, badge,
                       recovery, missed, heardFrom>>
    BY <1>7 DEF Poll, BoundaryFires, RefreshStatus, source, boardHas
  <2>2. HeaderTypes'
    BY <2>1 DEF HeaderTypes, Statuses
  <2> QED  BY <2>1, <2>2 DEF Agreed, OutageKnown
<1>8. CASE BellEnds \/ RecoveryEnds \/ Advance \/ UNCHANGED vars
  <2>1. /\ now' \in Instants
        /\ UNCHANGED <<conn, identity, outage, stage, status, pill, view, viewerStream, badge,
                       missed, heardFrom>>
        /\ recovery' \in {recovery, [recovery EXCEPT !.shown = FALSE]}
    BY <1>8 DEF BellEnds, RecoveryEnds, Advance, vars, source, clocks, boardHas, moments,
       HeaderTypes
  <2>2. /\ recovery' \in [shown : BOOLEAN, interrupted : BOOLEAN]
        /\ recovery'.interrupted = recovery.interrupted
    BY <2>1 DEF HeaderTypes
  <2>3. HeaderTypes'
    BY <2>1, <2>2 DEF HeaderTypes
  <2> QED  BY <2>1, <2>2, <2>3 DEF Agreed, OutageKnown
<1> QED
  BY <1>1, <1>2, <1>3, <1>4, <1>5, <1>6, <1>7, <1>8 DEF Next

(* Nobody has rendered anything to begin with.                             *)
LEMMA PageBegins ==
  ASSUME Init
  PROVE  PageInv
<1>1. HeaderTypes
  BY DEF Init, HeaderTypes, ConnStates, StreamsSeen, Statuses, NoOutage, Never
<1>2. Agreed /\ OutageKnown
  BY DEF Init, Agreed, OutageKnown, Observers, IsHeld
<1> QED  BY <1>1, <1>2 DEF PageInv

(* What the page then says of the connection and of the market.            *)
LEMMA PageReadsTrue ==
  ASSUME PageInv
  PROVE  PageIsCoherent
<1> DEFINE informed(w) == stage[w] = "watching" /\ w \notin missed
<1>1. informed("pill") => pill = conn
  BY DEF PageInv, Agreed
<1>2. informed("badge") => badge.stream = identity
  BY DEF PageInv, Agreed
<1>3. ASSUME informed("board")
      PROVE  /\ (ConnectionBanner # None) <=> IsHeld(conn)
             /\ DelayedBanner <=> (identity = "DELAYED")
             /\ RecoveredBanner => (conn = "connected")
  <2>1. view.state = conn /\ viewerStream = identity
    BY <1>3 DEF PageInv, Agreed
  <2>2. (ConnectionBanner # None) <=> IsHeld(conn)
    BY <1>3, <2>1 DEF ConnectionBanner, IsHeld, None
  <2> QED  BY <2>1, <2>2 DEF DelayedBanner, RecoveredBanner
<1>4. ASSUME informed("pill"), informed("board"), status["pill"] = status["board"]
      PROVE  (ConnectionPill.idle # None) <=> (conn = "connected" /\ MarketClosedBanner.shown)
  <2>1. status["pill"].state \in {"open", "closed"}
    BY OpenOrClosed DEF PageInv, HeaderTypes, Observers
  <2>2. (ConnectionPill.idle # None) <=> (pill = "connected" /\ status["pill"].state # "open")
    BY DEF ConnectionPill, None
  <2>3. MarketClosedBanner.shown <=> (status["board"].state = "closed")
    BY DEF MarketClosedBanner
  <2> QED  BY <1>1, <1>4, <2>1, <2>2, <2>3
<1>5. heardFrom # Never /\ recovery.interrupted => outage # NoOutage
  BY DEF PageInv, OutageKnown
<1> QED  BY <1>1, <1>2, <1>3, <1>4, <1>5 DEF PageIsCoherent

----------------------------------------------------------------------------
(* The boundary timers                                                     *)

(* A status stands until the instant it names, which is yet to come.       *)
StatusStands ==
  \A t \in Instants :
    /\ StatusAt[t].nextChangeAt \in Nat /\ StatusAt[t].nextChangeAt > t
    /\ \A u \in Instants :
         t <= u /\ u < StatusAt[t].nextChangeAt => StatusAt[u] = StatusAt[t]

(* The calendar keeps that word.                                           *)
LEMMA StatusesStand == StatusStands
<1>1. Instants \subseteq Nat
  BY InstantsAreNat
<1>2. \A t \in Instants : t \in Int /\ StatusAt[t] = GetMarketStatus(t)
  BY <1>1 DEF StatusAt
<1>3. ASSUME NEW t \in Instants
      PROVE  /\ StatusAt[t].nextChangeAt \in Nat /\ StatusAt[t].nextChangeAt > t
             /\ \A u \in Instants :
                  t <= u /\ u < StatusAt[t].nextChangeAt => StatusAt[u] = StatusAt[t]
  <2>1. t \in Nat /\ StatusAt[t] = GetMarketStatus(t)
    BY <1>1, <1>2
  <2>2. /\ GetMarketStatus(t).nextChangeAt \in Int /\ GetMarketStatus(t).nextChangeAt > t
        /\ \A u \in Int : t <= u /\ u < GetMarketStatus(t).nextChangeAt =>
              GetMarketStatus(u) = GetMarketStatus(t)
    BY <2>1, CalendarStands
  <2>3. StatusAt[t].nextChangeAt \in Nat /\ StatusAt[t].nextChangeAt > t
    BY <2>1, <2>2
  <2>4. ASSUME NEW u \in Instants, t <= u, u < StatusAt[t].nextChangeAt
        PROVE  StatusAt[u] = StatusAt[t]
    BY <1>2, <2>1, <2>2, <2>4
  <2> QED  BY <2>3, <2>4
<1> QED  BY <1>3 DEF StatusStands

ReadBefore == \A w \in Observers : \E t \in Instants : t <= now /\ status[w] = StatusAt[t]
TimerNamesIt ==
  \A w \in Observers : stage[w] = "watching" => armed[w] = status[w].nextChangeAt

TimerInv ==
  /\ StatusStands
  /\ now \in Instants
  /\ DOMAIN stage = Observers /\ DOMAIN status = Observers /\ DOMAIN armed = Observers
  /\ ReadBefore /\ TimerNamesIt

(* A step that leaves the statuses and the timers of those who watch.      *)
LEMMA TimersStay ==
  ASSUME TimerInv, UNCHANGED <<stage, status, armed>>, now' \in Instants, now' >= now
  PROVE  TimerInv'
<1>1. \A t \in Instants : t <= now => t <= now'
  <2>1. now \in Instants /\ now' \in Instants
    BY DEF TimerInv
  <2>2. \A t \in Nat : t <= now => t <= now'
    BY <2>1, InstantsAreNat
  <2> QED  BY <2>2, InstantsAreNat
<1>2. \A w \in Observers : \E t \in Instants : t <= now' /\ status'[w] = StatusAt[t]
  BY <1>1 DEF TimerInv, ReadBefore
<1>3. ReadBefore'
  BY <1>2 DEF ReadBefore
<1> QED  BY <1>3 DEF TimerInv, StatusStands, TimerNamesIt

(* A status is read again, by a poll or because its boundary is due.       *)
LEMMA RefreshKeeps ==
  ASSUME TimerInv, NEW w \in Observers, NEW pending, RefreshStatus(w, pending),
         pending = armed[w] \/ armed[w] <= now
  PROVE  TimerInv'
<1> DEFINE fresh == StatusAt[now]
<1>1. /\ stage[w] = "watching"
      /\ status' = [status EXCEPT ![w] = fresh]
      /\ armed' = [armed EXCEPT ![w] = Armed(w, fresh, pending)]
      /\ UNCHANGED <<now, stage>>
  BY DEF RefreshStatus
<1>2. now \in Nat /\ fresh.nextChangeAt \in Nat /\ fresh.nextChangeAt > now
  BY InstantsAreNat DEF TimerInv, StatusStands
<1>3. armed[w] = status[w].nextChangeAt
  BY <1>1 DEF TimerInv, TimerNamesIt
<1>4. Armed(w, fresh, pending) = fresh.nextChangeAt
  <2>1. CASE fresh.nextChangeAt # status[w].nextChangeAt
    BY <2>1 DEF Armed
  <2>2. CASE fresh.nextChangeAt = status[w].nextChangeAt
    <3>1. pending = armed[w]
      BY <1>2, <1>3, <2>2
    <3> QED  BY <1>3, <2>2, <3>1 DEF Armed
  <2> QED  BY <2>1, <2>2
<1>5. ReadBefore'
  <2>1. ASSUME NEW x \in Observers
        PROVE  \E t \in Instants : t <= now' /\ status'[x] = StatusAt[t]
    <3>1. CASE x = w
      BY <1>1, <1>2, <3>1 DEF TimerInv
    <3>2. CASE x # w
      BY <1>1, <3>2 DEF TimerInv, ReadBefore
    <3> QED  BY <3>1, <3>2
  <2> QED  BY <2>1 DEF ReadBefore
<1>6. TimerNamesIt'
  BY <1>1, <1>4 DEF TimerInv, TimerNamesIt
<1> QED  BY <1>1, <1>5, <1>6 DEF TimerInv, StatusStands

(* Every step keeps the timers.                                            *)
LEMMA TimersKeep ==
  ASSUME TimerInv, [Next]_vars
  PROVE  TimerInv'
<1>1. now \in Nat
  BY InstantsAreNat DEF TimerInv
<1>2. CASE UNCHANGED vars \/ Connected \/ Dropped \/ EntitlementChanged \/ Retry \/ BellEnds
           \/ RecoveryEnds
  BY <1>1, <1>2, TimersStay DEF vars, clocks, Connected, Dropped, EntitlementChanged, Retry,
     StatusEvent, BellEnds, RecoveryEnds, TimerInv
<1>3. CASE Advance
  BY <1>1, <1>3, TimersStay, InstantsAreNat DEF Advance, clocks
<1>4. ASSUME NEW w \in Observers, Render(w)
      PROVE  TimerInv'
  <2>1. /\ stage' = [stage EXCEPT ![w] = "rendered"] /\ UNCHANGED <<now, armed>>
        /\ status' = [status EXCEPT ![w] = StatusAt[now]]
    BY <1>4 DEF Render
  <2>2. ASSUME NEW x \in Observers
        PROVE  \E t \in Instants : t <= now' /\ status'[x] = StatusAt[t]
    <3>1. CASE x = w
      BY <1>1, <2>1, <3>1 DEF TimerInv
    <3>2. CASE x # w
      BY <2>1, <3>2 DEF TimerInv, ReadBefore
    <3> QED  BY <3>1, <3>2
  <2>3. TimerNamesIt'
    BY <2>1 DEF TimerInv, TimerNamesIt
  <2> QED  BY <2>1, <2>2, <2>3 DEF TimerInv, StatusStands, ReadBefore
<1>5. ASSUME NEW w \in Observers, Watch(w)
      PROVE  TimerInv'
  <2>1. /\ stage' = [stage EXCEPT ![w] = "watching"] /\ UNCHANGED <<now, status>>
        /\ armed' = [armed EXCEPT ![w] = status[w].nextChangeAt]
    BY <1>5 DEF Watch
  <2> QED  BY <2>1 DEF TimerInv, StatusStands, ReadBefore, TimerNamesIt
<1>6. ASSUME NEW w \in Observers, Poll(w)
      PROVE  TimerInv'
  BY <1>6, RefreshKeeps DEF Poll
<1>7. ASSUME NEW w \in Observers, BoundaryFires(w)
      PROVE  TimerInv'
  BY <1>7, RefreshKeeps DEF BoundaryFires
<1> QED
  BY <1>2, <1>3, <1>4, <1>5, <1>6, <1>7 DEF Next

----------------------------------------------------------------------------
(* Whatever is lost while the observers mount one by one, and however often the connection
   drops, what is said of it and of the market hangs together. *)
THEOREM PageStaysCoherent == Spec => []PageIsCoherent
<1>1. Init => PageInv
  BY PageBegins
<1>2. PageInv /\ [Next]_vars => PageInv'
  BY PageKeeps
<1>3. PageInv => PageIsCoherent
  BY PageReadsTrue
<1> QED  BY <1>1, <1>2, <1>3, PTL DEF Spec

(* useMarketStatus sets its timer again only when the boundary changes; that is enough, of a
   calendar whose statuses stand. *)
THEOREM BoundaryStaysArmed == Spec => []BoundaryArmed
<1>1. Init => TimerInv
  BY StatusesStand, InstantsAreNat DEF Init, TimerInv, ReadBefore, TimerNamesIt, Observers
<1>2. TimerInv /\ [Next]_vars => TimerInv'
  BY TimersKeep
<1>3. ASSUME TimerInv
      PROVE  BoundaryArmed
  <2>1. ASSUME NEW w \in Observers, stage[w] = "watching", status[w] # StatusAt[now]
        PROVE  armed[w] # Never /\ armed[w] <= now
    <3>1. PICK t \in Instants : t <= now /\ status[w] = StatusAt[t]
      BY <1>3 DEF TimerInv, ReadBefore
    <3>2. armed[w] = StatusAt[t].nextChangeAt /\ armed[w] \in Nat
      BY <1>3, <2>1, <3>1 DEF TimerInv, TimerNamesIt, StatusStands
    <3>3. ~(now < StatusAt[t].nextChangeAt)
      BY <1>3, <2>1, <3>1 DEF TimerInv, StatusStands
    <3>4. now \in Nat
      BY <1>3, InstantsAreNat DEF TimerInv
    <3> QED  BY <3>2, <3>3, <3>4 DEF Never
  <2> QED  BY <2>1 DEF BoundaryArmed
<1> QED  BY <1>1, <1>2, <1>3, PTL DEF Spec

----------------------------------------------------------------------------
(* The instant that a held board names.                                    *)

(* The board knows the connection's state once it has lost no event, and an outage that is
   over for the source without a connection is one the user has retried. *)
HeldInv ==
  /\ PageInv
  /\ heardFrom \in Nat \cup {Never} /\ heardFrom <= now /\ outage.at <= now
  /\ ~IsHeld(conn) /\ outage # NoOutage => outage.retried
  /\ stage["board"] # "away" /\ heardFrom # Never =>
       /\ view.state = conn
       /\ ~IsHeld(conn) => view.heldSince = Never
       /\ IsHeld(conn) /\ ~outage.retried => view.heldSince = Max({outage.at, heardFrom})

(* A status event leaves the board without its instant, gives it one, or leaves it the one it
   has: the first drop's, unless the user has retried since. *)
LEMMA StatusEventHolds ==
  ASSUME HeldInv, PageInv', NEW state \in ConnStates, NEW given \in StreamsSeen,
         StatusEvent(state, given),
         outage' \in [at : Int, retried : BOOLEAN], outage'.at <= now,
         ~IsHeld(state) /\ outage' # NoOutage => outage'.retried,
         IsHeld(state) /\ ~outage'.retried =>
           IF IsHeld(conn) THEN outage' = outage ELSE outage'.at = now
  PROVE  HeldInv'
<1>1. UNCHANGED <<now, stage>> /\ conn' = state
  BY DEF StatusEvent
<1>2. now \in Nat /\ heardFrom \in Nat \cup {Never} /\ heardFrom <= now
  BY InstantsAreNat DEF HeldInv, PageInv, HeaderTypes
<1>3. heardFrom' = IF stage["board"] = "rendered" THEN Never ELSE heardFrom
  BY DEF StatusEvent, Heard
<1>4. heardFrom' \in Nat \cup {Never} /\ heardFrom' <= now'
  BY <1>1, <1>2, <1>3 DEF Never
<1>5. ASSUME stage'["board"] # "away", heardFrom' # Never
      PROVE  /\ view'.state = conn'
             /\ ~IsHeld(conn') => view'.heldSince = Never
             /\ IsHeld(conn') /\ ~outage'.retried =>
                  view'.heldSince = Max({outage'.at, heardFrom'})
  <2>1. stage["board"] = "watching" /\ heardFrom' = heardFrom /\ heardFrom \in Nat
    BY <1>1, <1>2, <1>3, <1>5 DEF HeldInv, PageInv, HeaderTypes, Observers
  <2>2. view' = [state |-> state, heldSince |-> HeldSince(state)]
    BY <2>1 DEF StatusEvent
  <2>3. /\ ~IsHeld(conn) => view.heldSince = Never
        /\ IsHeld(conn) /\ ~outage.retried => view.heldSince = Max({outage.at, heardFrom})
    <3>1. stage["board"] # "away" /\ heardFrom # Never
      BY <1>5, <2>1
    <3> QED  BY <3>1 DEF HeldInv
  <2>4. ASSUME IsHeld(state), ~outage'.retried
        PROVE  HeldSince(state) = Max({outage'.at, heardFrom})
    <3>1. CASE IsHeld(conn)
      <4>1. outage' = outage /\ outage.at \in Int
        BY <2>4, <3>1
      <4>2. Max({outage.at, heardFrom}) >= heardFrom
        <5>1. outage.at \in Int /\ heardFrom \in Int
          BY <4>1, <2>1
        <5> QED  BY <5>1, MaxOfTwo
      <4>3. view.heldSince = Max({outage.at, heardFrom}) /\ view.heldSince # Never
        BY <2>1, <2>3, <2>4, <3>1, <4>1, <4>2 DEF Never
      <4> QED  BY <2>4, <4>1, <4>3 DEF HeldSince
    <3>2. CASE ~IsHeld(conn)
      <4>1. view.heldSince = Never /\ outage'.at = now
        BY <2>3, <2>4, <3>2
      <4>2. Max({now, heardFrom}) = now
        <5>1. now \in Int /\ heardFrom \in Int /\ heardFrom <= now
          BY <1>2, <2>1
        <5> QED  BY <5>1, MaxOfTwo
      <4> QED  BY <2>4, <4>1, <4>2 DEF HeldSince
    <3> QED  BY <3>1, <3>2
  <2> QED  BY <1>1, <2>1, <2>2, <2>4 DEF HeldSince
<1> QED  BY <1>1, <1>4, <1>5 DEF HeldInv

(* Every step keeps the instant.                                           *)
LEMMA HeldKeeps ==
  ASSUME HeldInv, [Next]_vars
  PROVE  HeldInv'
<1>1. PageInv'
  BY PageKeeps DEF HeldInv
<1>2. now \in Nat /\ outage \in [at : Int, retried : BOOLEAN] /\ conn \in ConnStates
      /\ identity \in StreamsSeen /\ outage.at <= now
  BY InstantsAreNat DEF HeldInv, PageInv, HeaderTypes
<1>3. CASE Connected
  <2>1. PICK given \in Streams : StatusEvent("connected", given)
    BY <1>3 DEF Connected
  <2>2. outage' = NoOutage /\ outage'.at = Never /\ outage' \in [at : Int, retried : BOOLEAN]
    BY <1>3 DEF Connected, NoOutage, Never
  <2>3. "connected" \in ConnStates /\ given \in StreamsSeen /\ ~IsHeld("connected")
    BY DEF ConnStates, StreamsSeen, IsHeld
  <2>4. outage'.at <= now
    BY <1>2, <2>2 DEF Never
  <2> QED  BY <1>1, <2>1, <2>2, <2>3, <2>4, StatusEventHolds
<1>4. CASE Dropped
  <2>1. PICK state \in {"closed", "reconnecting"} : StatusEvent(state, identity)
    BY <1>4 DEF Dropped
  <2>2. state \in ConnStates /\ IsHeld(state)
    BY DEF ConnStates, IsHeld
  <2>3. outage' = IF outage = NoOutage THEN [at |-> now, retried |-> FALSE] ELSE outage
    BY <1>4 DEF Dropped
  <2>4. outage' \in [at : Int, retried : BOOLEAN] /\ outage'.at <= now
    BY <1>2, <2>3
  <2>5. IF IsHeld(conn) THEN outage # NoOutage ELSE outage # NoOutage => outage.retried
    BY DEF HeldInv, PageInv, OutageKnown
  <2>6. ~outage'.retried => IF IsHeld(conn) THEN outage' = outage ELSE outage'.at = now
    BY <2>3, <2>5
  <2> QED  BY <1>1, <1>2, <2>1, <2>2, <2>4, <2>6, StatusEventHolds
<1>5. CASE Retry
  <2>1. StatusEvent("connecting", identity)
    BY <1>5 DEF Retry
  <2>2. outage' = IF outage = NoOutage THEN outage ELSE [outage EXCEPT !.retried = TRUE]
    BY <1>5 DEF Retry
  <2>3. /\ outage' \in [at : Int, retried : BOOLEAN] /\ outage'.at <= now
        /\ outage' # NoOutage => outage'.retried
    BY <1>2, <2>2
  <2>4. "connecting" \in ConnStates /\ ~IsHeld("connecting")
    BY DEF ConnStates, IsHeld
  <2> QED  BY <1>1, <1>2, <2>1, <2>3, <2>4, StatusEventHolds
<1>6. CASE EntitlementChanged
  <2>1. UNCHANGED <<now, conn, outage, stage, view>>
        /\ heardFrom' = IF stage["board"] = "rendered" THEN Never ELSE heardFrom
    BY <1>6 DEF EntitlementChanged, Heard
  <2>2. heardFrom' \in Nat \cup {Never} /\ heardFrom' <= now'
    BY <1>2, <2>1 DEF HeldInv, Never
  <2> QED  BY <1>1, <2>1, <2>2 DEF HeldInv
<1>7. ASSUME NEW w \in Observers, Render(w)
      PROVE  HeldInv'
  <2>1. /\ stage[w] = "away" /\ stage' = [stage EXCEPT ![w] = "rendered"]
        /\ view' = IF w = "board"
                   THEN [state |-> conn, heldSince |-> IF IsHeld(conn) THEN now ELSE Never]
                   ELSE view
        /\ heardFrom' = IF w = "board" THEN now ELSE heardFrom
        /\ UNCHANGED <<now, conn, outage>>
    BY <1>7 DEF Render, source
  <2>2. CASE w # "board"
    <3>1. UNCHANGED <<view, heardFrom>> /\ stage'["board"] = stage["board"]
      BY <2>1, <2>2 DEF HeldInv, PageInv, HeaderTypes, Observers
    <3> QED  BY <1>1, <2>1, <3>1 DEF HeldInv
  <2>3. CASE w = "board"
    <3>1. Max({outage.at, now}) = now
      BY <1>2, MaxOfTwo
    <3>2. heardFrom' = now /\ heardFrom' \in Nat \cup {Never} /\ heardFrom' <= now'
      BY <1>2, <2>1, <2>3
    <3>3. view' = [state |-> conn, heldSince |-> IF IsHeld(conn) THEN now ELSE Never]
      BY <2>1, <2>3
    <3> QED  BY <1>1, <2>1, <3>1, <3>2, <3>3 DEF HeldInv
  <2> QED  BY <2>2, <2>3
<1>8. ASSUME NEW w \in Observers, Watch(w)
      PROVE  HeldInv'
  <2>1. /\ stage[w] = "rendered" /\ stage' = [stage EXCEPT ![w] = "watching"]
        /\ UNCHANGED <<now, conn, outage, view, heardFrom>>
    BY <1>8 DEF Watch, source, boardHas
  <2>2. stage'["board"] # "away" => stage["board"] # "away"
    BY <2>1 DEF HeldInv, PageInv, HeaderTypes, Observers
  <2> QED  BY <1>1, <2>1, <2>2 DEF HeldInv
<1>9. CASE BellEnds \/ RecoveryEnds \/ UNCHANGED vars
           \/ \E w \in Observers : Poll(w) \/ BoundaryFires(w)
  <2>1. UNCHANGED <<now, conn, outage, stage, view, heardFrom>>
    BY <1>9 DEF BellEnds, RecoveryEnds, Poll, BoundaryFires, RefreshStatus, vars, source, boardHas
  <2> QED  BY <1>1, <2>1 DEF HeldInv
<1>10. CASE Advance
  <2>1. now' > now /\ now' \in Nat /\ UNCHANGED <<conn, outage, stage, view, heardFrom>>
    BY <1>10, InstantsAreNat DEF Advance, source, boardHas
  <2>2. heardFrom' <= now' /\ outage'.at <= now'
    BY <1>2, <2>1 DEF HeldInv, Never
  <2> QED  BY <1>1, <2>1, <2>2 DEF HeldInv
<1> QED
  BY <1>3, <1>4, <1>5, <1>6, <1>7, <1>8, <1>9, <1>10 DEF Next

(* The instant a held board names is that of the first drop of the outage, through every retry
   that the source makes by itself; a board that came later names the instant it came. *)
THEOREM HeldSinceStays == Spec => []HeldSinceKept
<1>1. Init => HeldInv
  <2> SUFFICES ASSUME Init PROVE HeldInv
    OBVIOUS
  <2>1. PageInv
    BY PageBegins
  <2>2. now \in Nat /\ heardFrom = Never /\ outage = NoOutage /\ stage["board"] = "away"
    BY InstantsAreNat DEF Init, Observers
  <2> QED  BY <2>1, <2>2 DEF HeldInv, NoOutage, Never
<1>2. HeldInv /\ [Next]_vars => HeldInv'
  BY HeldKeeps
<1>3. HeldInv => HeldSinceKept
  BY DEF HeldInv, HeldSinceKept, BoardHeld
<1> QED  BY <1>1, <1>2, <1>3, PTL DEF Spec

----------------------------------------------------------------------------
OnAnInstant == now \in Instants

(* The status of every instant the page can see is that of a search of the calendar around it
   (getMarketStatus, formatNextOpen, isPreOpenAuction, resolveSimulatedClockTarget). *)
THEOREM CalendarStaysSound == Spec => []StatusSound
<1>1. Instants \subseteq Nat
  BY InstantsAreNat
<1>2. \A t \in Instants : t \in SoundInstants
  <2>1. SUFFICES ASSUME NEW t \in Instants
                 PROVE  \A u \in Max({Min(Instants) - 1} \cup {v \in Instants : v < t}) + 1 .. t : SoundAt(u)
    BY DEF SoundInstants
  <2>2. PICK least \in Instants : \A v \in Instants : least <= v
    BY <1>1, InstantsAreNat, LeastOf
  <2>3. Min(Instants) = least
    <3>1. Instants \subseteq Int
      BY <1>1
    <3> QED  BY <2>2, <3>1, MinIs
  <2> DEFINE earlier == {least - 1} \cup {v \in Instants : v < t}
  <2>4. earlier \subseteq Int /\ earlier # {} /\ \A v \in earlier : v <= t
    <3>1. t \in Nat /\ least \in Nat /\ least <= t /\ \A v \in Instants : v \in Nat
      BY <1>1, <2>2
    <3>2. least - 1 \in Int /\ least - 1 <= t
      BY <3>1
    <3>3. \A v \in earlier : v \in Int /\ v <= t
      BY <3>1, <3>2
    <3> QED  BY <3>3
  <2>5. Max(earlier) \in Int
    BY <1>1, <2>4, MaxOf
  <2>6. \A u \in Max(earlier) + 1 .. t : u \in Int
    BY <1>1, <2>5
  <2> QED  BY <2>3, <2>6, CalendarIsSound
<1>3. Init => OnAnInstant
  BY DEF Init, OnAnInstant
<1>4. OnAnInstant /\ [Next]_vars => OnAnInstant'
  BY DEF OnAnInstant, Next, vars, Render, Watch, RefreshStatus, Poll, BoundaryFires, Connected, Dropped, StatusEvent,
     EntitlementChanged, Retry, BellEnds, RecoveryEnds, Advance, clocks
<1>5. OnAnInstant => StatusSound
  <2> SUFFICES ASSUME OnAnInstant PROVE StatusSound
    OBVIOUS
  <2>1. now \in SoundInstants
    BY <1>2, Zenon DEF OnAnInstant
  <2> QED  BY <2>1 DEF StatusSound
<1> QED  BY <1>3, <1>4, <1>5, PTL DEF Spec

-----------------------------------------------------------------------------
(* The simulated source.                                                   *)
USE SimulatedAssumption

(* What a page is shown at an instant, in half hours.                      *)
LEMMA ShownAt ==
  ASSUME NEW t \in Instants
  PROVE  LET shown == StatusAt[t]
         IN  /\ shown.state \in {"open", "closed"} /\ shown.session \in Int
             /\ shown.openAt = Opens(shown.session) /\ shown.closeAt = Closes(shown.session)
             /\ shown.openAt \in Int /\ shown.closeAt \in Int
             /\ shown.openAt <= t /\ shown.closeAt = shown.openAt + 9
             /\ shown.state = "open" => t < shown.closeAt
<1>1. t \in Int /\ StatusAt[t] = GetMarketStatus(t)
  BY InstantsAreNat DEF StatusAt
<1>2. PICK s, n \in Int : Around(t, s, n) /\ GetMarketStatus(t) = Shown(t, s, n)
  BY <1>1, StatusOf
<1>3. /\ s \in Int /\ Opens(s) \in Int /\ Closes(s) \in Int
      /\ Opens(s) <= t /\ Closes(s) = Opens(s) + 9
  BY <1>1, <1>2, AroundFacts
<1> QED  BY <1>1, <1>2, <1>3 DEF Shown

(* The next instant at which something may happen.                         *)
LEMMA ClockMoves ==
  ASSUME clock \in Instants, TimePasses
  PROVE  clock' \in Instants /\ clock' > clock
<1> DEFINE later == {t \in Instants : t > clock}
<1>1. later \subseteq Nat /\ later # {}
  BY InstantsAreNat DEF TimePasses
<1>2. PICK least \in later : \A t \in later : least <= t
  BY <1>1, LeastOf
<1>3. Min(later) = least
  <2>1. later \subseteq Int
    BY <1>1
  <2> QED  BY <2>1, <1>2, MinIs
<1> QED  BY <1>2, <1>3 DEF TimePasses

EngineInv ==
  /\ clock \in Instants
  /\ engine \in BOOLEAN /\ marketClock \in BOOLEAN
  /\ engine => marketState = "open"
  /\ marketClock => (engine <=> marketState = "open")

(* The engine is started and stopped with the market.                      *)
LEMMA EnsuredRuns ==
  ASSUME clock \in Instants, EnsureSession
  PROVE  engine' \in BOOLEAN /\ (engine' <=> marketState' = "open")
BY DEF EnsureSession, Becomes, CaughtUp, Running

(* Every step of the source keeps the engine with the market.              *)
LEMMA EngineKeeps ==
  ASSUME EngineInv, [SimNext]_simVars
  PROVE  EngineInv'
<1> USE DEF EngineInv
<1>1. ASSUME Establish PROVE EngineInv'
  BY <1>1, EnsuredRuns DEF Establish
<1>2. CASE MarketClockFires \/ GetHistory
  BY <1>2, EnsuredRuns DEF MarketClockFires, GetHistory, lines
<1>3. CASE BatchFires
  <2>1. PICK due : GenerateBatch(CaughtUp(StatusAt[clock]), due)
    BY <1>3 DEF BatchFires
  <2>2. engine' \in BOOLEAN /\ (engine' <=> marketState' = "open")
    BY <2>1 DEF GenerateBatch, CaughtUp, Running
  <2> QED  BY <1>3, <2>2 DEF BatchFires, lines
<1>4. CASE DropTimerFires
  BY <1>1, <1>4 DEF DropTimerFires, tape
<1>5. CASE TimePasses
  BY <1>5, ClockMoves DEF TimePasses, lines, tape
<1>6. CASE \E s \in Symbols \cup {Unlisted} : GetSnapshot(s) \/ Subscribe({s}) \/ Unsubscribe({s})
  BY <1>6 DEF GetSnapshot, Subscribe, Unsubscribe, lines, tape
<1>7. CASE \E u \in Users : SimulateEntitlementChange(u)
  BY <1>7 DEF SimulateEntitlementChange, lines, tape
<1>8. CASE \E recoverable \in BOOLEAN : SimulateDrop(recoverable)
  BY <1>8 DEF SimulateDrop
<1>9. CASE DrainMacrotask
  BY <1>9 DEF DrainMacrotask, lines, tape
<1>10. CASE UNCHANGED simVars
  BY <1>10 DEF simVars, lines, tape
<1> QED
  BY <1>1, <1>2, <1>3, <1>4, <1>5, <1>6, <1>7, <1>8, <1>9, <1>10 DEF SimNext, Connect, Reconnect

(* The source starts with its timers off, at the first instant.            *)
LEMMA ClockBegins ==
  ASSUME SimInit
  PROVE  clock \in Instants
<1>1. PICK least \in Instants : \A t \in Instants : least <= t
  BY InstantsAreNat, LeastOf
<1>2. Min(Instants) = least
  <2>1. Instants \subseteq Int
    BY InstantsAreNat
  <2> QED  BY <1>1, <2>1, MinIs
<1> QED  BY <1>1, <1>2 DEF SimInit

(* The engine of the simulated source follows the market, through drops, retries and
   reconnections (SimulatedSource.ts ensureSessionFor, simulateDrop).      *)
THEOREM EngineStaysWithMarket == SimSpec => []EngineFollowsMarket
<1>1. SimInit => EngineInv
  BY ClockBegins DEF SimInit, EngineInv
<1>2. EngineInv /\ [SimNext]_simVars => EngineInv'
  BY EngineKeeps
<1>3. EngineInv => EngineFollowsMarket
  BY DEF EngineInv, EngineFollowsMarket
<1> QED  BY <1>1, <1>2, <1>3, PTL DEF SimSpec

-----------------------------------------------------------------------------
(* The delay queue.                                                        *)
Ticks == [s : Symbols, id : Nat, st : {"LIVE", "DELAYED"}, madeAt : Int, emittedAt : Int]

(* Stamping a tick changes only when it was sent.                          *)
LEMMA StampedIs ==
  ASSUME NEW tick \in Ticks, clock \in Int
  PROVE  /\ Stamped(tick) \in Ticks /\ Stamped(tick).emittedAt = clock
         /\ Stamped(tick).id = tick.id /\ Stamped(tick).st = tick.st
         /\ Stamped(tick).madeAt = tick.madeAt
BY DEF Stamped, Ticks

(* What is out after one more tick of a batch.                             *)
Goes(tick, sent) == IF tick.s \in subscribed THEN Append(sent, Stamped(tick)) ELSE sent
GoesBy(g, k, batch) == g = [n \in 0 .. k |-> IF n = 0 THEN out ELSE Goes(batch[n], g[n - 1])]

(* The recursion of emit is well founded.                                  *)
LEMMA GoesExists ==
  ASSUME NEW batch
  PROVE  \A k \in Nat : \E g : GoesBy(g, k, batch)
<1> DEFINE S == {k \in Nat : ~ \E g : GoesBy(g, k, batch)}
<1> SUFFICES ASSUME S # {} PROVE FALSE
  OBVIOUS
<1>1. PICK k \in S : \A j \in S : k <= j
  <2>1. S \subseteq Nat
    OBVIOUS
  <2> QED  BY <2>1, LeastOf
<1>2. k \in Nat /\ ~ \E g : GoesBy(g, k, batch)
  OBVIOUS
<1>3. CASE k = 0
  <2> DEFINE g == [n \in 0 .. 0 |-> out]
  <2>1. GoesBy(g, 0, batch)
    BY DEF GoesBy
  <2> QED  BY <1>2, <1>3, <2>1
<1>4. CASE k # 0
  <2>1. k - 1 \in Nat /\ k - 1 < k
    BY <1>2, <1>4
  <2>2. k - 1 \notin S
    BY <1>1, <1>2, <2>1
  <2>3. PICK g : GoesBy(g, k - 1, batch)
    BY <2>1, <2>2
  <2> DEFINE h == [n \in 0 .. k |-> IF n = k THEN Goes(batch[k], g[k - 1]) ELSE g[n]]
  <2>4. \A n \in 0 .. k - 1 : g[n] = IF n = 0 THEN out ELSE Goes(batch[n], g[n - 1])
    BY <2>3, <2>1 DEF GoesBy
  <2>5. \A n \in 0 .. k : h[n] = IF n = 0 THEN out ELSE Goes(batch[n], h[n - 1])
    <3> TAKE n \in 0 .. k
    <3>1. CASE n = k
      BY <3>1, <1>2, <1>4, <2>1
    <3>2. CASE n # k /\ n = 0
      BY <3>2, <1>2, <1>4, <2>1, <2>4
    <3>3. CASE n # k /\ n # 0
      <4>1. n \in 0 .. k - 1 /\ n - 1 \in 0 .. k /\ n - 1 # k
        BY <3>3, <1>2, <2>1
      <4> QED  BY <3>3, <4>1, <2>4
    <3> QED  BY <3>1, <3>2, <3>3
  <2>6. GoesBy(h, k, batch)
    <3> HIDE DEF h
    <3>1. h = [n \in 0 .. k |-> h[n]]
      BY DEF h
    <3> QED  BY <3>1, <2>5 DEF GoesBy
  <2> QED  BY <2>6, <1>2
<1> QED  BY <1>3, <1>4

(* What is out keeps its place; what a batch adds is some of its ticks, in their order,
   each with the instant it went out.                                      *)
LEMMA EmittedIs ==
  ASSUME NEW batch \in Seq(Ticks), out \in Seq(Ticks), clock \in Int
  PROVE  \E f :
           /\ Emitted(batch) \in Seq(Ticks) /\ Len(out) <= Len(Emitted(batch))
           /\ \A i \in 1 .. Len(out) : Emitted(batch)[i] = out[i]
           /\ \A i \in Len(out) + 1 .. Len(Emitted(batch)) :
                f[i] \in 1 .. Len(batch) /\ Emitted(batch)[i] = Stamped(batch[f[i]])
           /\ \A i, j \in Len(out) + 1 .. Len(Emitted(batch)) : i < j => f[i] < f[j]
<1> DEFINE Len2 == Len(batch)
           From(sent, f, k) ==
             /\ sent \in Seq(Ticks) /\ Len(out) <= Len(sent)
             /\ \A i \in 1 .. Len(out) : sent[i] = out[i]
             /\ \A i \in Len(out) + 1 .. Len(sent) :
                  f[i] \in 1 .. k /\ sent[i] = Stamped(batch[f[i]])
             /\ \A i, j \in Len(out) + 1 .. Len(sent) : i < j => f[i] < f[j]
           g == CHOOSE h : GoesBy(h, Len(batch), batch)
<1>1. Len2 \in Nat /\ Len(out) \in Nat
  OBVIOUS
<1>2. GoesBy(g, Len2, batch)
  BY <1>1, GoesExists
<1>3. Emitted(batch) = g[Len2]
  BY DEF Emitted, GoesBy, Goes
<1> HIDE DEF g
<1>4. g[0] = out /\ \A n \in 1 .. Len2 : g[n] = Goes(batch[n], g[n - 1])
  <2>1. \A n \in 0 .. Len2 : g[n] = IF n = 0 THEN out ELSE Goes(batch[n], g[n - 1])
    BY <1>2 DEF GoesBy
  <2> QED  BY <2>1, <1>1
<1>5. \A sent, f, k : k \in Nat /\ k < Len2 /\ From(sent, f, k) =>
        \E f2 : From(Goes(batch[k + 1], sent), f2, k + 1)
  <2> SUFFICES ASSUME NEW sent, NEW f, NEW k \in Nat, k < Len2, From(sent, f, k)
               PROVE  \E f2 : From(Goes(batch[k + 1], sent), f2, k + 1)
    OBVIOUS
  <2>1. batch[k + 1] \in Ticks /\ Stamped(batch[k + 1]) \in Ticks
    BY <1>1, StampedIs
  <2>2. CASE batch[k + 1].s \notin subscribed
    <3>1. Goes(batch[k + 1], sent) = sent
      BY <2>2 DEF Goes
    <3>2. From(sent, f, k + 1)
      OBVIOUS
    <3> QED  BY <3>1, <3>2
  <2>3. CASE batch[k + 1].s \in subscribed
    <3> DEFINE more == Append(sent, Stamped(batch[k + 1]))
               f2 == [i \in 1 .. Len(sent) + 1 |-> IF i = Len(sent) + 1 THEN k + 1 ELSE f[i]]
    <3>1. Goes(batch[k + 1], sent) = more
      BY <2>3 DEF Goes
    <3>2. sent \in Seq(Ticks) /\ Len(sent) \in Nat
      OBVIOUS
    <3>3. more \in Seq(Ticks) /\ Len(more) = Len(sent) + 1 /\ Len(out) <= Len(more)
      BY <2>1, <3>2, <1>1
    <3>4. \A i \in 1 .. Len(sent) : more[i] = sent[i]
      BY <3>2
    <3>5. more[Len(sent) + 1] = Stamped(batch[k + 1])
      BY <3>2
    <3>6. \A i \in 1 .. Len(out) : more[i] = out[i]
      BY <3>2, <3>4, <1>1
    <3>7. \A i \in Len(out) + 1 .. Len(sent) : f2[i] = f[i] /\ f[i] \in 1 .. k
      BY <3>2, <1>1
    <3>8. f2[Len(sent) + 1] = k + 1
      BY <3>2
    <3> HIDE DEF more, f2
    <3>9. ASSUME NEW i \in Len(out) + 1 .. Len(more)
          PROVE  f2[i] \in 1 .. k + 1 /\ more[i] = Stamped(batch[f2[i]])
      <4>1. CASE i = Len(sent) + 1
        BY <4>1, <3>5, <3>8
      <4>2. CASE i # Len(sent) + 1
        <5>1. i \in Len(out) + 1 .. Len(sent) /\ i \in 1 .. Len(sent)
          BY <4>2, <3>2, <3>3, <1>1
        <5> QED  BY <5>1, <3>4, <3>7
      <4> QED  BY <4>1, <4>2
    <3>10. ASSUME NEW i \in Len(out) + 1 .. Len(more), NEW j \in Len(out) + 1 .. Len(more), i < j
           PROVE  f2[i] < f2[j]
      <4>1. i \in Len(out) + 1 .. Len(sent)
        BY <3>10, <3>2, <3>3, <1>1
      <4>2. CASE j = Len(sent) + 1
        BY <4>1, <4>2, <3>7, <3>8
      <4>3. CASE j # Len(sent) + 1
        <5>1. j \in Len(out) + 1 .. Len(sent)
          BY <4>3, <3>2, <3>3, <1>1
        <5> QED  BY <5>1, <4>1, <3>7, <3>10
      <4> QED  BY <4>2, <4>3
    <3>11. From(more, f2, k + 1)
      BY <3>3, <3>6, <3>9, <3>10
    <3> QED  BY <3>1, <3>11
  <2> QED  BY <2>2, <2>3
<1>6. \A k \in 0 .. Len2 : \E f : From(g[k], f, k)
  <2> DEFINE S == {k \in 0 .. Len2 : ~ \E f : From(g[k], f, k)}
  <2> HIDE DEF From
  <2> SUFFICES ASSUME S # {} PROVE FALSE
    OBVIOUS
  <2>1. PICK k \in S : \A j \in S : k <= j
    <3>1. S \subseteq Nat
      BY <1>1
    <3> QED  BY <3>1, LeastOf
  <2>2. k \in 0 .. Len2 /\ ~ \E f : From(g[k], f, k)
    OBVIOUS
  <2>3. CASE k = 0
    <3>1. From(out, <<>>, 0)
      BY <1>1 DEF From
    <3> QED  BY <3>1, <2>2, <2>3, <1>4
  <2>4. CASE k # 0
    <3>1. k - 1 \in 0 .. Len2 /\ k - 1 \in Nat /\ k - 1 < Len2 /\ k - 1 < k /\ (k - 1) + 1 = k /\ k \in 1 .. Len2
      BY <2>2, <2>4, <1>1
    <3>2. k - 1 \notin S
      BY <2>1, <2>2, <3>1
    <3>3. PICK f : From(g[k - 1], f, k - 1)
      BY <3>1, <3>2
    <3>4. \E f2 : From(Goes(batch[k], g[k - 1]), f2, k)
      <4>1. \E f2 : From(Goes(batch[(k - 1) + 1], g[k - 1]), f2, (k - 1) + 1)
        BY <3>1, <3>3, <1>5
      <4> QED  BY <4>1, <3>1
    <3> QED  BY <3>4, <3>1, <2>2, <1>4
  <2> QED  BY <2>3, <2>4
<1> HIDE DEF From
<1>7. Len2 \in 0 .. Len2
  BY <1>1
<1>8. PICK f : From(g[Len2], f, Len2)
  BY <1>6, <1>7
<1> QED  BY <1>3, <1>8 DEF From

(* The ticks held back are those of a DELAYED viewer, in the order they were made. *)
QueueInv ==
  /\ delayQueue \in Seq(Ticks)
  /\ \A i \in 1 .. Len(delayQueue) : delayQueue[i].st = "DELAYED" /\ delayQueue[i].id <= generated
  /\ \A i, j \in 1 .. Len(delayQueue) : i < j => delayQueue[i].id < delayQueue[j].id

(* Nothing that is out was made after what is held back.                   *)
OutInv ==
  /\ out \in Seq(Ticks)
  /\ \A i \in 1 .. Len(out) : out[i].id <= generated
  /\ \A i \in 1 .. Len(out), j \in 1 .. Len(delayQueue) :
       out[i].st = "DELAYED" => out[i].id < delayQueue[j].id
  /\ DelayIsKept

DelayInv ==
  /\ clock \in Instants /\ generated \in Nat /\ stream \in {NoStream, "LIVE", "DELAYED"}
  /\ QueueInv /\ OutInv

(* Ids are handed out in order.                                            *)
LEMMA OutIsEarlier ==
  ASSUME DelayInv
  PROVE  \A i \in 1 .. Len(out) : out[i].id \in Nat /\ out[i].id < generated + 1
<1> TAKE i \in 1 .. Len(out)
<1>1. out[i] \in Ticks /\ out[i].id <= generated /\ generated \in Nat
  BY DEF DelayInv, OutInv
<1>2. out[i].id \in Nat
  BY <1>1 DEF Ticks
<1> QED  BY <1>1, <1>2

(* What waits in the queue was made before the next tick.                  *)
LEMMA QueueIsEarlier ==
  ASSUME DelayInv
  PROVE  \A i \in 1 .. Len(delayQueue) :
           delayQueue[i].id \in Nat /\ delayQueue[i].id < generated + 1
<1> TAKE i \in 1 .. Len(delayQueue)
<1>1. delayQueue[i] \in Ticks /\ delayQueue[i].id <= generated /\ generated \in Nat
  BY DEF DelayInv, QueueInv
<1>2. delayQueue[i].id \in Nat
  BY <1>1 DEF Ticks
<1> QED  BY <1>1, <1>2

(* A batch that goes out after what is out and before what stays held back. *)
LEMMA EmitKeeps ==
  ASSUME DelayInv, NEW batch \in Seq(Ticks), Emit(batch), generated' = generated + 1,
         delayQueue' \in Seq(Ticks),
         \A k \in 1 .. Len(batch) : batch[k].id <= generated + 1,
         \A k \in 1 .. Len(batch) : batch[k].st = "DELAYED" => Due(batch[k]),
         \A i \in 1 .. Len(out), k \in 1 .. Len(batch) :
           out[i].st = batch[k].st => out[i].id < batch[k].id,
         \A k, l \in 1 .. Len(batch) :
           k < l /\ batch[k].st = batch[l].st => batch[k].id < batch[l].id,
         \A k \in 1 .. Len(batch), j \in 1 .. Len(delayQueue') :
           batch[k].st = "DELAYED" => batch[k].id < delayQueue'[j].id,
         \A i \in 1 .. Len(out), j \in 1 .. Len(delayQueue') :
           out[i].st = "DELAYED" => out[i].id < delayQueue'[j].id
  PROVE  OutInv'
<1>1. out \in Seq(Ticks) /\ clock \in Int /\ generated \in Nat /\ DelayOffset \in Int
  BY InstantsAreNat DEF DelayInv, OutInv
<1>2. out' = Emitted(batch)
  BY DEF Emit
<1>3. PICK f :
        /\ out' \in Seq(Ticks) /\ Len(out) <= Len(out')
        /\ \A i \in 1 .. Len(out) : out'[i] = out[i]
        /\ \A i \in Len(out) + 1 .. Len(out') : f[i] \in 1 .. Len(batch) /\ out'[i] = Stamped(batch[f[i]])
        /\ \A i, j \in Len(out) + 1 .. Len(out') : i < j => f[i] < f[j]
  <2>1. PICK f : 
           /\ Emitted(batch) \in Seq(Ticks) /\ Len(out) <= Len(Emitted(batch))
           /\ \A i \in 1 .. Len(out) : Emitted(batch)[i] = out[i]
           /\ \A i \in Len(out) + 1 .. Len(Emitted(batch)) :
                f[i] \in 1 .. Len(batch) /\ Emitted(batch)[i] = Stamped(batch[f[i]])
           /\ \A i, j \in Len(out) + 1 .. Len(Emitted(batch)) : i < j => f[i] < f[j]
    BY <1>1, EmittedIs
  <2> HIDE DEF Emitted
  <2> QED  BY <1>2, <2>1
<1> DEFINE n == Len(out)
           m == Len(out')
<1>4. n \in Nat /\ m \in Nat /\ n <= m
  BY <1>1, <1>3
<1>5. \A i \in n + 1 .. m :
        /\ f[i] \in 1 .. Len(batch) /\ batch[f[i]] \in Ticks
        /\ out'[i].id = batch[f[i]].id /\ out'[i].st = batch[f[i]].st
        /\ out'[i].madeAt = batch[f[i]].madeAt /\ out'[i].emittedAt = clock
  <2> TAKE i \in n + 1 .. m
  <2>1. f[i] \in 1 .. Len(batch) /\ out'[i] = Stamped(batch[f[i]])
    BY <1>3
  <2>2. batch[f[i]] \in Ticks
    BY <2>1
  <2> QED  BY <2>1, <2>2, <1>1, StampedIs
<1>6. \A i \in 1 .. n : out'[i] = out[i] /\ out[i] \in Ticks
  BY <1>1, <1>3
<1>7. \A i \in 1 .. m : i \in 1 .. n \/ i \in n + 1 .. m
  BY <1>4
<1> HIDE DEF n, m
<1>8. \A i \in 1 .. m : out'[i].id <= generated'
  <2> TAKE i \in 1 .. m
  <2>1. CASE i \in 1 .. n
    <3>1. out[i].id <= generated /\ out[i].id \in Nat
      BY <2>1, <1>6 DEF DelayInv, OutInv, n, Ticks
    <3> QED  BY <2>1, <3>1, <1>1, <1>6
  <2>2. CASE i \in n + 1 .. m
    BY <2>2, <1>5
  <2> QED  BY <2>1, <2>2, <1>7
<1>9. \A i \in 1 .. m, j \in 1 .. Len(delayQueue') :
        out'[i].st = "DELAYED" => out'[i].id < delayQueue'[j].id
  <2> TAKE i \in 1 .. m, j \in 1 .. Len(delayQueue')
  <2>1. CASE i \in 1 .. n
    BY <2>1, <1>6 DEF n
  <2>2. CASE i \in n + 1 .. m
    BY <2>2, <1>5
  <2> QED  BY <2>1, <2>2, <1>7
<1>10. \A i \in 1 .. m : out'[i].st = "DELAYED" => out'[i].emittedAt - out'[i].madeAt >= DelayOffset
  <2> SUFFICES ASSUME NEW i \in 1 .. m, out'[i].st = "DELAYED"
               PROVE  out'[i].emittedAt - out'[i].madeAt >= DelayOffset
    OBVIOUS
  <2>1. CASE i \in 1 .. n
    BY <2>1, <1>6 DEF DelayInv, OutInv, DelayIsKept, n
  <2>2. CASE i \in n + 1 .. m
    <3>1. Due(batch[f[i]]) /\ batch[f[i]].madeAt \in Int
      BY <2>2, <1>5 DEF Ticks
    <3>2. batch[f[i]].madeAt + DelayOffset <= clock
      BY <3>1 DEF Due
    <3> QED  BY <3>1, <3>2, <2>2, <1>1, <1>5
  <2> QED  BY <2>1, <2>2, <1>7
<1>11. \A i, j \in 1 .. m : i < j /\ out'[i].st = out'[j].st => out'[i].id < out'[j].id
  <2> SUFFICES ASSUME NEW i \in 1 .. m, NEW j \in 1 .. m, i < j, out'[i].st = out'[j].st
               PROVE  out'[i].id < out'[j].id
    OBVIOUS
  <2>1. CASE i \in 1 .. n /\ j \in 1 .. n
    BY <2>1, <1>6 DEF DelayInv, OutInv, DelayIsKept, n
  <2>2. CASE i \in 1 .. n /\ j \in n + 1 .. m
    BY <2>2, <1>5, <1>6 DEF n
  <2>3. CASE i \in n + 1 .. m /\ j \in n + 1 .. m
    <3>1. f[i] < f[j]
      BY <2>3, <1>3 DEF n, m
    <3> QED  BY <2>3, <3>1, <1>5
  <2>4. ~ (i \in n + 1 .. m /\ j \in 1 .. n)
    BY <1>4
  <2> QED  BY <2>1, <2>2, <2>3, <2>4, <1>7
<1>12. DelayIsKept'
  BY <1>10, <1>11 DEF DelayIsKept, m
<1> QED  BY <1>3, <1>8, <1>9, <1>12 DEF OutInv, m

(* The ticks in front of the first that is not due are all due.            *)
LEMMA ReleasedAreDue ==
  ASSUME NEW queue \in Seq(Ticks)
  PROVE  LET waiting  == {i \in 1 .. Len(queue) : ~ Due(queue[i])}
             released == IF waiting = {} THEN Len(queue) ELSE Min(waiting) - 1
         IN  released \in 0 .. Len(queue) /\ \A i \in 1 .. released : Due(queue[i])
<1> DEFINE waiting == {i \in 1 .. Len(queue) : ~ Due(queue[i])}
<1>1. Len(queue) \in Nat /\ waiting \subseteq Nat /\ waiting \subseteq Int
  OBVIOUS
<1>2. CASE waiting = {}
  BY <1>1, <1>2
<1>3. CASE waiting # {}
  <2>1. PICK least \in waiting : \A i \in waiting : least <= i
    BY <1>1, <1>3, LeastOf
  <2>2. Min(waiting) = least
    BY <1>1, <2>1, MinIs
  <2>3. least \in 1 .. Len(queue)
    BY <2>1
  <2>4. \A i \in 1 .. least - 1 : i \notin waiting
    BY <2>1, <2>3
  <2>5. \A i \in 1 .. least - 1 : i \in 1 .. Len(queue)
    BY <1>1, <2>3
  <2>6. \A i \in 1 .. least - 1 : Due(queue[i])
    BY <2>4, <2>5
  <2>7. least - 1 \in 0 .. Len(queue)
    BY <1>1, <2>3
  <2> HIDE DEF waiting
  <2> DEFINE released == IF waiting = {} THEN Len(queue) ELSE Min(waiting) - 1
  <2>8. released = least - 1
    BY <1>3, <2>2
  <2>9. released \in 0 .. Len(queue) /\ \A i \in 1 .. released : Due(queue[i])
    BY <2>6, <2>7, <2>8
  <2> QED  BY <2>9 DEF waiting
<1> QED  BY <1>2, <1>3

(* A tick is made: it goes out, or joins the queue, and the head of the queue follows. *)
LEMMA DeliverKeeps ==
  ASSUME DelayInv, NEW tick \in Ticks, tick.id = generated + 1, tick.st = CurrentStream,
         Deliver(tick), generated' = generated + 1
  PROVE  QueueInv' /\ OutInv'
<1> DEFINE held     == CurrentStream = "DELAYED"
           queue    == IF held THEN Append(delayQueue, tick) ELSE delayQueue
           waiting  == {i \in 1 .. Len(queue) : ~ Due(queue[i])}
           released == IF waiting = {} THEN Len(queue) ELSE Min(waiting) - 1
           head     == SubSeq(queue, 1, released)
           batch    == (IF held THEN <<>> ELSE <<tick>>) \o head
<1>1. generated \in Nat /\ delayQueue \in Seq(Ticks) /\ out \in Seq(Ticks) /\ Len(out) \in Nat
  BY DEF DelayInv, QueueInv, OutInv
<1>2. tick.st \in {"LIVE", "DELAYED"} /\ (held <=> tick.st = "DELAYED")
  BY DEF Ticks
<1>3. delayQueue' = SubSeq(queue, released + 1, Len(queue)) /\ Emit(batch)
  BY DEF Deliver
<1>4. queue \in Seq(Ticks) /\ Len(queue) \in Nat
  BY <1>1
<1>5. released \in 0 .. Len(queue) /\ \A i \in 1 .. released : Due(queue[i])
  BY <1>4, ReleasedAreDue
<1>6. /\ \A i \in 1 .. Len(queue) : queue[i].st = "DELAYED" /\ queue[i].id <= generated + 1 /\ queue[i].id \in Nat
      /\ \A i, j \in 1 .. Len(queue) : i < j => queue[i].id < queue[j].id
      /\ \A i \in 1 .. Len(out), j \in 1 .. Len(queue) :
           out[i].st = "DELAYED" => out[i].id < queue[j].id
  <2>1. \A i \in 1 .. Len(out) : out[i].id \in Nat /\ out[i].id < generated + 1
    BY OutIsEarlier
  <2>2. /\ \A i \in 1 .. Len(delayQueue) : /\ delayQueue[i].st = "DELAYED" /\ delayQueue[i].id \in Nat
                                          /\ delayQueue[i].id < generated + 1
        /\ \A i, j \in 1 .. Len(delayQueue) : i < j => delayQueue[i].id < delayQueue[j].id
        /\ \A i \in 1 .. Len(out), j \in 1 .. Len(delayQueue) :
             out[i].st = "DELAYED" => out[i].id < delayQueue[j].id
    BY QueueIsEarlier DEF DelayInv, QueueInv, OutInv
  <2>3. CASE ~ held
    <3>1. \A i \in 1 .. Len(delayQueue) : delayQueue[i].id <= generated + 1
      BY <1>1, <2>2
    <3> QED  BY <2>2, <2>3, <3>1
  <2>4. CASE held
    <3> DEFINE n == Len(delayQueue)
    <3>1. n \in Nat /\ Len(queue) = n + 1 /\ queue[n + 1] = tick /\ \A i \in 1 .. n : queue[i] = delayQueue[i]
      BY <1>1, <2>4
    <3> HIDE DEF n, queue
    <3>2. \A i \in 1 .. Len(queue) : i \in 1 .. n \/ i = n + 1
      BY <3>1
    <3>3. \A i \in 1 .. n : /\ queue[i].st = "DELAYED" /\ queue[i].id \in Nat
                            /\ queue[i].id < generated + 1
      BY <2>2, <3>1 DEF n
    <3>4. queue[n + 1].st = "DELAYED" /\ queue[n + 1].id = generated + 1
      BY <1>2, <2>4, <3>1
    <3>5. \A i \in 1 .. Len(queue) : queue[i].st = "DELAYED"
      BY <3>2, <3>3, <3>4
    <3>6. \A i \in 1 .. Len(queue) : queue[i].id <= generated + 1 /\ queue[i].id \in Nat
      <4> TAKE i \in 1 .. Len(queue)
      <4>1. CASE i \in 1 .. n
        BY <4>1, <3>3, <1>1
      <4>2. CASE i = n + 1
        BY <4>2, <3>4, <1>1
      <4> QED  BY <4>1, <4>2, <3>2
    <3>7. ASSUME NEW i \in 1 .. Len(queue), NEW j \in 1 .. Len(queue), i < j
          PROVE  queue[i].id < queue[j].id
      <4>1. i \in 1 .. n
        BY <3>7, <3>1
      <4>2. CASE j \in 1 .. n
        BY <4>1, <4>2, <3>7, <2>2, <3>1 DEF n
      <4>3. CASE j = n + 1
        BY <4>1, <4>3, <3>3, <3>4
      <4> QED  BY <4>2, <4>3, <3>2
    <3>8. ASSUME NEW i \in 1 .. Len(out), NEW j \in 1 .. Len(queue), out[i].st = "DELAYED"
          PROVE  out[i].id < queue[j].id
      <4>1. CASE j \in 1 .. n
        BY <4>1, <3>8, <2>2, <3>1 DEF n
      <4>2. CASE j = n + 1
        BY <4>2, <2>1, <3>4
      <4> QED  BY <4>1, <4>2, <3>2
    <3> QED  BY <3>5, <3>6, <3>7, <3>8
  <2> QED  BY <2>3, <2>4
<1> HIDE DEF queue, released
<1>7. /\ delayQueue' \in Seq(Ticks) /\ Len(delayQueue') = Len(queue) - released
      /\ \A j \in 1 .. Len(queue) - released : delayQueue'[j] = queue[released + j]
  BY <1>3, <1>4, <1>5
<1>8. \A j \in 1 .. Len(queue) - released : released + j \in 1 .. Len(queue)
  BY <1>4, <1>5
<1>9. QueueInv'
  <2>1. \A j \in 1 .. Len(queue) - released :
          delayQueue'[j].st = "DELAYED" /\ delayQueue'[j].id <= generated'
    BY <1>6, <1>7, <1>8
  <2>2. ASSUME NEW i \in 1 .. Len(queue) - released, NEW j \in 1 .. Len(queue) - released, i < j
        PROVE  delayQueue'[i].id < delayQueue'[j].id
    <3>1. released + i < released + j
      BY <2>2, <1>5
    <3> QED  BY <3>1, <1>6, <1>7, <1>8
  <2> QED  BY <2>1, <2>2, <1>7 DEF QueueInv
<1>10. /\ head \in Seq(Ticks) /\ Len(head) = released
       /\ \A k \in 1 .. released : head[k] = queue[k] /\ k \in 1 .. Len(queue)
  BY <1>4, <1>5
<1> HIDE DEF head
<1> DEFINE shift == IF held THEN 0 ELSE 1
<1>11. /\ batch \in Seq(Ticks) /\ Len(batch) = shift + released /\ shift \in {0, 1}
       /\ ~ held => shift = 1 /\ batch[1] = tick
       /\ \A k \in 1 .. released : batch[shift + k] = queue[k]
  <2>1. CASE held
    <3>1. batch = head
      BY <2>1, <1>10
    <3> QED  BY <2>1, <3>1, <1>5, <1>10
  <2>2. CASE ~ held
    <3>1. batch = <<tick>> \o head /\ <<tick>> \in Seq(Ticks) /\ Len(<<tick>>) = 1
      BY <2>2
    <3> QED  BY <2>2, <3>1, <1>5, <1>10
  <2> QED  BY <2>1, <2>2
<1>12. \A k \in 1 .. Len(batch) :
         \/ ~ held /\ k = 1 /\ batch[k] = tick
         \/ k - shift \in 1 .. released /\ batch[k] = queue[k - shift] /\ k - shift \in 1 .. Len(queue)
  <2> HIDE DEF batch
  <2> TAKE k \in 1 .. Len(batch)
  <2>1. CASE k = 1 /\ shift = 1
    BY <2>1, <1>11
  <2>2. CASE ~ (k = 1 /\ shift = 1)
    <3>1. k - shift \in 1 .. released /\ shift + (k - shift) = k
      BY <2>2, <1>5, <1>11
    <3> QED  BY <3>1, <1>10, <1>11
  <2> QED  BY <2>1, <2>2
<1> HIDE DEF batch, held
<1>13. \A k \in 1 .. Len(batch) : batch[k].id <= generated + 1
  <2> TAKE k \in 1 .. Len(batch)
  <2>1. CASE batch[k] = tick
    BY <2>1, <1>1
  <2>2. CASE batch[k] = queue[k - shift] /\ k - shift \in 1 .. Len(queue)
    BY <2>2, <1>6
  <2> QED  BY <2>1, <2>2, <1>12
<1>14. \A k \in 1 .. Len(batch) : batch[k].st = "DELAYED" => Due(batch[k])
  BY <1>2, <1>5, <1>12
<1>15. \A i \in 1 .. Len(out), k \in 1 .. Len(batch) :
         out[i].st = batch[k].st => out[i].id < batch[k].id
  <2>1. \A i \in 1 .. Len(out) : out[i].id \in Nat /\ out[i].id < generated + 1
    BY OutIsEarlier
  <2> QED  BY <2>1, <1>6, <1>12
<1>16. ASSUME NEW k \in 1 .. Len(batch), NEW l \in 1 .. Len(batch), k < l, batch[k].st = batch[l].st
       PROVE  batch[k].id < batch[l].id
  <2>1. l # 1
    BY <1>16, <1>11
  <2>2. l - shift \in 1 .. Len(queue) /\ batch[l] = queue[l - shift] /\ batch[l].st = "DELAYED"
    BY <2>1, <1>6, <1>12
  <2>3. k - shift \in 1 .. Len(queue) /\ batch[k] = queue[k - shift]
    BY <2>2, <1>2, <1>12, <1>16
  <2>4. k - shift < l - shift
    BY <1>11, <1>16
  <2> QED  BY <2>2, <2>3, <2>4, <1>6
<1>17. ASSUME NEW k \in 1 .. Len(batch), NEW j \in 1 .. Len(delayQueue'), batch[k].st = "DELAYED"
       PROVE  batch[k].id < delayQueue'[j].id
  <2>1. k - shift \in 1 .. released /\ k - shift \in 1 .. Len(queue) /\ batch[k] = queue[k - shift]
    BY <1>2, <1>12, <1>17
  <2>2. delayQueue'[j] = queue[released + j] /\ released + j \in 1 .. Len(queue) /\ j \in 1 .. Len(queue) - released
    BY <1>7, <1>8
  <2>3. k - shift < released + j
    BY <2>1, <2>2, <1>5
  <2> QED  BY <2>1, <2>2, <2>3, <1>6
<1>18. \A i \in 1 .. Len(out), j \in 1 .. Len(delayQueue') :
         out[i].st = "DELAYED" => out[i].id < delayQueue'[j].id
  BY <1>6, <1>7, <1>8
<1>19. OutInv'
  <2>1. batch \in Seq(Ticks) /\ Emit(batch) /\ delayQueue' \in Seq(Ticks)
    BY <1>3, <1>7, <1>11
  <2> QED  BY <2>1, <1>13, <1>14, <1>15, <1>16, <1>17, <1>18, EmitKeeps
<1> QED  BY <1>9, <1>19

(* What goes out with a tick is made of ticks.                             *)
LEMMA BatchIsTicks ==
  ASSUME NEW tick \in Ticks, delayQueue \in Seq(Ticks), Deliver(tick)
  PROVE  \E batch \in Seq(Ticks) : out' = Emitted(batch)
<1> DEFINE held     == CurrentStream = "DELAYED"
           queue    == IF held THEN Append(delayQueue, tick) ELSE delayQueue
           waiting  == {i \in 1 .. Len(queue) : ~ Due(queue[i])}
           released == IF waiting = {} THEN Len(queue) ELSE Min(waiting) - 1
           batch    == (IF held THEN <<>> ELSE <<tick>>) \o SubSeq(queue, 1, released)
<1>1. out' = Emitted(batch)
  BY DEF Deliver, Emit
<1>2. queue \in Seq(Ticks)
  OBVIOUS
<1>3. released \in 0 .. Len(queue)
  BY <1>2, ReleasedAreDue
<1> HIDE DEF queue, released
<1>4. SubSeq(queue, 1, released) \in Seq(Ticks)
  BY <1>2, <1>3
<1>5. batch \in Seq(Ticks)
  BY <1>4
<1> QED  BY <1>1, <1>5

(* A batch delivers the tick it makes, when the market is open.            *)
LEMMA BatchDelivers ==
  ASSUME clock \in Instants, generated \in Nat, stream \in {NoStream, "LIVE", "DELAYED"}, BatchFires,
         ~ UNCHANGED ticks
  PROVE  /\ StatusAt[clock].state = "open"
         /\ generated' = generated + 1 /\ UNCHANGED <<clock, stream>>
         /\ \E tick \in Ticks :
              tick.id = generated + 1 /\ tick.st = CurrentStream /\ Deliver(tick)
<1> DEFINE ensured == CaughtUp(StatusAt[clock])
<1>1. PICK due : GenerateBatch(ensured, due)
  BY DEF BatchFires
<1>2. /\ ensured.engine
      /\ \E s \in Symbols, moved \in -LiveSteps .. LiveSteps :
           GenerateOne([x \in Symbols |->
             IF due THEN Sampled(ensured.runtime[x]) ELSE ensured.runtime[x]], s, moved)
  BY <1>1 DEF GenerateBatch
<1>3. PICK s \in Symbols :
        /\ generated' = generated + 1
        /\ Deliver([s |-> s, id |-> generated + 1, st |-> CurrentStream, madeAt |-> clock, emittedAt |-> 0])
  BY <1>2 DEF GenerateOne
<1> DEFINE tick == [s |-> s, id |-> generated + 1, st |-> CurrentStream, madeAt |-> clock, emittedAt |-> 0]
<1>4. CurrentStream \in {"LIVE", "DELAYED"}
  BY DEF CurrentStream, ResolveStream, NoStream
<1>5. clock \in Int /\ generated + 1 \in Nat
  BY InstantsAreNat
<1>6. tick \in Ticks /\ tick.id = generated + 1 /\ tick.st = CurrentStream
  BY <1>4, <1>5 DEF Ticks
<1>7. StatusAt[clock].state = "open"
  BY <1>2 DEF CaughtUp, Running
<1> QED  BY <1>3, <1>6, <1>7 DEF BatchFires, viewer

(* The steps that make no tick.                                            *)
LEMMA TicksStay ==
  ASSUME [SimNext]_simVars, clock \in Instants, stream \in {NoStream, "LIVE", "DELAYED"}, ~ BatchFires
  PROVE  UNCHANGED ticks /\ clock' \in Instants /\ stream' \in {NoStream, "LIVE", "DELAYED"}
<1>1. ASSUME Establish PROVE UNCHANGED ticks /\ clock' \in Instants /\ stream' \in {NoStream, "LIVE", "DELAYED"}
  BY <1>1 DEF Establish, ResolveStream
<1>2. CASE MarketClockFires \/ GetHistory
  BY <1>2 DEF MarketClockFires, GetHistory, viewer
<1>3. CASE DropTimerFires
  BY <1>1, <1>3 DEF DropTimerFires, viewer
<1>4. CASE TimePasses
  BY <1>4, ClockMoves DEF TimePasses, viewer
<1>5. CASE \E s \in Symbols \cup {Unlisted} : GetSnapshot(s) \/ Subscribe({s}) \/ Unsubscribe({s})
  BY <1>5 DEF GetSnapshot, Subscribe, Unsubscribe, viewer
<1>6. CASE \E u \in Users : SimulateEntitlementChange(u)
  BY <1>6 DEF SimulateEntitlementChange, ResolveStream
<1>7. CASE \E recoverable \in BOOLEAN : SimulateDrop(recoverable)
  BY <1>7 DEF SimulateDrop, viewer
<1>8. CASE DrainMacrotask
  BY <1>8 DEF DrainMacrotask, viewer
<1>9. CASE UNCHANGED simVars
  BY <1>9 DEF simVars, viewer
<1> QED  BY <1>1, <1>2, <1>3, <1>4, <1>5, <1>6, <1>7, <1>8, <1>9 DEF SimNext, Connect, Reconnect

(* Every step of the source keeps the delay and the order of its ticks.    *)
LEMMA DelayKeeps ==
  ASSUME DelayInv, [SimNext]_simVars
  PROVE  DelayInv'
<1>1. CASE UNCHANGED ticks /\ clock' \in Instants /\ stream' \in {NoStream, "LIVE", "DELAYED"}
  BY <1>1 DEF DelayInv, QueueInv, OutInv, DelayIsKept, ticks
<1>2. CASE BatchFires /\ ~ UNCHANGED ticks
  <2>1. /\ generated' = generated + 1 /\ UNCHANGED <<clock, stream>>
        /\ \E tick \in Ticks :
             tick.id = generated + 1 /\ tick.st = CurrentStream /\ Deliver(tick)
    BY <1>2, BatchDelivers DEF DelayInv
  <2>2. QueueInv' /\ OutInv'
    BY <2>1, DeliverKeeps
  <2> QED  BY <2>1, <2>2 DEF DelayInv
<1>3. BatchFires => UNCHANGED <<clock, stream>>
  BY DEF BatchFires, viewer
<1> QED  BY <1>1, <1>2, <1>3, TicksStay DEF DelayInv

(* A DELAYED tick is held for the whole offset and ticks of one stream go out in order,
   whatever timers are late and however often the user's entitlement changes
   (SimulatedSource.ts deliver, drainDelayedQueue, emit).                  *)
THEOREM DelayStaysKept == SimSpec => []DelayIsKept
<1>1. SimInit => DelayInv
  <2> SUFFICES ASSUME SimInit PROVE DelayInv
    OBVIOUS
  <2>1. out = <<>> /\ delayQueue = <<>> /\ generated = 0 /\ stream = NoStream
    BY DEF SimInit
  <2>2. QueueInv /\ OutInv
    BY <2>1 DEF QueueInv, OutInv, DelayIsKept
  <2> QED  BY <2>1, <2>2, ClockBegins DEF DelayInv
<1>2. DelayInv /\ [SimNext]_simVars => DelayInv'
  BY DelayKeeps
<1>3. DelayInv => DelayIsKept
  BY DEF DelayInv, OutInv
<1> QED  BY <1>1, <1>2, <1>3, PTL DEF SimSpec

QuietInv == DelayInv /\ QuietWhileClosed

(* No tick leaves the simulated source while EGX is closed, a held one included, however
   late the market clock is (SimulatedSource.ts generateBatch).            *)
THEOREM SourceStaysQuiet == SimSpec => []QuietWhileClosed
<1>1. SimInit => QuietInv
  <2> SUFFICES ASSUME SimInit PROVE QuietInv
    OBVIOUS
  <2>1. out = <<>> /\ delayQueue = <<>> /\ generated = 0 /\ stream = NoStream
    BY DEF SimInit
  <2>2. QueueInv /\ OutInv
    BY <2>1 DEF QueueInv, OutInv, DelayIsKept
  <2> QED  BY <2>1, <2>2, ClockBegins DEF DelayInv, QuietInv, QuietWhileClosed
<1>2. QuietInv /\ [SimNext]_simVars => QuietInv'
  <2> SUFFICES ASSUME QuietInv, [SimNext]_simVars PROVE QuietWhileClosed'
    BY DelayKeeps DEF QuietInv
  <2>1. CASE UNCHANGED ticks
    BY <2>1 DEF QuietInv, QuietWhileClosed, ticks
  <2>2. CASE ~ UNCHANGED ticks
    <3>1. BatchFires
      BY <2>2, TicksStay DEF QuietInv, DelayInv
    <3>2. /\ StatusAt[clock].state = "open" /\ clock \in Int
          /\ \E tick \in Ticks : Deliver(tick)
      BY <2>2, <3>1, BatchDelivers, InstantsAreNat DEF QuietInv, DelayInv
    <3>3. out \in Seq(Ticks) /\ delayQueue \in Seq(Ticks)
      BY DEF QuietInv, DelayInv, OutInv, QueueInv
    <3>4. \E batch \in Seq(Ticks) : out' = Emitted(batch)
      BY <3>2, <3>3, BatchIsTicks
    <3>5. \A i \in 1 .. Len(out') :
            (i \in 1 .. Len(out) /\ out'[i] = out[i]) \/ out'[i].emittedAt = clock
      <4>1. PICK batch \in Seq(Ticks) : out' = Emitted(batch)
        BY <3>4
      <4>2. PICK f :
              /\ Emitted(batch) \in Seq(Ticks) /\ Len(out) <= Len(Emitted(batch))
              /\ \A i \in 1 .. Len(out) : Emitted(batch)[i] = out[i]
              /\ \A i \in Len(out) + 1 .. Len(Emitted(batch)) :
                   f[i] \in 1 .. Len(batch) /\ Emitted(batch)[i] = Stamped(batch[f[i]])
        BY <3>2, <3>3, EmittedIs
      <4> HIDE DEF Emitted
      <4> TAKE i \in 1 .. Len(out')
      <4>3. i \in 1 .. Len(out) \/ i \in Len(out) + 1 .. Len(Emitted(batch))
        BY <4>1, <4>2, <3>3
      <4>4. CASE i \in Len(out) + 1 .. Len(Emitted(batch))
        <5>1. batch[f[i]] \in Ticks /\ out'[i] = Stamped(batch[f[i]])
          BY <4>1, <4>2, <4>4
        <5> QED  BY <5>1, <3>2, StampedIs
      <4> QED  BY <4>1, <4>2, <4>3, <4>4
    <3> QED  BY <3>2, <3>5 DEF QuietInv, QuietWhileClosed
  <2> QED  BY <2>1, <2>2
<1>3. QuietInv => QuietWhileClosed
  BY DEF QuietInv
<1> QED  BY <1>1, <1>2, <1>3, PTL DEF SimSpec

-----------------------------------------------------------------------------
(* The tape of a session.                                                  *)
(* The lesser of two numbers.                                              *)
LEMMA MinOfTwo ==
  ASSUME NEW a \in Int, NEW b \in Int
  PROVE  /\ Min({a, b}) \in Int /\ Min({a, b}) <= a /\ Min({a, b}) <= b
         /\ Min({a, b}) = a \/ Min({a, b}) = b
<1> DEFINE least == IF a <= b THEN a ELSE b
<1>1. least \in {a, b} /\ {a, b} \subseteq Int /\ \A y \in {a, b} : least <= y
  OBVIOUS
<1>2. Min({a, b}) = least
  <2> HIDE DEF least
  <2> QED  BY <1>1, MinIs
<1> QED  BY <1>2

(* A quotient, by a divisor that need not be a constant.                   *)
LEMMA Quotient ==
  ASSUME NEW d \in Nat, NEW k \in Nat \ {0}
  PROVE  d \div k \in Nat /\ k * (d \div k) <= d
OBVIOUS

(* Multiples are numbers too, and one more is one step further.            *)
LEMMA Products ==
  ASSUME NEW m \in Nat, NEW k \in Nat
  PROVE  m * k \in Nat /\ (m + 1) * k = m * k + k
OBVIOUS

(* The walk never falls below one, and stays within its steps of the reference. *)
LEMMA WalkIs ==
  ASSUME NEW date \in Int, NEW slot \in Int
  PROVE  Walk(date, slot) \in Nat /\ 1 <= Walk(date, slot) /\ Walk(date, slot) <= 1 + Reference + BackfillSteps
<1> DEFINE width == 2 * BackfillSteps + 1
           moved == (date + 2 * slot) % width
           at    == Reference + moved - BackfillSteps
<1>1. width \in Nat \ {0} /\ date + 2 * slot \in Int /\ Reference \in Nat /\ BackfillSteps \in Nat
  OBVIOUS
<1>2. moved \in 0 .. width - 1
  <2> HIDE DEF width
  <2> QED  BY <1>1
<1> HIDE DEF moved
<1>3. at \in Int /\ at <= Reference + BackfillSteps
  BY <1>1, <1>2
<1> HIDE DEF at
<1>4. /\ Max({1, at}) \in Int /\ 1 <= Max({1, at}) /\ at <= Max({1, at})
      /\ Max({1, at}) = 1 \/ Max({1, at}) = at
  <2>1. 1 \in Int /\ at \in Int
    BY <1>3
  <2> QED  BY <2>1, MaxOfTwo, Zenon
<1>5. Walk(date, slot) = Max({1, at})
  BY DEF Walk, at, moved
<1>6. \A m \in Int : 1 <= m /\ (m = 1 \/ m = at) =>
        m \in Nat /\ m <= 1 + Reference + BackfillSteps
  BY <1>1, <1>3
<1> QED  BY <1>4, <1>5, <1>6

Samples  == [t : Int, price : Int]
Runtimes == [open : Int, price : Int, high : Int, low : Int, id : Int, history : Seq(Samples)]

(* The fields of a sample.                                                 *)
LEMMA SampleTypes == \A sample \in Samples : sample.t \in Int /\ sample.price \in Int
BY DEF Samples

(* A tape inside its session, sampled last at an instant or before.        *)
InSession(r, date, at) ==
  /\ r \in Runtimes /\ Len(r.history) >= 1
  /\ r.low <= r.price /\ r.price <= r.high /\ r.low <= r.open /\ r.open <= r.high /\ r.low >= 1
  /\ \A i \in 1 .. Len(r.history) :
       /\ r.history[i].t >= Opens(date)
       /\ r.low <= r.history[i].price /\ r.history[i].price <= r.high
  /\ \A i \in 1 .. Len(r.history) - 1 : r.history[i + 1].t - r.history[i].t >= SampleInterval
  /\ r.history[Len(r.history)].t <= at

(* A rebuilt tape lies inside its session, with a sample at every slot.    *)
LEMMA BackfilledIs ==
  ASSUME NEW date \in Int, NEW target \in Int, Opens(date) \in Int, Opens(date) <= target
  PROVE  InSession(Backfilled(Opens(date), target, date), date, target)
<1> DEFINE openAt == Opens(date)
           slots  == Max({0, (target - openAt) \div SampleInterval})
           walked == {Walk(date, n) : n \in 0 .. slots}
           h      == [n \in 1 .. slots + 1 |->
                       [t |-> openAt + (n - 1) * SampleInterval, price |-> Walk(date, n - 1)]]
           r      == Backfilled(openAt, target, date)
<1>1. SampleInterval \in Nat \ {0} /\ openAt \in Int /\ target - openAt \in Nat
  OBVIOUS
<1>2. slots \in Nat /\ slots * SampleInterval <= target - openAt
  <2> DEFINE q == (target - openAt) \div SampleInterval
  <2>1. q \in Nat /\ SampleInterval * q <= target - openAt
    BY <1>1, Quotient
  <2> HIDE DEF q
  <2>2. /\ Max({0, q}) \in Int /\ 0 <= Max({0, q}) /\ q <= Max({0, q})
        /\ Max({0, q}) = 0 \/ Max({0, q}) = q
    <3>1. 0 \in Int /\ q \in Int
      BY <2>1
    <3> QED  BY <3>1, MaxOfTwo, Zenon
  <2>3. Max({0, q}) = q
    BY <2>1, <2>2
  <2>4. q * SampleInterval <= target - openAt
    BY <1>1, <2>1
  <2> QED  BY <2>1, <2>3, <2>4 DEF q
<1> HIDE DEF slots, openAt
<1>3. r = [open |-> Walk(date, 0), price |-> Walk(date, slots), high |-> Max(walked),
           low |-> Min(walked), id |-> 0, history |-> h]
  BY DEF Backfilled, slots
<1>4. /\ walked \subseteq Nat /\ walked # {} /\ \A n \in 0 .. slots : Walk(date, n) \in walked
      /\ \A w \in walked : 1 <= w /\ w <= 1 + Reference + BackfillSteps
  <2>1. 0 \in 0 .. slots /\ \A n \in 0 .. slots : n \in Int
    BY <1>2
  <2> QED  BY <2>1, WalkIs
<1> DEFINE high == Max(walked)
           low  == Min(walked)
<1>5. high \in walked /\ \A w \in walked : w <= high
  <2>1. walked \subseteq Int /\ 1 + Reference + BackfillSteps \in Int
    BY <1>4
  <2> HIDE DEF walked
  <2> QED  BY <2>1, <1>4, MaxOf
<1>6. low \in walked /\ \A w \in walked : low <= w
  <2>1. PICK least \in walked : \A w \in walked : least <= w
    <3> HIDE DEF walked
    <3> QED  BY <1>4, LeastOf
  <2>2. walked \subseteq Int
    BY <1>4
  <2>3. low = least
    <3> HIDE DEF walked
    <3> QED  BY <2>1, <2>2, MinIs
  <2> QED  BY <2>1, <2>3
<1> HIDE DEF high, low
<1>7. high \in Nat /\ low \in Nat /\ low >= 1
  BY <1>4, <1>5, <1>6
<1>8. \A n \in 0 .. slots : Walk(date, n) \in Nat /\ low <= Walk(date, n) /\ Walk(date, n) <= high
  BY <1>4, <1>5, <1>6
<1> HIDE DEF walked
<1>9. \A n \in 1 .. slots + 1 : n - 1 \in 0 .. slots /\ (n - 1) * SampleInterval \in Nat
  <2> TAKE n \in 1 .. slots + 1
  <2>1. n - 1 \in Nat /\ n - 1 \in 0 .. slots
    BY <1>2
  <2> QED  BY <2>1, <1>1, Products
<1>10. h \in Seq(Samples) /\ Len(h) = slots + 1
  <2>1. \A n \in 1 .. slots + 1 : h[n] \in Samples
    BY <1>1, <1>8, <1>9 DEF Samples
  <2> QED  BY <2>1, <1>2
<1>11. \A i \in 1 .. slots + 1 : h[i].t >= openAt /\ low <= h[i].price /\ h[i].price <= high
  BY <1>1, <1>8, <1>9
<1>12. \A i \in 1 .. slots : h[i + 1].t - h[i].t >= SampleInterval
  <2> TAKE i \in 1 .. slots
  <2>1. i - 1 \in Nat /\ i \in 1 .. slots + 1 /\ i + 1 \in 1 .. slots + 1 /\ (i - 1) + 1 = i
    BY <1>2
  <2>2. i * SampleInterval = (i - 1) * SampleInterval + SampleInterval /\ (i - 1) * SampleInterval \in Nat
    <3>1. \A m \in Nat : (m + 1) * SampleInterval = m * SampleInterval + SampleInterval /\ m * SampleInterval \in Nat
      BY <1>1, Products
    <3>2. ((i - 1) + 1) * SampleInterval = (i - 1) * SampleInterval + SampleInterval /\ (i - 1) * SampleInterval \in Nat
      BY <3>1, <2>1
    <3> QED  BY <3>2, <2>1
  <2>3. h[i + 1].t = openAt + i * SampleInterval /\ h[i].t = openAt + (i - 1) * SampleInterval
    <3>1. (i + 1) - 1 = i
      BY <2>1
    <3> QED  BY <2>1, <3>1
  <2> DEFINE a == (i - 1) * SampleInterval
             b == i * SampleInterval
  <2> HIDE DEF a, b
  <2>4. b = a + SampleInterval /\ a \in Nat /\ h[i + 1].t = openAt + b /\ h[i].t = openAt + a
    BY <2>2, <2>3 DEF a, b
  <2> HIDE DEF h
  <2> QED  BY <2>4, <1>1
<1>13. h[slots + 1].t <= target
  <2>1. (slots + 1) - 1 = slots /\ slots + 1 \in 1 .. slots + 1
    BY <1>2
  <2>2. h[slots + 1].t = openAt + slots * SampleInterval /\ slots * SampleInterval \in Nat
    BY <2>1, <1>9
  <2> DEFINE a == slots * SampleInterval
  <2> HIDE DEF a
  <2>3. h[slots + 1].t = openAt + a /\ a \in Nat /\ a <= target - openAt
    BY <2>2, <1>2 DEF a
  <2> HIDE DEF h
  <2> QED  BY <2>3, <1>1
<1> HIDE DEF h
<1>14. r \in Runtimes
  <2>1. Walk(date, 0) \in Int /\ Walk(date, slots) \in Int
    BY <1>2, <1>8
  <2> HIDE DEF r
  <2> QED  BY <2>1, <1>3, <1>7, <1>10 DEF Runtimes, high, low
<1>15. /\ r.history = h /\ r.low = low /\ r.high = high
       /\ r.price = Walk(date, slots) /\ r.open = Walk(date, 0)
  <2> HIDE DEF r
  <2> QED  BY <1>3 DEF high, low
<1> HIDE DEF r
<1>16. slots \in 0 .. slots /\ 0 \in 0 .. slots /\ slots + 1 >= 1 /\ slots + 1 - 1 = slots
  BY <1>2
<1>17. /\ low <= r.price /\ r.price <= high /\ low <= r.open /\ r.open <= high
  BY <1>8, <1>15, <1>16
<1>18. InSession(r, date, target)
  BY <1>7, <1>10, <1>11, <1>12, <1>13, <1>14, <1>15, <1>16, <1>17 DEF InSession, openAt
<1> QED  BY <1>18 DEF r, openAt

(* A sample joins the history, an interval or more after the last one.     *)
LEMMA SampledIs ==
  ASSUME NEW r, NEW date \in Int, NEW at \in Int, InSession(r, date, at), SampleDue(at),
         clock \in Int, Opens(date) \in Int, Opens(date) <= clock
  PROVE  InSession(Sampled(r), date, clock)
<1> DEFINE h == r.history
           n == Len(r.history)
           q == Sampled(r)
           sample == [t |-> clock, price |-> r.price]
<1>1. /\ r \in Runtimes /\ h \in Seq(Samples) /\ n \in Nat /\ n >= 1 /\ sample \in Samples
      /\ SampleInterval \in Nat
  BY DEF InSession, Runtimes, Samples
<1>2. /\ q \in Runtimes /\ q.history = Append(h, sample) /\ q.low = r.low /\ q.high = r.high
      /\ q.price = r.price /\ q.open = r.open
  <2>1. q = [open |-> r.open, price |-> r.price, high |-> r.high, low |-> r.low, id |-> r.id,
             history |-> Append(h, sample)]
    <3>1. r = [open |-> r.open, price |-> r.price, high |-> r.high, low |-> r.low, id |-> r.id,
               history |-> r.history]
      BY <1>1 DEF Runtimes
    <3>2. q = [r EXCEPT !.history = Append(h, sample)]
      BY <3>1 DEF Sampled
    <3> HIDE DEF q, sample
    <3> QED  BY <3>1, <3>2
  <2>2. Append(h, sample) \in Seq(Samples)
    BY <1>1
  <2> HIDE DEF q, h, sample
  <2> QED  BY <1>1, <2>1, <2>2 DEF Runtimes
<1>3. /\ Len(q.history) = n + 1 /\ q.history[n + 1] = sample
      /\ \A i \in 1 .. n : q.history[i] = h[i] /\ h[i] \in Samples
  BY <1>1, <1>2
<1>4. /\ r.low \in Int /\ r.price \in Int /\ r.high \in Int /\ r.open \in Int
      /\ r.low <= r.price /\ r.price <= r.high /\ r.low <= r.open /\ r.open <= r.high /\ r.low >= 1
  BY <1>1 DEF InSession, Runtimes
<1>5. \A i \in 1 .. n + 1 : i \in 1 .. n \/ i = n + 1
  BY <1>1
<1>6. \A i \in 1 .. n + 1 : /\ q.history[i].t >= Opens(date)
                            /\ r.low <= q.history[i].price /\ q.history[i].price <= r.high
  <2> TAKE i \in 1 .. n + 1
  <2>1. CASE i \in 1 .. n
    BY <2>1, <1>3 DEF InSession
  <2>2. CASE i = n + 1
    BY <2>2, <1>3, <1>4
  <2> QED  BY <2>1, <2>2, <1>5
<1>7. \A i \in 1 .. n : q.history[i + 1].t - q.history[i].t >= SampleInterval
  <2> TAKE i \in 1 .. n
  <2>1. CASE i = n
    <3>1. h[n].t <= at /\ h[n].t \in Int
      <4>1. n \in 1 .. n /\ h[n].t <= at
        BY <1>1 DEF InSession
      <4> QED  BY <4>1, <1>3, SampleTypes
    <3>2. clock - at >= SampleInterval
      BY DEF SampleDue
    <3>3. q.history[n + 1].t = clock /\ q.history[n] = h[n]
      BY <1>1, <1>3
    <3>4. clock - h[n].t >= SampleInterval
      BY <3>1, <3>2, <1>1
    <3> QED  BY <2>1, <3>3, <3>4
  <2>2. CASE i # n
    <3>1. i \in 1 .. n - 1 /\ i \in 1 .. n /\ i + 1 \in 1 .. n
      BY <2>2, <1>1
    <3>2. h[i + 1].t - h[i].t >= SampleInterval
      BY <3>1 DEF InSession
    <3> QED  BY <3>1, <3>2, <1>3
  <2> QED  BY <2>1, <2>2
<1>8. /\ q.history[Len(q.history)].t <= clock /\ Len(q.history) >= 1
      /\ Len(q.history) = n + 1 /\ Len(q.history) - 1 = n
  BY <1>1, <1>3
<1> HIDE DEF q, h, sample, n
<1>9. \A i \in 1 .. Len(q.history) :
        /\ q.history[i].t >= Opens(date)
        /\ q.low <= q.history[i].price /\ q.history[i].price <= q.high
  BY <1>2, <1>6, <1>8
<1>10. \A i \in 1 .. Len(q.history) - 1 : q.history[i + 1].t - q.history[i].t >= SampleInterval
  BY <1>7, <1>8
<1>11. InSession(q, date, clock)
  BY <1>2, <1>4, <1>8, <1>9, <1>10 DEF InSession
<1> QED  BY <1>11 DEF q

(* A step moves the price, and the range of the day with it.               *)
LEMMA StepIs ==
  ASSUME NEW r, NEW date \in Int, NEW at, InSession(r, date, at), NEW moved \in Int, NEW id \in Int
  PROVE  InSession([Step(r, moved) EXCEPT !.id = id], date, at)
<1> DEFINE q    == [Step(r, moved) EXCEPT !.id = id]
           next == Max({1, r.price + moved})
           high == Max({r.high, next})
           low  == Min({r.low, next})
<1>1. /\ r \in Runtimes /\ r.history \in Seq(Samples) /\ Len(r.history) \in Nat
      /\ r.low \in Int /\ r.price \in Int /\ r.high \in Int /\ r.open \in Int
      /\ r.low <= r.price /\ r.price <= r.high /\ r.low <= r.open /\ r.open <= r.high /\ r.low >= 1
  BY DEF InSession, Runtimes
<1>2. next \in Int /\ 1 <= next
  <2>1. 1 \in Int /\ r.price + moved \in Int
    BY <1>1
  <2> QED  BY <2>1, MaxOfTwo, Zenon
<1>3. q = [open |-> r.open, price |-> next, high |-> high, low |-> low, id |-> id,
           history |-> r.history]
  <2>1. r = [open |-> r.open, price |-> r.price, high |-> r.high, low |-> r.low, id |-> r.id,
             history |-> r.history]
    BY <1>1 DEF Runtimes
  <2>2. Step(r, moved) = [open |-> r.open, price |-> next, high |-> high, low |-> low, id |-> r.id,
                          history |-> r.history]
    <3>1. Step(r, moved) = [[[r EXCEPT !.price = next] EXCEPT !.high = high] EXCEPT !.low = low]
      BY <2>1 DEF Step
    <3> HIDE DEF next, high, low
    <3> QED  BY <2>1, <3>1
  <2> HIDE DEF next, high, low
  <2> QED  BY <2>2
<1> HIDE DEF next
<1>4. high \in Int /\ r.high <= high /\ next <= high
  BY <1>1, <1>2, MaxOfTwo, Zenon
<1>5. low \in Int /\ low <= r.low /\ low <= next /\ (low = r.low \/ low = next)
  BY <1>1, <1>2, MinOfTwo, Zenon
<1> HIDE DEF high, low, q
<1>6. /\ q \in Runtimes /\ q.history = r.history /\ q.low = low /\ q.high = high
      /\ q.price = next /\ q.open = r.open
  BY <1>1, <1>2, <1>3, <1>4, <1>5 DEF Runtimes
<1>7. low <= next /\ next <= high /\ low <= r.open /\ r.open <= high /\ low >= 1
  BY <1>1, <1>2, <1>4, <1>5
<1>8. \A i \in 1 .. Len(r.history) :
        /\ r.history[i].t >= Opens(date)
        /\ low <= r.history[i].price /\ r.history[i].price <= high
  <2> TAKE i \in 1 .. Len(r.history)
  <2>1. r.history[i] \in Samples
    BY <1>1
  <2>2. /\ r.history[i].t >= Opens(date) /\ r.history[i].price \in Int
        /\ r.low <= r.history[i].price /\ r.history[i].price <= r.high
    BY <2>1, SampleTypes DEF InSession
  <2> QED  BY <2>2, <1>1, <1>4, <1>5
<1>9. InSession(q, date, at)
  BY <1>6, <1>7, <1>8 DEF InSession
<1> QED  BY <1>9 DEF q

TapeIs(day, state, at, tapes) ==
  /\ day \in Int /\ state \in {"open", "closed"}
  /\ at \in Int /\ at <= Closes(day) /\ (state = "open" => at <= clock)
  /\ DOMAIN tapes = Symbols /\ \A s \in Symbols : InSession(tapes[s], day, at)

TapeInv ==
  /\ EngineInv /\ generated \in Nat
  /\ \/ marketState = "none" /\ session = NoSession
     \/ TapeIs(session, marketState, lastSampleAt, runtime)

(* ensureSessionFor leaves the tape of the session shown.                  *)
LEMMA CaughtUpIs ==
  ASSUME TapeInv
  PROVE  LET ensured == CaughtUp(StatusAt[clock])
         IN  /\ ensured.session = StatusAt[clock].session /\ ensured.state = StatusAt[clock].state
             /\ ensured.engine <=> ensured.state = "open"
             /\ TapeIs(ensured.session, ensured.state, ensured.sampleAt, ensured.runtime)
<1> DEFINE shown   == StatusAt[clock]
           ensured == CaughtUp(shown)
           changed == shown.session # session \/ shown.state # marketState
           target  == IF Running(shown) THEN clock ELSE shown.closeAt
<1>1. /\ shown.state \in {"open", "closed"} /\ shown.session \in Int /\ clock \in Int
      /\ shown.openAt = Opens(shown.session) /\ shown.closeAt = Closes(shown.session)
      /\ shown.openAt \in Int /\ shown.closeAt \in Int
      /\ shown.openAt <= clock /\ shown.closeAt = shown.openAt + 9
      /\ shown.state = "open" => clock < shown.closeAt
  BY ShownAt, InstantsAreNat DEF TapeInv, EngineInv
<1> HIDE DEF shown
<1>2. /\ ensured.session = shown.session /\ ensured.state = shown.state
      /\ ensured.engine = (shown.state = "open")
      /\ ensured.sampleAt = IF changed THEN target ELSE lastSampleAt
      /\ ensured.runtime = IF changed
                           THEN [s \in Symbols |-> Backfilled(shown.openAt, target, shown.session)]
                           ELSE runtime
  BY DEF CaughtUp, Running
<1> HIDE DEF ensured
<1>3. CASE changed
  <2>1. /\ target \in Int /\ shown.openAt <= target /\ target <= shown.closeAt
        /\ shown.state = "open" => target <= clock
    <3>1. CASE shown.state = "open"
      <4>1. target = clock
        BY <3>1 DEF Running
      <4> QED  BY <4>1, <3>1, <1>1
    <3>2. CASE shown.state = "closed"
      <4>1. target = shown.closeAt
        BY <3>2 DEF Running
      <4> QED  BY <4>1, <3>2, <1>1
    <3> QED  BY <3>1, <3>2, <1>1
  <2> HIDE DEF target
  <2>2. ensured.sampleAt = target
        /\ ensured.runtime = [s \in Symbols |-> Backfilled(shown.openAt, target, shown.session)]
    BY <1>2, <1>3
  <2>3. InSession(Backfilled(shown.openAt, target, shown.session), shown.session, target)
    BY <1>1, <2>1, BackfilledIs
  <2>4. TapeIs(shown.session, shown.state, ensured.sampleAt, ensured.runtime)
    BY <1>1, <2>1, <2>2, <2>3 DEF TapeIs
  <2> QED  BY <1>2, <2>4 DEF ensured, shown
<1>4. CASE ~ changed
  <2>1. TapeIs(session, marketState, lastSampleAt, runtime) /\ shown.session = session /\ shown.state = marketState
    BY <1>1, <1>4 DEF TapeInv
  <2>2. TapeIs(shown.session, shown.state, ensured.sampleAt, ensured.runtime)
    BY <1>2, <1>4, <2>1
  <2> QED  BY <1>2, <2>2 DEF ensured, shown
<1> QED  BY <1>3, <1>4

(* A batch samples when an interval has passed, and moves one price.       *)
LEMMA BatchKeeps ==
  ASSUME TapeInv, BatchFires
  PROVE  generated' \in Nat /\ TapeIs(session, marketState, lastSampleAt, runtime)'
<1> DEFINE ensured == CaughtUp(StatusAt[clock])
           due     == SampleDue(ensured.sampleAt)
<1>1. GenerateBatch(ensured, due) /\ UNCHANGED clock
  BY DEF BatchFires
<1>2. /\ ensured.session = StatusAt[clock].session
      /\ ensured.engine <=> ensured.state = "open"
      /\ TapeIs(ensured.session, ensured.state, ensured.sampleAt, ensured.runtime)
  BY CaughtUpIs
<1>3. /\ StatusAt[clock].session \in Int /\ StatusAt[clock].openAt = Opens(StatusAt[clock].session)
      /\ StatusAt[clock].closeAt = Closes(StatusAt[clock].session)
      /\ StatusAt[clock].openAt \in Int /\ StatusAt[clock].closeAt \in Int
      /\ StatusAt[clock].openAt <= clock /\ clock \in Int
      /\ StatusAt[clock].state = "open" => clock < StatusAt[clock].closeAt
      /\ ensured.state = StatusAt[clock].state
  BY ShownAt, CaughtUpIs, InstantsAreNat DEF TapeInv, EngineInv
<1> HIDE DEF ensured
<1>4. /\ ensured.session \in Int /\ Opens(ensured.session) \in Int /\ Closes(ensured.session) \in Int
      /\ Opens(ensured.session) <= clock
      /\ ensured.state = "open" => clock < Closes(ensured.session)
  BY <1>2, <1>3
<1>5. generated \in Nat
  BY DEF TapeInv
<1>6. session' = ensured.session /\ marketState' = ensured.state
  BY <1>1 DEF GenerateBatch
<1>7. CASE ~ ensured.engine
  <2>1. runtime' = ensured.runtime /\ lastSampleAt' = ensured.sampleAt /\ generated' = generated
    BY <1>1, <1>7 DEF GenerateBatch, ticks
  <2> QED  BY <1>1, <1>2, <1>5, <1>6, <2>1 DEF TapeIs
<1>8. CASE ensured.engine
  <2> DEFINE before == [x \in Symbols |->
               IF due THEN Sampled(ensured.runtime[x]) ELSE ensured.runtime[x]]
             at == IF due THEN clock ELSE ensured.sampleAt
  <2>1. \/ /\ ~ ensured.engine
           /\ runtime' = ensured.runtime /\ lastSampleAt' = ensured.sampleAt
           /\ UNCHANGED ticks
        \/ /\ lastSampleAt' = at
           /\ \E s \in Symbols, moved \in -LiveSteps .. LiveSteps : GenerateOne(before, s, moved)
    BY <1>1 DEF GenerateBatch
  <2>2. PICK s \in Symbols, moved \in -LiveSteps .. LiveSteps : GenerateOne(before, s, moved)
    BY <1>8, <2>1
  <2>3. lastSampleAt' = at
    BY <1>8, <2>1
  <2>4. /\ runtime' = [before EXCEPT ![s] = [Step(before[s], moved) EXCEPT !.id = generated + 1]]
        /\ generated' = generated + 1
    BY <2>2 DEF GenerateOne
  <2>5. \A x \in Symbols : InSession(before[x], ensured.session, at)
    <3> TAKE x \in Symbols
    <3>1. InSession(ensured.runtime[x], ensured.session, ensured.sampleAt) /\ ensured.sampleAt \in Int
      BY <1>2 DEF TapeIs
    <3>2. CASE due
      BY <3>1, <3>2, <1>3, <1>4, SampledIs
    <3>3. CASE ~ due
      BY <3>1, <3>3
    <3> QED  BY <3>2, <3>3
  <2>6. at \in Int /\ at <= Closes(ensured.session) /\ at <= clock
    <3>1. ensured.sampleAt \in Int /\ ensured.sampleAt <= Closes(ensured.session) /\ ensured.sampleAt <= clock
      BY <1>2, <1>8 DEF TapeIs
    <3>2. CASE due
      BY <3>2, <1>2, <1>3, <1>4, <1>8
    <3>3. CASE ~ due
      BY <3>1, <3>3
    <3> QED  BY <3>2, <3>3
  <2>7. DOMAIN before = Symbols
    OBVIOUS
  <2> HIDE DEF before, at
  <2>8. \A x \in Symbols : InSession(runtime'[x], ensured.session, at)
    <3> TAKE x \in Symbols
    <3>1. CASE x = s
      <4>1. runtime'[x] = [Step(before[s], moved) EXCEPT !.id = generated + 1]
        BY <3>1, <2>4, <2>7
      <4>2. moved \in Int /\ generated + 1 \in Int
        BY <1>5
      <4> QED  BY <4>1, <4>2, <1>4, <2>5, StepIs
    <3>2. CASE x # s
      BY <3>2, <2>4, <2>5, <2>7
    <3> QED  BY <3>1, <3>2
  <2>9. DOMAIN runtime' = Symbols /\ generated' \in Nat
    BY <2>4, <2>7, <1>5
  <2>10. ensured.state \in {"open", "closed"}
    BY <1>2 DEF TapeIs
  <2> QED  BY <1>1, <1>4, <1>6, <2>3, <2>6, <2>8, <2>9, <2>10 DEF TapeIs
<1> QED  BY <1>7, <1>8

(* Every step of the source keeps its tapes inside their sessions.         *)
LEMMA TapeKeeps ==
  ASSUME TapeInv, [SimNext]_simVars
  PROVE  TapeInv'
<1>1. EngineInv'
  BY EngineKeeps DEF TapeInv
<1>2. ASSUME EnsureSession, UNCHANGED <<clock, generated>>
      PROVE  TapeInv'
  <2>1. TapeIs(session', marketState', lastSampleAt', runtime')
    BY <1>2, CaughtUpIs DEF EnsureSession, Becomes
  <2> QED  BY <1>1, <1>2, <2>1 DEF TapeInv, TapeIs
<1>3. ASSUME Establish PROVE TapeInv'
  BY <1>2, <1>3 DEF Establish, ticks
<1>4. ASSUME UNCHANGED <<session, marketState, lastSampleAt, runtime, generated>>,
             clock' \in Int, clock' >= clock
      PROVE  TapeInv'
  <2>1. clock \in Int
    BY InstantsAreNat DEF TapeInv, EngineInv
  <2>2. \A at \in Int : at <= clock => at <= clock'
    BY <1>4, <2>1
  <2>3. TapeIs(session, marketState, lastSampleAt, runtime) =>
          TapeIs(session, marketState, lastSampleAt, runtime)'
    BY <1>4, <2>2 DEF TapeIs
  <2> QED  BY <1>1, <1>4, <2>3 DEF TapeInv
<1>5. clock \in Int /\ clock >= clock
  BY InstantsAreNat DEF TapeInv, EngineInv
<1>6. CASE MarketClockFires \/ GetHistory
  BY <1>2, <1>6 DEF MarketClockFires, GetHistory, ticks
<1>7. CASE BatchFires
  BY <1>1, <1>7, BatchKeeps DEF TapeInv
<1>8. CASE DropTimerFires
  BY <1>3, <1>4, <1>5, <1>8 DEF DropTimerFires, tape, ticks
<1>9. CASE TimePasses
  <2>1. clock' \in Int /\ clock' >= clock
    <3>1. clock' \in Instants /\ clock' > clock
      BY <1>9, ClockMoves DEF TapeInv, EngineInv
    <3> QED  BY <3>1, <1>5, InstantsAreNat
  <2> QED  BY <1>4, <1>9, <2>1 DEF TimePasses, tape, ticks
<1>10. CASE \E s \in Symbols \cup {Unlisted} : GetSnapshot(s) \/ Subscribe({s}) \/ Unsubscribe({s})
  BY <1>4, <1>5, <1>10 DEF GetSnapshot, Subscribe, Unsubscribe, tape, ticks
<1>11. CASE \E u \in Users : SimulateEntitlementChange(u)
  BY <1>4, <1>5, <1>11 DEF SimulateEntitlementChange, tape, ticks
<1>12. CASE \E recoverable \in BOOLEAN : SimulateDrop(recoverable)
  BY <1>4, <1>5, <1>12 DEF SimulateDrop, ticks
<1>13. CASE DrainMacrotask
  BY <1>4, <1>5, <1>13 DEF DrainMacrotask, tape, ticks
<1>14. CASE UNCHANGED simVars
  BY <1>4, <1>5, <1>14 DEF simVars, tape, ticks
<1> QED
  BY <1>3, <1>6, <1>7, <1>8, <1>9, <1>10, <1>11, <1>12, <1>13, <1>14 DEF SimNext, Connect, Reconnect

(* What the chart of a session is given.                                   *)
LEMMA TapeReads ==
  ASSUME TapeInv
  PROVE  HistoryIsASession
<1> SUFFICES ASSUME session # NoSession, NEW s \in Symbols
             PROVE  LET r == runtime[s]
                        h == r.history
                        points == HistoryPoints(s)
                        shown == StatusAt[clock]
                    IN  /\ r.price \in r.low .. r.high /\ r.open \in r.low .. r.high /\ r.low >= 1
                        /\ \A i \in 1 .. Len(h) : /\ h[i].t >= SessionOf(session).openAt
                                                   /\ h[i].price \in r.low .. r.high
                        /\ \A i \in 1 .. Len(h) - 1 : h[i + 1].t - h[i].t >= SampleInterval
                        /\ shown.session = session /\ shown.state = marketState =>
                             /\ Last(points).t <= shown.closeAt
                             /\ shown.state = "open" => Last(points).t = clock
  BY DEF HistoryIsASession
<1> DEFINE r == runtime[s]
           h == r.history
           points == HistoryPoints(s)
           shown == StatusAt[clock]
<1>1. /\ TapeIs(session, marketState, lastSampleAt, runtime)
      /\ clock \in Instants /\ clock \in Int
  BY InstantsAreNat DEF TapeInv, EngineInv
<1>2. /\ r \in Runtimes /\ h \in Seq(Samples) /\ Len(h) \in Nat /\ Len(h) >= 1
      /\ r.low \in Int /\ r.price \in Int /\ r.high \in Int /\ r.open \in Int
      /\ r.low <= r.price /\ r.price <= r.high /\ r.low <= r.open /\ r.open <= r.high /\ r.low >= 1
  BY <1>1 DEF TapeIs, InSession, Runtimes
<1>3. session \in Int /\ lastSampleAt \in Int /\ InSession(r, session, lastSampleAt)
  BY <1>1 DEF TapeIs
<1>4. SessionOf(session).openAt = Opens(session)
  BY <1>3, SessionIs
<1>5. \A i \in 1 .. Len(h) : h[i].price \in Int /\ h[i].t \in Int
  <2>1. \A i \in 1 .. Len(h) : h[i] \in Samples
    BY <1>2
  <2> QED  BY <2>1, SampleTypes
<1> HIDE DEF r
<1>6. r.price \in r.low .. r.high /\ r.open \in r.low .. r.high /\ r.low >= 1
  BY <1>2
<1>7. \A i \in 1 .. Len(h) : h[i].t >= SessionOf(session).openAt /\ h[i].price \in r.low .. r.high
  BY <1>2, <1>3, <1>4, <1>5 DEF InSession
<1>8. \A i \in 1 .. Len(h) - 1 : h[i + 1].t - h[i].t >= SampleInterval
  BY <1>3 DEF InSession
<1>9. ASSUME shown.session = session, shown.state = marketState
      PROVE  Last(points).t <= shown.closeAt /\ (shown.state = "open" => Last(points).t = clock)
  <2>1. /\ shown.closeAt = Closes(shown.session) /\ shown.closeAt \in Int
        /\ shown.state = "open" => clock < shown.closeAt
    BY <1>1, ShownAt
  <2>2. h[Len(h)].t <= lastSampleAt /\ h[Len(h)].t \in Int /\ h # <<>>
    <3>1. Len(h) \in 1 .. Len(h)
      BY <1>2
    <3> QED  BY <3>1, <1>2, <1>3, <1>5 DEF InSession
  <2>3. lastSampleAt <= shown.closeAt /\ (shown.state = "open" => lastSampleAt <= clock)
    BY <1>1, <1>9, <2>1 DEF TapeIs
  <2>4. h[Len(h)].t <= shown.closeAt
    BY <2>1, <2>2, <2>3, <1>3
  <2>5. CASE shown.state # "open"
    <3>1. points = h
      BY <2>5 DEF HistoryPoints, r
    <3> QED  BY <2>4, <2>5, <3>1 DEF Last
  <2>6. CASE shown.state = "open" /\ h[Len(h)].t < clock
    <3>1. points = Append(h, [t |-> clock, price |-> r.price])
      BY <2>6 DEF HistoryPoints, r, Last
    <3>2. points[Len(points)] = [t |-> clock, price |-> r.price]
      BY <3>1, <1>2
    <3>3. Last(points).t = clock
      BY <3>2 DEF Last
    <3> QED  BY <3>3, <2>1, <2>6, <1>1
  <2>7. CASE shown.state = "open" /\ ~ (h[Len(h)].t < clock)
    <3>1. points = h
      BY <2>2, <2>7 DEF HistoryPoints, r, Last
    <3>2. h[Len(h)].t = clock
      BY <1>1, <1>3, <2>2, <2>3, <2>7
    <3> QED  BY <3>1, <3>2, <2>4 DEF Last
  <2> QED  BY <2>5, <2>6, <2>7
<1> QED  BY <1>6, <1>7, <1>8, <1>9 DEF r

(* The history of a symbol is one session's, its samples in order and an interval apart
   across the seam of backfill and live samples, and the price stays inside the day's range
   (SimulatedSource.ts computeBackfilledSession, sampleHistory, generateOne, getHistory). *)
THEOREM HistoryStaysASession == SimSpec => []HistoryIsASession
<1>1. SimInit => TapeInv
  <2> SUFFICES ASSUME SimInit PROVE TapeInv
    OBVIOUS
  <2>1. EngineInv
    BY ClockBegins DEF SimInit, EngineInv
  <2>2. generated \in Nat /\ marketState = "none" /\ session = NoSession
    BY DEF SimInit
  <2> QED  BY <2>1, <2>2 DEF TapeInv
<1>2. TapeInv /\ [SimNext]_simVars => TapeInv'
  BY TapeKeeps
<1>3. TapeInv => HistoryIsASession
  BY TapeReads
<1> QED  BY <1>1, <1>2, <1>3, PTL DEF SimSpec

=============================================================================
