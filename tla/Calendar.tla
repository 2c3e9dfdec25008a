------------------------------ MODULE Calendar ------------------------------
(***************************************************************************)
(* time.go, called at every moment of a walk through the calendar.  A      *)
(* moment is a date and a part of that day: Midnight, Noon, LastSecond     *)
(* (23:59:59 sharp) or LastNano, less than a second later.  time.Date,     *)
(* AddDate and Sub are Go's (external): dates out of range are carried     *)
(* over, and hours are counted between instants, so a day on which the     *)
(* clocks of the location go forward has 23 of them.                       *)
(***************************************************************************)
EXTENDS Integers, Sequences, FiniteSets

CONSTANTS From, To,       \* the first and the last day of the walk
          Forward, Back   \* the days on which the clocks change by an hour

Midnight == 0
Noon == 1
LastSecond == 2
LastNano == 3

Leap(y) == y % 4 = 0 /\ (y % 100 # 0 \/ y % 400 = 0)
DaysIn(y, m) ==
    IF m = 2 THEN (IF Leap(y) THEN 29 ELSE 28) ELSE IF m \in {4, 6, 9, 11} THEN 30 ELSE 31

\* The walk begins on a day of the calendar, and the clocks do not go back by a day
\* within a month.
ASSUME CalendarAssumption ==
    /\ From.y \in Nat /\ From.m \in 1 .. 12 /\ From.d \in 1 .. DaysIn(From.y, From.m)
    /\ IsFiniteSet(Forward) /\ IsFiniteSet(Back)
    /\ \A day \in Back : Cardinality({e \in Back : e.y = day.y /\ e.m = day.m}) < 24

VARIABLE now
-----------------------------------------------------------------------------
\* time.Date: first the month is carried over into the year, then the day into the
\* month, by one month at most here.
Date(year, month, d, part) ==
    LET Y(k) == year + ((month + k - 1) \div 12)
        M(k) == ((month + k - 1) % 12) + 1
        Carried(k, day) == [y |-> Y(k), m |-> M(k), d |-> day, part |-> part]
    IN  IF d < 1 THEN Carried(-1, d + DaysIn(Y(-1), M(-1)))
        ELSE IF d > DaysIn(Y(0), M(0)) THEN Carried(1, d - DaysIn(Y(0), M(0)))
        ELSE Carried(0, d)

\* Sub: the hours from the first of a month to the first of the next.
HoursOfMonth(y, m) ==
    LET Changes(days) == Cardinality({day \in days : day.y = y /\ day.m = m})
    IN  24 * DaysIn(y, m) - Changes(Forward) + Changes(Back)

Before(s, t) ==
    \/ s.y < t.y
    \/ s.y = t.y /\ s.m < t.m
    \/ s.y = t.y /\ s.m = t.m /\ s.d < t.d
    \/ s.y = t.y /\ s.m = t.m /\ s.d = t.d /\ s.part < t.part
-----------------------------------------------------------------------------
BeginOfDay(t) == Date(t.y, t.m, t.d, Midnight)
EndOfDay(t) == Date(t.y, t.m, t.d, LastNano)
BeginOfMonth(t) == Date(t.y, t.m, 1, Midnight)

\* Mutant: the 31st of every month.
EndOfLongMonth(t) == Date(t.y, t.m, 31, LastSecond)

\* EndOfMonth: the day before the first of the next month.
EndOfMonth(t) ==
    LET nextStart == Date(t.y, t.m + 1, 1, Midnight)
    IN  Date(nextStart.y, nextStart.m, nextStart.d - 1, LastSecond)

BeginOfYear(t) == Date(t.y, 1, 1, Midnight)
EndOfYear(t) == Date(t.y, 12, 31, LastNano)

\* Mutant: the year stays.
LastMonthSameYear(t) == Date(t.y, ((t.m - 2) % 12) + 1, t.d, t.part)

\* AddDate(0, -1, 0).
LastMonthNow(t) == Date(t.y, t.m - 1, t.d, t.part)
LastMonthFirstDay(t) == BeginOfMonth(LastMonthNow(t))
LastMonthLastDay(t) == EndOfMonth(LastMonthNow(t))

\* Mutant: the hours of the month before, for t.Month() taken from 0.
DaysOfMonthBefore(t) == LET s == Date(t.y, t.m - 1, 1, Midnight) IN HoursOfMonth(s.y, s.m) \div 24

DaysOfMonth(t) == HoursOfMonth(t.y, t.m) \div 24
ThisMonthRemainDays(t) == DaysOfMonth(t) - t.d
-----------------------------------------------------------------------------
\* strconv.Itoa and Atoi, of digits.
Itoa(n) ==
    LET digits[k \in 0 .. n] == IF k < 10 THEN <<k>> ELSE Append(digits[k \div 10], k % 10)
    IN  digits[n]
Atoi(digits) ==
    LET read[i \in 0 .. Len(digits)] == IF i = 0 THEN 0 ELSE (10 * read[i - 1]) + digits[i]
    IN  read[Len(digits)]

\* Mutant: the number as it is.
PadNothing(num, fixLen, char) == Itoa(num)

\* PadLeftInt, with one digit as the character.
PadLeftInt(num, fixLen, char) ==
    LET val == Itoa(num) IN [i \in 1 .. fixLen - Len(val) |-> char] \o val

TimeToYYYYMMDD(t) == Itoa(t.y) \o PadLeftInt(t.m, 2, 0) \o PadLeftInt(t.d, 2, 0)
TimeToYYYYMMDDInt(t) == Atoi(TimeToYYYYMMDD(t))
-----------------------------------------------------------------------------
CalendarInit == now = BeginOfDay(From)

\* Time goes on, to the next part of the day or to the next day.
Tick ==
    /\ Before(now, EndOfDay(To))
    /\ now' = IF now.part = LastNano THEN Date(now.y, now.m, now.d + 1, Midnight)
              ELSE [now EXCEPT !.part = @ + 1]

CalendarSpec == CalendarInit /\ [][Tick]_now
-----------------------------------------------------------------------------
Within(t, begin, end) == ~Before(t, begin) /\ ~Before(end, t)
FollowedBy(end, begin) == Date(end.y, end.m, end.d + 1, Midnight) = begin

\* Now is a moment of a day that the calendar has.
CalendarInv ==
    /\ now \in [y : Nat, m : 1 .. 12, d : 1 .. 31, part : Midnight .. LastNano]
    /\ now.d <= DaysIn(now.y, now.m)

\* Every moment lies between the begin and the end that BeginOfDay to EndOfYear give for
\* it, except that EndOfMonth ends before the last second of the month is over; and
\* EndOfMonth is followed by the first of the next month.
PeriodsCover ==
    /\ Within(now, BeginOfDay(now), EndOfDay(now))
    /\ Within(now, BeginOfYear(now), EndOfYear(now))
    /\ ~Before(now, BeginOfMonth(now))
    /\ now.part # LastNano => ~Before(EndOfMonth(now), now)
    /\ FollowedBy(EndOfMonth(now), Date(now.y, now.m + 1, 1, Midnight))

\* ThisMonthRemainDays is the distance to the day that EndOfMonth names, in months in
\* which the clocks do not go forward.
RemainDaysLead ==
    (\A day \in Forward : <<day.y, day.m>> # <<now.y, now.m>>) =>
        ThisMonthRemainDays(now) = EndOfMonth(now).d - now.d

\* LastMonthFirstDay and LastMonthLastDay bracket the month before this one, on days
\* that the month before has, too.
LastMonthPrecedes ==
    now.d <= LastMonthLastDay(BeginOfMonth(now)).d =>
        /\ FollowedBy(LastMonthLastDay(now), BeginOfMonth(now))
        /\ LastMonthFirstDay(now).d = 1 /\ Before(LastMonthFirstDay(now), LastMonthLastDay(now))

\* time.go:22 calls LastMonthFirstDay the first day of the last month ("上个月第一天"); on
\* the 31st of March AddDate gives a day of March.
LastMonthAlways == Before(LastMonthFirstDay(now), BeginOfMonth(now))

\* time.go:40 says that DaysOfMonth counts the days of a month ("计算一个月的天数"); where
\* the clocks go forward the month is an hour short, and a day is dropped.
RemainDaysAlways == ThisMonthRemainDays(now) >= 0

\* The integers of TimeToYYYYMMDDInt order moments as time does: later days have larger
\* ones, over the ends of months and years.
DateIntIncreases ==
    [][IF now'.d = now.d THEN TimeToYYYYMMDDInt(now') = TimeToYYYYMMDDInt(now)
       ELSE TimeToYYYYMMDDInt(now') > TimeToYYYYMMDDInt(now)]_now
=============================================================================
