------------------------------ MODULE Calendar ------------------------------
(***************************************************************************)
(* Dates without a time-zone database: the time tag of IEC 104             *)
(* (iec104/time.rs) and Central European time (planning/localtime.rs),     *)
(* walked along day by day beside a wall calendar that only knows how long *)
(* a month is.  A time is a day since 1970-01-01, UTC, and a minute or     *)
(* millisecond of it.                                                      *)
(***************************************************************************)
EXTENDS Integers

CONSTANTS
  NewYears,  \* where walks start: [day, year, weekday] of a 1 January
  Years      \* how long they are

ASSUME CalendarAssumption ==
  NewYears \subseteq [day : Nat, year : 1970 .. 2099, weekday : 0 .. 6] /\ Years \in Nat

VARIABLES
  today,  \* days since the epoch
  wall,   \* what a calendar on the wall shows
  until   \* the year the walk ends

calvars == <<today, wall, until>>

MsOfDay == 86400000
MinutesOfDay == 1440

-----------------------------------------------------------------------------
\* The algorithms.

CivilFromDays(days) ==
  LET z == days + 719468
      era == z \div 146097
      doe == z % 146097
      yoe == (doe - doe \div 1460 + doe \div 36524 - doe \div 146096) \div 365
      doy == doe - (365 * yoe + yoe \div 4 - yoe \div 100)
      mp == (5 * doy + 2) \div 153
      m == IF mp < 10 THEN mp + 3 ELSE mp - 9
  IN  [year |-> yoe + era * 400 + (IF m <= 2 THEN 1 ELSE 0),
       month |-> m,
       day |-> doy - (153 * mp + 2) \div 5 + 1]

\* Mutant: the leap day of a fourth year is not taken off.
DaysFromCivilNoLeap(y0, m, d) ==
  LET y == IF m <= 2 THEN y0 - 1 ELSE y0
      yoe == y % 400
      doy == (153 * (IF m > 2 THEN m - 3 ELSE m + 9) + 2) \div 5 + d - 1
  IN  (y \div 400) * 146097 + yoe * 365 + yoe \div 4 + doy - 719468

DaysFromCivil(y0, m, d) ==
  LET y == IF m <= 2 THEN y0 - 1 ELSE y0
      yoe == y % 400
      doy == (153 * (IF m > 2 THEN m - 3 ELSE m + 9) + 2) \div 5 + d - 1
  IN  (y \div 400) * 146097 + yoe * 365 + yoe \div 4 - yoe \div 100 + doy - 719468

\* 0 is Monday.
Weekday(days) == (days + 3) % 7

\* The tag of a time, with the two digits of the year that are sent.
FromUnix(days, ms) ==
  LET c == CivilFromDays(days)
      since == c.year - 2000
  IN  [millisecond |-> ms % 60000, minute |-> (ms \div 60000) % 60,
       hour |-> ms \div 3600000, day |-> c.day, weekday |-> Weekday(days) + 1,
       month |-> c.month,
       year |-> IF since < 0 THEN 0 ELSE IF since > 99 THEN 99 ELSE since]

\* The time of a tag: its day, and the millisecond of the day.
ToUnix(tag) ==
  [days |-> DaysFromCivil(2000 + tag.year, tag.month, tag.day),
   ms |-> tag.hour * 3600000 + tag.minute * 60000 + tag.millisecond]

\* Mutant: the Sunday is looked for in the week after the 24th.
LastSundayFrom24(year, month) ==
  LET d31 == DaysFromCivil(year, month, 31)
  IN  d31 - ((Weekday(d31) + 1) % 7) - (IF Weekday(d31) = 6 THEN 7 ELSE 0)

LastSunday(year, month) ==
  LET d31 == DaysFromCivil(year, month, 31) IN d31 - ((Weekday(d31) + 1) % 7)

\* Minutes that Central European time is ahead.
CetOffset(days, minute) ==
  LET year == CivilFromDays(days).year
      now == days * MinutesOfDay + minute
      switch(month) == LastSunday(year, month) * MinutesOfDay + 60
  IN  IF switch(3) <= now /\ now < switch(10) THEN 120 ELSE 60

LocalMinuteOfDay(days, minute) == (minute + CetOffset(days, minute)) % MinutesOfDay

LocalCivil(days, minute) ==
  CivilFromDays(days + (minute + CetOffset(days, minute)) \div MinutesOfDay)

BillingPeriod(billing, days, minute) ==
  LET c == LocalCivil(days, minute)
  IN  IF billing = "month" THEN c.year * 12 + c.month - 1 ELSE c.year

-----------------------------------------------------------------------------
\* The calendar on the wall (external).

IsLeap(y) == y % 4 = 0 /\ (y % 100 # 0 \/ y % 400 = 0)

LengthOf(y, m) ==
  CASE m \in {4, 6, 9, 11} -> 30
    [] m = 2 -> IF IsLeap(y) THEN 29 ELSE 28
    [] OTHER -> 31

CalInit ==
  \E start \in NewYears :
    /\ today = start.day
    /\ wall = [year |-> start.year, month |-> 1, day |-> 1, weekday |-> start.weekday]
    /\ until \in {start.year, start.year + Years}

Midnight ==
  /\ wall.year < until
  /\ today' = today + 1
  /\ UNCHANGED until
  /\ LET w == (wall.weekday + 1) % 7
     IN  wall' =
           CASE wall.day < LengthOf(wall.year, wall.month) ->
                  [wall EXCEPT !.day = @ + 1, !.weekday = w]
             [] wall.day = LengthOf(wall.year, wall.month) /\ wall.month < 12 ->
                  [wall EXCEPT !.day = 1, !.month = @ + 1, !.weekday = w]
             [] OTHER -> [year |-> wall.year + 1, month |-> 1, day |-> 1, weekday |-> w]

LastDay == wall.year = until /\ UNCHANGED calvars

CalNext == Midnight \/ LastDay

-----------------------------------------------------------------------------
\* Properties.

\* The algorithms name the days as the wall does, through leap years and
\* centuries, and find them again; a time tag comes back as the time it was
\* made of, to the millisecond.
DatesAreRight ==
  /\ CivilFromDays(today)
       = [year |-> wall.year, month |-> wall.month, day |-> wall.day]
  /\ DaysFromCivil(wall.year, wall.month, wall.day) = today
  /\ Weekday(today) = wall.weekday
  /\ \A ms \in {0, 59999, 60000, 3599999, 45912345, MsOfDay - 1} :
       wall.year \in 2000 .. 2099 => ToUnix(FromUnix(today, ms)) = [days |-> today, ms |-> ms]

\* Summer time by the wall: from the last Sunday of March to the last of
\* October, at one o'clock UTC.  The local clock runs on but for the hour it
\* leaves out and the one it repeats, and a billing period begins with the
\* local day.
LocalTimeIsRight ==
  LET sunday == wall.weekday = 6 /\ wall.day > 31 - 7
      past == wall.day + (6 - wall.weekday) > 31
      summer(minute) ==
        \/ wall.month \in 4 .. 9
        \/ wall.month = 3 /\ (past \/ (sunday /\ minute >= 60))
        \/ wall.month = 10 /\ ~past /\ ~(sunday /\ minute >= 60)
      period(minute) == BillingPeriod("month", today, minute)
  IN  /\ \A minute \in {0, 59, 60, 119, 720, MinutesOfDay - 1} :
           CetOffset(today, minute) = IF summer(minute) THEN 120 ELSE 60
      /\ \A minute \in {59, 60, 1319, 1320, 1379, 1380} :
           \/ LocalMinuteOfDay(today, minute) = (LocalMinuteOfDay(today, minute - 1) + 1) % MinutesOfDay
           \/ sunday /\ wall.month = 3 /\ minute = 60 /\ LocalMinuteOfDay(today, minute) = 180
           \/ sunday /\ wall.month = 10 /\ minute = 60 /\ LocalMinuteOfDay(today, minute) = 120
      /\ \A minute \in 1 .. MinutesOfDay - 1 :
           minute % 60 = 0 /\ period(minute) # period(minute - 1)
             => LocalMinuteOfDay(today, minute) = 0 /\ LocalCivil(today, minute).day = 1

\* Every date, tag, switch to summer time and billing period is the wall's.
\* (Looked at while the walk goes on.)
CalendarIsRight == wall.year < until => DatesAreRight /\ LocalTimeIsRight
=============================================================================
