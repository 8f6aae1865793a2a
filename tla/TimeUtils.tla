------------------------------- MODULE TimeUtils -------------------------------
(***************************************************************************)
(* Calendar and timespec arithmetic (src/time_utils.cc and                 *)
(* src/features/time_c_inl.h).  The state is the argument of the functions:*)
(* a day, which walks through the calendar, and a number of milliseconds.  *)
(***************************************************************************)
EXTENDS Integers

CONSTANTS
  MS_PER_SEC,  \* 1000 in the code
  NS_PER_MS,   \* 1000000 in the code
  Hours, Minutes, Seconds,  \* of a day, hour and minute: 24, 60 and 60
  LastYear,    \* bound: of the walk
  MsBefore     \* the milliseconds before 0 at which it starts

TimeUtilsAssumption ==
  /\ {MS_PER_SEC, NS_PER_MS, Hours, Minutes, Seconds} \subseteq Nat \ {0}
  /\ LastYear \in Nat
  /\ MsBefore \in Nat

NS_PER_SEC == MS_PER_SEC * NS_PER_MS

VARIABLES
  tm,    \* a struct tm at midnight, with tm_year counted from 0
  days,  \* since 1970-01-01
  ms

vars == <<tm, days, ms>>

\* Division in C rounds towards zero.
Sign(x) == IF x < 0 THEN -1 ELSE 1
Quotient(a, b) == Sign(a) * ((Sign(a) * a) \div b)
Remainder(a, b) == a - b * Quotient(a, b)

-----------------------------------------------------------------------------
(* TmToTime.                                                               *)

mdays == <<31, 28, 31, 30, 31, 30, 31, 31, 30, 31, 30, 31>>
cumul_mdays == <<0, 31, 59, 90, 120, 151, 181, 212, 243, 273, 304, 334>>

InLeapYear(year) == year % 4 = 0 /\ (year % 100 # 0 \/ year % 400 = 0)
One(condition) == IF condition THEN 1 ELSE 0

\* Mutant: the years that 400 divides are forgotten.
LeapDaysJulian(year) ==
  (year \div 4 - 1970 \div 4) - (year \div 100 - 1970 \div 100)

\* Between 1970 and the year, inclusive.
LeapDays(year) ==
  (year \div 4 - 1970 \div 4) - (year \div 100 - 1970 \div 100)
  + (year \div 400 - 1970 \div 400)

\* Months count from 0, days from 1.
Accepts(t) ==
  /\ t.year >= 1970
  /\ t.mon \in 0..11
  /\ t.mday - 1 \in 0..(mdays[t.mon + 1] + One(InLeapYear(t.year) /\ t.mon = 1)
                        - 1)
  /\ t.hour \in 0..(Hours - 1)
  /\ t.min \in 0..(Minutes - 1)
  /\ t.sec \in 0..(Seconds - 1)

TmToTime(t) ==
  LET day == (t.mday - 1) + cumul_mdays[t.mon + 1] + LeapDays(t.year)
             - One(InLeapYear(t.year) /\ t.mon <= 1)
      hour == ((t.year - 1970) * 365 + day) * Hours + t.hour
      second == (hour * Minutes + t.min) * Seconds + t.sec
  IN IF Accepts(t) THEN second * MS_PER_SEC ELSE -1

-----------------------------------------------------------------------------
(* timespec.                                                               *)

timespec_normalize(ts) ==
  IF ts.tv_nsec >= NS_PER_SEC
  THEN [tv_sec |-> ts.tv_sec + ts.tv_nsec \div NS_PER_SEC,
        tv_nsec |-> ts.tv_nsec % NS_PER_SEC]
  ELSE ts

timespec_from_millisec(m) ==
  timespec_normalize([tv_sec |-> Quotient(m, MS_PER_SEC),
                      tv_nsec |-> Remainder(m, MS_PER_SEC) * NS_PER_MS])

timespec_to_millisec(ts) ==
  ts.tv_sec * MS_PER_SEC + Quotient(ts.tv_nsec, NS_PER_MS)

TimespecAfter(ts, elapsed) ==
  timespec_normalize([tv_sec |-> ts.tv_sec + elapsed.tv_sec,
                      tv_nsec |-> ts.tv_nsec + elapsed.tv_nsec])

-----------------------------------------------------------------------------
(* The walk, by the Gregorian calendar.                                    *)

Midnight(year, mon, mday) ==
  [year |-> year, mon |-> mon, mday |-> mday, hour |-> 0, min |-> 0, sec |-> 0]

MonthLength(year, mon) ==
  IF mon = 1 THEN IF InLeapYear(year) THEN 29 ELSE 28
  ELSE IF mon \in {3, 5, 8, 10} THEN 30 ELSE 31

Tomorrow(t) ==
  IF t.mday < MonthLength(t.year, t.mon)
  THEN Midnight(t.year, t.mon, t.mday + 1)
  ELSE IF t.mon < 11 THEN Midnight(t.year, t.mon + 1, 1)
  ELSE Midnight(t.year + 1, 0, 1)

Init == tm = Midnight(1970, 0, 1) /\ days = 0 /\ ms = -MsBefore

NextDay ==
  /\ tm.year <= LastYear
  /\ tm' = Tomorrow(tm)
  /\ days' = days + 1
  /\ ms' = ms + 1

Spec == Init /\ [][NextDay]_vars

-----------------------------------------------------------------------------
(* Properties.                                                             *)

Normal(ts) == ts.tv_nsec \in 0..(NS_PER_SEC - 1)

\* The closed form of the leap days agrees with the calendar for every second
\* of every day of the walk, and what is no date or time is refused
\* (time_utils.cc:86-117).  The answer is in milliseconds (time_utils.cc:117):
\* time_utils.h:114-117 promises seconds, and is wrong by MS_PER_SEC.
CountsDays ==
  /\ \A h \in 0..(Hours - 1), m \in 0..(Minutes - 1), s \in 0..(Seconds - 1) :
       TmToTime([tm EXCEPT !.hour = h, !.min = m, !.sec = s])
         = (((days * Hours + h) * Minutes + m) * Seconds + s) * MS_PER_SEC
  /\ LET end == MonthLength(tm.year, tm.mon)
     IN \A t \in {[tm EXCEPT !.mday = 0], [tm EXCEPT !.mday = end + 1],
                  [tm EXCEPT !.mon = -1], [tm EXCEPT !.mon = 12],
                  [tm EXCEPT !.hour = Hours], [tm EXCEPT !.min = Minutes],
                  [tm EXCEPT !.sec = Seconds], [tm EXCEPT !.year = 1969]} :
          TmToTime(t) = -1

\* Milliseconds survive the way to a timespec and back, those of a time that
\* has passed as well, and the sum of two instants is normal and exact
\* (time_c_inl.h:5-26, time_utils.cc:128-132).
KeepsMilliseconds ==
  LET ts == timespec_from_millisec(ms)
  IN /\ timespec_to_millisec(ts) = ms
     /\ ms >= 0 => Normal(ts)
     /\ ms >= 0 => \A e \in 0..(2 * MS_PER_SEC) :
          LET sum == TimespecAfter(ts, timespec_from_millisec(e))
          IN Normal(sum) /\ timespec_to_millisec(sum) = ms + e

TimesAgree == CountsDays /\ KeepsMilliseconds

===============================================================================
