------------------------------ MODULE Calendar ------------------------------
(***************************************************************************)
(* muduo/base/Date.cc and TimeZone.cc: days as Julian day numbers, seconds *)
(* as the fields of a struct tm, and local time by the transitions of a    *)
(* time zone.                                                              *)
(*                                                                         *)
(* The calendar is walked through day by day beside a reference date; the  *)
(* zones are small ones, in which an hour is the unit of time, and a day   *)
(* has kHoursPerDay of them.                                               *)
(***************************************************************************)
EXTENDS Integers, Sequences, FiniteSets, SequencesExt, FiniteSetsExt

CONSTANTS Years,           \* walked through, 1900 and later
          Zones,           \* time zones, as readTimeZoneFile() leaves them
          Hours,           \* the times that are converted, in hours
          kHoursPerDay

VARIABLES part,            \* "days" or "zones"
          day,             \* the Julian day number
          ymd, wday, yday, \* the reference: the date, the day of the week and of the year
          zone, time       \* the zone, and the time to convert in it

vars == <<part, day, ymd, wday, yday, zone, time>>

-----------------------------------------------------------------------------
(* Date.cc; the numbers are positive, and division truncates. *)

getJulianDayNumber(year, month, d) ==
  LET a == (14 - month) \div 12
      y == year + 4800 - a
      m == month + 12 * a - 3
  IN d + (153 * m + 2) \div 5 + y * 365 + y \div 4 - y \div 100 + y \div 400 - 32045

getYearMonthDay(julianDayNumber) ==
  LET a == julianDayNumber + 32044
      b == (4 * a + 3) \div 146097
      c == a - (b * 146097) \div 4
      d == (4 * c + 3) \div 1461
      e == c - (1461 * d) \div 4
      m == (5 * e + 2) \div 153
  IN [year |-> b * 100 + d - 4800 + m \div 10,
      month |-> m + 3 - 12 * (m \div 10),
      day |-> e - (153 * m + 2) \div 5 + 1]

weekDay(julianDayNumber) == (julianDayNumber + 1) % 7

kJulianDayOf1970_01_01 == getJulianDayNumber(1970, 1, 1)

-----------------------------------------------------------------------------
(* TimeZone::toUtcTime() and fromUtcTime() *)

kSecondsPerDay == 24 * 60 * 60

\* C++ division: towards zero.
Quot(i, n) == IF i < 0 /\ i % n # 0 THEN (i \div n) + 1 ELSE i \div n

\* if (seconds < 0)
borrow(seconds) == seconds < 0

fillHMS(seconds) ==
  [tm_sec |-> seconds % 60, tm_min |-> (seconds \div 60) % 60, tm_hour |-> (seconds \div 60) \div 60]

toUtcTime(secondsSinceEpoch) ==
  LET days0 == Quot(secondsSinceEpoch, kSecondsPerDay)
      seconds0 == secondsSinceEpoch - kSecondsPerDay * days0
      seconds == IF borrow(seconds0) THEN seconds0 + kSecondsPerDay ELSE seconds0
      julian == (IF borrow(seconds0) THEN days0 - 1 ELSE days0) + kJulianDayOf1970_01_01
      date == getYearMonthDay(julian)
  IN [hms |-> fillHMS(seconds),
      tm_year |-> date.year - 1900, tm_mon |-> date.month - 1, tm_mday |-> date.day,
      tm_wday |-> weekDay(julian), tm_yday |-> julian - getJulianDayNumber(date.year, 1, 1)]

fromUtcTime(utc) ==
  LET julian == getJulianDayNumber(utc.tm_year + 1900, utc.tm_mon + 1, utc.tm_mday)
      secondsInDay == utc.hms.tm_hour * 3600 + utc.hms.tm_min * 60 + utc.hms.tm_sec
  IN (julian - kJulianDayOf1970_01_01) * kSecondsPerDay + secondsInDay

-----------------------------------------------------------------------------
(* TimeZone::toLocalTime() and fromLocalTime(): a zone is its localtimes and its       *)
(* transitions, in the order of the file.                                              *)

\* readTimeZoneFile(): the times and indices of the file, with the local time of each.
\* A zone without transitions is what TimeZone(eastOfUtc, name) makes.
Transitions(z) ==
  [i \in DOMAIN z.trans |->
     [gmttime |-> z.trans[i].at, localtime |-> z.trans[i].at + z.localtimes[z.trans[i].idx].gmtOffset,
      localtimeIdx |-> z.trans[i].idx]]

\* lower_bound(), and one back unless the transition is at that very time.
found(transitions, field, t) ==
  LET later == {i \in DOMAIN transitions : transitions[i][field] >= t} IN
  IF later = {} THEN Len(transitions)
  ELSE IF transitions[Min(later)][field] = t THEN Min(later)
  ELSE Min(later) - 1

\* findLocaltime(), comparing gmttime or localtime
findLocaltime(z, field, t) ==
  LET transitions == Transitions(z) IN
  IF transitions = <<>> \/ t < transitions[1][field]
  THEN z.localtimes[1]
  ELSE z.localtimes[transitions[found(transitions, field, t)].localtimeIdx]

\* gmtime_r() splits the local time; timegm() puts it together again.
toLocalTime(z, t) ==
  LET local == findLocaltime(z, "gmttime", t)
      seconds == t + local.gmtOffset
  IN [tm_isdst |-> local.isDst, day |-> seconds \div kHoursPerDay, tm_hour |-> seconds % kHoursPerDay]

\* Slip: the hour that comes twice is not looked at.
firstOfTwoNever(z, localTm, seconds, local) == FALSE

\* A time that says it is summer time and is found in winter time, at the same hour.
firstOfTwo(z, localTm, seconds, local) ==
  LET tryTm == toLocalTime(z, seconds - local.gmtOffset)
  IN localTm.tm_isdst /\ ~tryTm.tm_isdst /\ tryTm.tm_hour = localTm.tm_hour

fromLocalTime(z, localTm) ==
  LET seconds == localTm.day * kHoursPerDay + localTm.tm_hour
      local == findLocaltime(z, "localtime", seconds)
  IN (IF firstOfTwo(z, localTm, seconds, local) THEN seconds - 1 ELSE seconds) - local.gmtOffset

-----------------------------------------------------------------------------
(* The reference: the Gregorian calendar, day by day. *)

IsLeap(y) == (y % 4 = 0 /\ y % 100 # 0) \/ y % 400 = 0
DaysIn(y, m) == CASE m = 2 -> IF IsLeap(y) THEN 29 ELSE 28 [] m \in {4, 6, 9, 11} -> 30 [] OTHER -> 31

\* The days from 1 January 1900, a Monday of number 2415021, to 1 January of a year.
DaysBefore(y) == 365 * (y - 1900) + Cardinality({x \in 1900..(y - 1) : IsLeap(x)})

NoZone == [localtimes |-> <<>>, trans |-> <<>>]

Init ==
  \/ /\ part = "days" /\ zone = NoZone /\ time = 0
     /\ \E y \in Years :
          /\ ymd = [year |-> y, month |-> 1, day |-> 1]
          /\ day = 2415021 + DaysBefore(y) /\ wday = (1 + DaysBefore(y)) % 7 /\ yday = 0
  \/ /\ part = "zones" /\ zone \in Zones /\ time = Min(Hours)
     /\ ymd = [year |-> 1900, month |-> 1, day |-> 1] /\ day = 2415021 /\ wday = 1 /\ yday = 0

NextDay ==
  /\ part = "days" /\ ~(ymd.month = 12 /\ ymd.day = 31)
  /\ day' = day + 1 /\ wday' = (wday + 1) % 7 /\ yday' = yday + 1
  /\ ymd' = IF ymd.day < DaysIn(ymd.year, ymd.month)
            THEN [ymd EXCEPT !.day = @ + 1]
            ELSE [ymd EXCEPT !.day = 1, !.month = @ + 1]
  /\ UNCHANGED <<part, zone, time>>

NextHour ==
  /\ part = "zones" /\ time < Max(Hours) /\ time' = time + 1
  /\ UNCHANGED <<part, day, ymd, wday, yday, zone>>

Next == NextDay \/ NextHour
Spec == Init /\ [][Next]_vars
-----------------------------------------------------------------------------
(* Properties *)

\* On every day of the calendar the two conversions of Date are each other's inverse
\* and agree with the calendar, its leap years and its weeks (Date.cc:20-42, Date.h:96).
DateRight ==
  /\ getJulianDayNumber(ymd.year, ymd.month, ymd.day) = day
  /\ getYearMonthDay(day) = ymd /\ weekDay(day) = wday

\* The first and the last second of every day, also before 1970, have the fields of
\* that day, and the seconds are found again from them (TimeZone.cc:322-363).  The
\* days are those a 32 bit time reaches.
UtcRight ==
  day - 2440588 \in -24855..24853 =>
    \A s \in {0, kSecondsPerDay - 1} :
      LET t == (day - 2440588) * kSecondsPerDay + s
          utc == toUtcTime(t)
      IN /\ fromUtcTime(utc) = t
         /\ <<utc.tm_year + 1900, utc.tm_mon + 1, utc.tm_mday>> = <<ymd.year, ymd.month, ymd.day>>
         /\ utc.tm_wday = wday /\ utc.tm_yday = yday
         /\ utc.hms.tm_hour = (IF s = 0 THEN 0 ELSE 23)

\* A local time shows the offset of the last transition that has come, and one that is
\* converted back is the same time, in the hour that comes twice as well, where only
\* tm_isdst tells which of the two it was (TimeZone.cc:223-255, 277-320).
LocalRight ==
  part = "zones" =>
    LET local == toLocalTime(zone, time)
        past == {i \in DOMAIN zone.trans : zone.trans[i].at <= time}
        shown == zone.localtimes[IF past = {} THEN 1 ELSE zone.trans[Max(past)].idx]
    IN /\ local.day * kHoursPerDay + local.tm_hour - time = shown.gmtOffset
       /\ local.tm_isdst = shown.isDst
       /\ fromLocalTime(zone, local) = time
=============================================================================
