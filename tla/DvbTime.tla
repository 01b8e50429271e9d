------------------------------- MODULE DvbTime ------------------------------
(***************************************************************************)
(* Dates, times and durations as DVB sends them: the conversions of        *)
(* DvbUtils.cpp and the getters of TEitEvent that use them.                *)
(*                                                                         *)
(* A time is the five bytes of the table: a Modified Julian Date of 16     *)
(* bits, then hours, minutes and seconds in BCD.  Shifting and masking the *)
(* 40-bit integer the code makes of them is picking bytes.  MjdToDate goes *)
(* as far as the struct tm it fills; mktime, which turns it into a time_t  *)
(* in the zone of the process, is not the repository's.                    *)
(***************************************************************************)
EXTENDS Integers, Sequences

BcdByteToDec(bcd) == (bcd \div 16) * 10 + (bcd % 16)

\* The loop over the digits of a 16-bit number; a digit past the leading one
\* is zero and adds nothing.
BcdToDec(bcd) ==
  LET digit(i) == (bcd \div 16^i) % 16
  IN digit(0) + 10 * digit(1) + 100 * digit(2) + 1000 * digit(3)

Mjd(time) == 256 * time[1] + time[2]

\* A bug: February and March are not told from the months before them.
CivilDateUncorrected(mjd) ==
  LET J1 == mjd + 2400001 + 68569
      C  == (4 * J1) \div 146097
      J2 == J1 - (146097 * C + 3) \div 4
      Y  == (4000 * (J2 + 1)) \div 1461001
      J3 == J2 - (1461 * Y) \div 4 + 31
      M  == (80 * J3) \div 2447
      J4 == M \div 11
  IN [year  |-> 100 * (C - 49) + Y,
      month |-> M + 2 - 12 * J4,
      day   |-> J3 - (2447 * M) \div 80]

\* The variable J of the code is assigned four times.  No intermediate value
\* leaves the 32 bits of an int.
CivilDate(mjd) ==
  LET J1 == mjd + 2400001 + 68569
      C  == (4 * J1) \div 146097
      J2 == J1 - (146097 * C + 3) \div 4
      Y  == (4000 * (J2 + 1)) \div 1461001
      J3 == J2 - (1461 * Y) \div 4 + 31
      M  == (80 * J3) \div 2447
      J4 == M \div 11
  IN [year  |-> 100 * (C - 49) + Y + J4,
      month |-> M + 2 - 12 * J4,
      day   |-> J3 - (2447 * M) \div 80]

\* MjdToDate: the date and the time of the struct tm.
MjdToDate(time) ==
  [date |-> CivilDate(Mjd(time)),
   hour |-> BcdToDec(time[3]), min |-> BcdToDec(time[4]),
   sec  |-> BcdToDec(time[5])]

\* GetDuration, in seconds, of three BCD bytes.
GetDuration(duration) ==
  BcdByteToDec(duration[1]) * 3600 + BcdByteToDec(duration[2]) * 60
    + BcdByteToDec(duration[3])

\* (StartTime & 0xFFFFF000) == 0xFFFFF000: the low byte of the date, the hours
\* and the tens of the minutes are all ones.
IsNvod(time, runningStatus) ==
  /\ time[2] = 255 /\ time[3] = 255 /\ time[4] \div 16 = 15
  /\ runningStatus = 0

-----------------------------------------------------------------------------
(***************************************************************************)
(* The calendar and the coding to compare with.                            *)
(***************************************************************************)
IsLeap(year) == year % 4 = 0 /\ (year % 100 # 0 \/ year % 400 = 0)

DaysInMonth(year) ==
  <<31, IF IsLeap(year) THEN 29 ELSE 28, 31, 30, 31, 30,
    31, 31, 30, 31, 30, 31>>

\* The days of the years 1 to year, and those of the months before a month.
DaysThrough(year) ==
  365 * year + year \div 4 - year \div 100 + year \div 400

DaysBefore(year, month) ==
  LET days[m \in 1..12] ==
        IF m = 1 THEN 0 ELSE days[m - 1] + DaysInMonth(year)[m - 1]
  IN days[month]

\* Day 0 of the Modified Julian Date is 17 November 1858.
DayNumber(date) ==
  DaysThrough(date.year - 1) + DaysBefore(date.year, date.month) + date.day
    - (DaysThrough(1857) + DaysBefore(1858, 11) + 17)

Bcd(n) == 16 * (n \div 10) + (n % 10)

EncodeTime(t) ==
  LET mjd == DayNumber(t.date)
  IN <<mjd \div 256, mjd % 256, Bcd(t.hour), Bcd(t.min), Bcd(t.sec)>>

\* The start time of an event that has none.
UndefinedTime == <<255, 255, 255, 255, 255>>

EncodeDuration(seconds) ==
  <<Bcd(seconds \div 3600), Bcd((seconds \div 60) % 60), Bcd(seconds % 60)>>

\* The dates of a year whose day number fits into the 16 bits of the field.
DatesOf(year) ==
  {date \in [year: {year}, month: 1..12, day: 1..31] :
     date.day <= DaysInMonth(year)[date.month] /\ DayNumber(date) <= 65535}

=============================================================================
