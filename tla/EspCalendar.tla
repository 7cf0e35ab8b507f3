----------------------------- MODULE EspCalendar -----------------------------
(***************************************************************************)
(* esp_time/esp_time.c's dates: what the RTC chip is written and read back  *)
(* as.  A chip has two digits for the year; a date goes in by gmtime_r()    *)
(* and comes out by days_from_civil(), here of a calendar stepped through   *)
(* day by day.                                                             *)
(***************************************************************************)
EXTENDS Integers

CONSTANTS FirstYear, LastYear   \* the years stepped through

(* Of the century a chip has digits for, and of the next the years that it
   has for ones of before 2025.                                             *)
CalendarAssumption == FirstYear .. LastYear \subseteq 2000 .. 2124

VARIABLES
    y, m, d,    \* a date: gmtime_r()'s
    days,       \* ... and the days since 1970-01-01
    chip        \* the bytes the chip has of it

vars == <<y, m, d, days, chip>>

Leap(n) == n % 4 = 0 /\ (n % 100 # 0 \/ n % 400 = 0)
MonthDays(n, k) ==
    CASE k = 2 -> IF Leap(n) THEN 29 ELSE 28
      [] k \in {4, 6, 9, 11} -> 30
      [] OTHER -> 31
LeapsBefore(n) == (n - 1) \div 4 - (n - 1) \div 100 + (n - 1) \div 400
NewYear(n) == 365 * (n - 1970) + LeapsBefore(n) - LeapsBefore(1970)

(* bcd(), to_bcd()                                                          *)
FromBcd(v) == (v \div 16) * 10 + (v % 16)
ToBcd(v) == (v \div 10) * 16 + (v % 10)

(* days_from_civil(): the year begins in March.                             *)
DaysFromCivil(yy, mm, dd) ==
    LET yr == IF mm <= 2 THEN yy - 1 ELSE yy
        yoe == yr % 400
        doy == (153 * (mm + (IF mm > 2 THEN 0 - 3 ELSE 9)) + 2) \div 5 + dd - 1
    IN (yr \div 400) * 146097 + yoe * 365 + yoe \div 4 - yoe \div 100 + doy - 719468

(* Mistake: the month counted from 0, as tm_mon is. *)
RtcWriteMonth(yy, mm, dd) == [year |-> ToBcd(yy % 100), month |-> ToBcd(mm - 1), day |-> ToBcd(dd)]

(* rtc_write(), rtc_read(): the date's registers.                           *)
RtcWrite(yy, mm, dd) == [year |-> ToBcd(yy % 100), month |-> ToBcd(mm), day |-> ToBcd(dd)]
RtcRead(r) == DaysFromCivil(2000 + FromBcd(r.year), FromBcd(r.month % 32), FromBcd(r.day % 64))

ValidAfter == DaysFromCivil(2025, 1, 1)

Init ==
    /\ y \in FirstYear .. LastYear /\ m = 1 /\ d = 1 /\ days = NewYear(y)
    /\ chip = RtcWrite(y, m, d)

NextDay ==
    /\ y <= LastYear /\ (m < 12 \/ d < 31)
    /\ IF d < MonthDays(y, m) THEN d' = d + 1 /\ m' = m ELSE d' = 1 /\ m' = m + 1
    /\ y' = y /\ days' = days + 1 /\ chip' = RtcWrite(y', m', d')

Next == NextDay

Spec == Init /\ [][Next]_vars

-----------------------------------------------------------------------------
(* The clock that a power loss is made up for is the one that was kept: the
   chip gives the day it was written, or, its two digits run out, a day from
   before 2025, which is not believed.                                      *)
RtcKeepsTheDate == RtcRead(chip) = days \/ RtcRead(chip) < ValidAfter
=============================================================================
