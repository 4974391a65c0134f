-------------------------------- MODULE Dates --------------------------------
(***************************************************************************)
(* Dates: the calendar of the C library (libc/src/time), and the numbers   *)
(* the real-time clock keeps them in (kernel/modules/clock_x86.cc).        *)
(***************************************************************************)
EXTENDS Integers, FiniteSetsExt

EPOCH == 1970
SECONDS_PER_DAY == 24 * 3600

(* A register of the clock has the tens of its number in the upper bits.   *)
FromClock(Data) == Data - (Data \div 16) * 6

reset_info(register) ==
    [year |-> FromClock(register[9]), month |-> FromClock(register[8]),
     day |-> FromClock(register[7]), h |-> FromClock(register[4]),
     m |-> FromClock(register[2]), s |-> FromClock(register[0])]

(* Days before each month, and before each of 60 years.                    *)
monthdays == <<0, 31, 59, 90, 120, 151, 181, 212, 243, 273, 304, 334, 365>>
monthdays2 == [m \in 1 .. 13 |-> IF m <= 2 THEN monthdays[m] ELSE monthdays[m] + 1]
sumofdays == [i \in 1 .. 60 |-> 365 * (i - 1) + (i + 2) \div 4]

Months(year) == IF year % 4 = 0 THEN monthdays2 ELSE monthdays

(* The first year and month in the tables that begin after the day are one *)
(* too far.                                                                *)
_gmtime(timeval) ==
    LET days == timeval \div SECONDS_PER_DAY
        laterYears == {i \in 0 .. 59 : sumofdays[i + 1] > days}
        years == IF laterYears = {} THEN 0 ELSE Min(laterYears) - 1
        yday == days - sumofdays[years + 1]
        months == Months(EPOCH + years)
        laterMonths == {m \in 0 .. 11 : months[m + 1] > yday}
        mon == IF laterMonths = {} THEN 12 ELSE Min(laterMonths) - 1
    IN  [tm_sec |-> timeval % 60, tm_min |-> (timeval \div 60) % 60,
         tm_hour |-> (timeval \div 3600) % 24, tm_wday |-> (4 + days) % 7,
         tm_year |-> EPOCH + years, tm_yday |-> yday, tm_mon |-> mon,
         tm_mday |-> 1 + yday - (IF mon = 12 THEN 0 ELSE months[mon + 1])]

daysdiff_Inclusive(year, month, day) ==
    365 * (year - EPOCH) + Cardinality({y \in EPOCH .. year : y % 4 = 0})
      + Months(year)[month + 1] + day - 1

daysdiff(year, month, day) ==
    365 * (year - EPOCH) + Cardinality({y \in EPOCH .. year - 1 : y % 4 = 0})
      + Months(year)[month + 1] + day - 1

dayofweek(year, month, day) == (4 + daysdiff(year, month, day)) % 7

mktime(tm) ==
    IF tm.tm_year > 2100 THEN -1
    ELSE daysdiff(tm.tm_year, tm.tm_mon, tm.tm_mday) * SECONDS_PER_DAY
           + tm.tm_hour * 3600 + tm.tm_min * 60 + tm.tm_sec

-----------------------------------------------------------------------------
(* What the registers of the clock show is read as it is.                  *)
ClockRead(tm) ==
    LET Shown(n) == 16 * (n \div 10) + (n % 10)
        register == [r \in 0 .. 9 |->
            Shown(CASE r = 9 -> tm.tm_year % 100 [] r = 8 -> tm.tm_mon + 1 [] r = 7 -> tm.tm_mday
                    [] r = 4 -> tm.tm_hour [] r = 2 -> tm.tm_min [] OTHER -> tm.tm_sec)]
    IN  reset_info(register) =
            [year |-> tm.tm_year % 100, month |-> tm.tm_mon + 1, day |-> tm.tm_mday,
             h |-> tm.tm_hour, m |-> tm.tm_min, s |-> tm.tm_sec]

(* mktime gives back the moment that _gmtime took apart, and the day of    *)
(* the week agrees, from January to November; December is month 12 in      *)
(* _gmtime, which looks for it among the first eleven.  The table of years *)
(* makes 1970, 1974... leap years and the tables of months 1972, 1976...,  *)
(* so that in the two years between they are a day apart.                  *)
DatesAgree(year, seconds) ==
    \A d \in 0 .. (IF year % 4 = 2 THEN 365 ELSE 364) :
        LET t == (sumofdays[1 + year - EPOCH] + d) * SECONDS_PER_DAY + seconds
            tm == _gmtime(t)
            apart == IF year % 4 \in {3, 0} THEN 1 ELSE 0
        IN  /\ tm.tm_year = year /\ tm.tm_yday = d
            /\ tm.tm_mon = 12 <=> d >= Months(year)[12]
            /\ tm.tm_mon < 12 =>
                  /\ mktime(tm) = t - apart * SECONDS_PER_DAY
                  /\ tm.tm_mday \in 1 .. 31
                  /\ dayofweek(year, tm.tm_mon, tm.tm_mday) = (tm.tm_wday + 7 - apart) % 7
                  /\ ClockRead(tm)
=============================================================================
