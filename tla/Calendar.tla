------------------------------ MODULE Calendar ------------------------------
(***************************************************************************)
(* The calendar types of the date library the pmu target compiles           *)
(* (src/ThirdParty/date/date.h): days, months and years in their machine    *)
(* widths, the five kinds of full date and the day counts behind them.      *)
(*                                                                          *)
(* A day, a month, a year, a weekday and a number of days since 1970-01-01  *)
(* (sys_days) are integers; the compound types are records of them.  The    *)
(* order of integers stands for the comparison operators of the simple      *)
(* types; stream output and the compile-time plumbing are left out.         *)
(***************************************************************************)
EXTENDS Integers, Sequences

-----------------------------------------------------------------------------
(* Conversions of C++: to unsigned char, to short, and division towards 0. *)

UChar(n) == n % 256
Short(n) == ((n + 32768) % 65536) - 32768
CDiv(a, b) == IF a >= 0 THEN a \div b ELSE -((-a) \div b)

(* A division that rounds down, written with one that rounds towards zero. *)
FloorDiv(a, b) == CDiv(IF a >= 0 THEN a ELSE a - (b - 1), b)

-----------------------------------------------------------------------------
(* day, month, year *)

Day(n) == UChar(n)
DayOk(d) == d \in 1..31
DayPlus(d, n) == Day(d + n)
DayMinus(x, y) == x - y

Month(n) == UChar(n)
MonthOk(m) == m \in 1..12
February == 2

MonthPlus(m, n) == LET mu == m + n - 1
                   IN  Month(mu - FloorDiv(mu, 12) * 12 + 1)

\* The subtraction is unsigned: a negative difference is far above 11.
MonthMinus(x, y) == IF x - y \in 0..11 THEN x - y ELSE x - y + 12

Year(n) == Short(n)
YearOk(y) == y # -32768
IsLeap(y) == y % 4 = 0 /\ (y % 100 # 0 \/ y % 400 = 0)
YearPlus(y, n) == Year(y + n)
YearMinus(x, y) == x - y

-----------------------------------------------------------------------------
(* weekday, and a weekday with its place in a month *)

Weekday(n) == UChar(IF n # 7 THEN n ELSE 0)
WeekdayOk(wd) == wd <= 6
IsoEncoding(wd) == IF wd = 0 THEN 7 ELSE wd

\* z is turned to unsigned first, and the remainder of 2^32 by 7 is 4.
WeekdayFromDays(z) == IF z >= -4 THEN (z + 4) % 7 ELSE ((z % 7) + 4) % 7

WeekdayMinus(x, y) == (x - y) - FloorDiv(x - y, 7) * 7
WeekdayOnOrAfter(d, wd) == d + WeekdayMinus(wd, WeekdayFromDays(d))
WeekdayOnOrBefore(d, wd) == d - WeekdayMinus(WeekdayFromDays(d), wd)
WeekdayPlus(wd, n) == Weekday(wd + n - FloorDiv(wd + n, 7) * 7)

\* Both fields of a weekday_indexed have four bits.
WeekdayIndexed(wd, n) == [wd |-> wd % 16, index |-> n % 16]
WeekdayIndexedOk(wdi) == WeekdayOk(wdi.wd) /\ wdi.index \in 1..5

WeekdayLast(wd) == [wd |-> wd]
WeekdayLastOk(wdl) == WeekdayOk(wdl.wd)

-----------------------------------------------------------------------------
(* year_month *)

YearMonth(y, m) == [y |-> Year(y), m |-> Month(m)]
YearMonthOk(ym) == YearOk(ym.y) /\ MonthOk(ym.m)
YearMonthLess(a, b) == a.y < b.y \/ (a.y = b.y /\ a.m < b.m)

\* mutant: the year is not carried when the months go below January
YearMonthPlus_Truncating(ym, n) ==
  LET dmi == ym.m - 1 + n
      dy  == CDiv(dmi, 12)
  IN  YearMonth(YearPlus(ym.y, dy), dmi - dy * 12 + 1)

YearMonthPlus(ym, n) ==
  LET dmi == ym.m - 1 + n
      dy  == FloorDiv(dmi, 12)
  IN  YearMonth(YearPlus(ym.y, dy), dmi - dy * 12 + 1)

YearMonthMinus(a, b) == 12 * YearMinus(a.y, b.y) + (a.m - b.m)
YearMonthPlusYears(ym, n) == YearMonth(YearPlus(ym.y, n), ym.m)

-----------------------------------------------------------------------------
(* month_day, month_day_last, month_weekday, month_weekday_last *)

MonthDay(m, d) == [m |-> Month(m), d |-> Day(d)]
MonthDayOk(md) ==
  /\ MonthOk(md.m)
  /\ md.d \in 1..(<<31, 29, 31, 30, 31, 30, 31, 31, 30, 31, 30, 31>>[md.m])
MonthDayLess(a, b) == a.m < b.m \/ (a.m = b.m /\ a.d < b.d)

MonthDayLast(m) == [m |-> Month(m)]
MonthDayLastOk(mdl) == MonthOk(mdl.m)
MonthDayLastLess(a, b) == a.m < b.m

MonthWeekday(m, wdi) == [m |-> Month(m), wdi |-> wdi]
MonthWeekdayOk(mwd) == MonthOk(mwd.m) /\ WeekdayIndexedOk(mwd.wdi)

MonthWeekdayLast(m, wdl) == [m |-> Month(m), wdl |-> wdl]
MonthWeekdayLastOk(mwdl) == MonthOk(mwdl.m) /\ WeekdayLastOk(mwdl.wdl)

-----------------------------------------------------------------------------
(* year_month_day_last: the last day of a month of a year *)

YmdLast(y, mdl) == [y |-> Year(y), mdl |-> mdl]
YmdLastOk(x) == YearOk(x.y) /\ MonthDayLastOk(x.mdl)
YmdLastLess(a, b) ==
  a.y < b.y \/ (a.y = b.y /\ MonthDayLastLess(a.mdl, b.mdl))

\* Also 29 for a month that is not one.
YmdLastDay(x) ==
  IF (x.mdl.m # February \/ ~IsLeap(x.y)) /\ MonthDayLastOk(x.mdl)
  THEN <<31, 28, 31, 30, 31, 30, 31, 31, 30, 31, 30, 31>>[x.mdl.m]
  ELSE 29

YmdLastPlus(x, n) ==
  LET ym == YearMonthPlus(YearMonth(x.y, x.mdl.m), n)
  IN  YmdLast(ym.y, MonthDayLast(ym.m))
YmdLastPlusYears(x, n) == YmdLast(YearPlus(x.y, n), x.mdl)

-----------------------------------------------------------------------------
(* year_month_day and its count of days *)

Ymd(y, m, d) == [y |-> Year(y), m |-> Month(m), d |-> Day(d)]
YmdOk(x) ==
  /\ YearOk(x.y) /\ MonthOk(x.m)
  /\ x.d \in 1..YmdLastDay(YmdLast(x.y, MonthDayLast(x.m)))
YmdLess(a, b) ==
  \/ a.y < b.y
  \/ a.y = b.y /\ (a.m < b.m \/ (a.m = b.m /\ a.d < b.d))

\* The count of days to a day of a year that begins in March.
DayOfEra(yoe, doy) == yoe * 365 + (yoe \div 4) - (yoe \div 100) + doy
DaysOfEra(y, era, doy) == era * 146097 + DayOfEra(y - era * 400, doy) - 719468

\* mutant: the era of a year before 0 is rounded towards zero
DaysFromYear_Era(y, doy) == DaysOfEra(y, CDiv(y, 400), doy)

DaysFromYear(y, doy) == DaysOfEra(y, FloorDiv(y, 400), doy)

YmdToDays(x) ==
  DaysFromYear(x.y - (IF x.m <= February THEN 1 ELSE 0),
               (153 * (IF x.m > 2 THEN x.m - 3 ELSE x.m + 9) + 2) \div 5 + x.d - 1)

\* The year of an era from the day of the era; years begin in March.
YearOfEra(doe) ==
  (doe - (doe \div 1460) + (doe \div 36524) - (doe \div 146096)) \div 365

\* The date from a year and the day of the year.
YmdFromYear(y, doy) ==
  LET mp == (5 * doy + 2) \div 153
      m  == IF mp < 10 THEN mp + 3 ELSE mp - 9
  IN  Ymd(y + (IF m <= 2 THEN 1 ELSE 0), m, doy - ((153 * mp + 2) \div 5) + 1)

YmdFromEra(era, doe, yoe) ==
  YmdFromYear(era * 400 + yoe, doe - (365 * yoe + (yoe \div 4) - (yoe \div 100)))

YmdFromDays(dp) ==
  LET z   == dp + 719468
      era == FloorDiv(z, 146097)
      doe == z - era * 146097
  IN  YmdFromEra(era, doe, YearOfEra(doe))

\* The day is kept: the result may be a date that no month has.
YmdPlus(x, n) ==
  LET ym == YearMonthPlus(YearMonth(x.y, x.m), n)
  IN  Ymd(ym.y, ym.m, x.d)
YmdPlusYears(x, n) == Ymd(YearPlus(x.y, n), x.m, x.d)

YmdLastToDays(x) == YmdToDays(Ymd(x.y, x.mdl.m, YmdLastDay(x)))

-----------------------------------------------------------------------------
(* year_month_weekday and year_month_weekday_last *)

YmWeekday(y, m, wdi) == [y |-> Year(y), m |-> Month(m), wdi |-> wdi]

YmWeekdayOk(x) ==
  /\ YearOk(x.y) /\ MonthOk(x.m) /\ WeekdayOk(x.wdi.wd) /\ x.wdi.index >= 1
  /\ \/ x.wdi.index <= 4
     \/ WeekdayMinus(x.wdi.wd, WeekdayFromDays(YmdToDays(Ymd(x.y, x.m, 1))))
          + (x.wdi.index - 1) * 7 + 1
        <= YmdLastDay(YmdLast(x.y, MonthDayLast(x.m)))

YmWeekdayFromDays(dp) ==
  LET ymd == YmdFromDays(dp)
  IN  YmWeekday(ymd.y, ymd.m,
                WeekdayIndexed(WeekdayFromDays(dp), ((ymd.d - 1) \div 7) + 1))
YmWeekdayToDays(x) ==
  WeekdayOnOrAfter(YmdToDays(Ymd(x.y, x.m, 1)), x.wdi.wd) + (x.wdi.index - 1) * 7
YmWeekdayPlus(x, n) ==
  LET ym == YearMonthPlus(YearMonth(x.y, x.m), n)
  IN  YmWeekday(ym.y, ym.m, x.wdi)

YmWeekdayLast(y, m, wdl) == [y |-> Year(y), m |-> Month(m), wdl |-> wdl]
YmWeekdayLastOk(x) == YearOk(x.y) /\ MonthOk(x.m) /\ WeekdayLastOk(x.wdl)
YmWeekdayLastToDays(x) ==
  WeekdayOnOrBefore(YmdLastToDays(YmdLast(x.y, MonthDayLast(x.m))), x.wdl.wd)
YmWeekdayLastPlus(x, n) ==
  LET ym == YearMonthPlus(YearMonth(x.y, x.m), n)
  IN  YmWeekdayLast(ym.y, ym.m, x.wdl)

-----------------------------------------------------------------------------
(* The dates that operator/ composes from parts. *)

SlashYmd(y, md) == Ymd(Year(y), md.m, md.d)
SlashYmdLast(y, mdl) == YmdLast(Year(y), mdl)
SlashYmWeekday(y, mwd) == YmWeekday(Year(y), mwd.m, mwd.wdi)
SlashYmWeekdayLast(y, mwdl) == YmWeekdayLast(Year(y), mwdl.m, mwdl.wdl)

-----------------------------------------------------------------------------
(***************************************************************************)
(* Time of day.  The library is a template over the duration: here a        *)
(* duration is counted in ticks of a tenth of a second, so a second has one *)
(* decimal digit of subseconds (decimal_format_seconds::width is 1).        *)
(***************************************************************************)
TicksPerSecond == 10

DecimalSeconds(t) == [s |-> CDiv(t, TicksPerSecond),
                      sub |-> t - CDiv(t, TicksPerSecond) * TicksPerSecond]
DecimalSecondsInRange(x) == x.sub < TicksPerSecond /\ x.s < 60

Abs(t) == IF t >= 0 THEN t ELSE -t

HhMmSs(t) ==
  LET h == CDiv(Abs(t), 3600 * TicksPerSecond)
      m == CDiv(Abs(t), 60 * TicksPerSecond) - h * 60
  IN  [h |-> h, m |-> m, neg |-> t < 0,
       s |-> DecimalSeconds(Abs(t) - (h * 60 + m) * 60 * TicksPerSecond)]

HhMmSsToDuration(x) ==
  (x.s.s * TicksPerSecond + x.s.sub + (x.h * 60 + x.m) * 60 * TicksPerSecond)
    * (IF x.neg THEN -1 ELSE 1)
HhMmSsInRange(x) ==
  ~x.neg /\ x.h < 24 /\ x.m < 60 /\ DecimalSecondsInRange(x.s)

IsAm(h) == h \in 0..11
IsPm(h) == h \in 12..23
Make12(h) == IF h < 12 THEN (IF h = 0 THEN 12 ELSE h)
                       ELSE (IF h # 12 THEN h - 12 ELSE h)
Make24(h, pm) == IF pm THEN (IF h # 12 THEN h + 12 ELSE h)
                       ELSE (IF h = 12 THEN 0 ELSE h)
=============================================================================
