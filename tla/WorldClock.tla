----------------------------- MODULE WorldClock -----------------------------
(***************************************************************************)
(* A clock that uses the date library: it loads the rules of a time zone    *)
(* (split_overlaps of tz.cpp, one step of its loop per action, then         *)
(* adjust_infos) and then walks through time.  Beside it runs a reference   *)
(* calendar that only knows the lengths of the months and that the days of  *)
(* the week follow each other; the properties compare what the library      *)
(* says of each moment with the reference.                                  *)
(***************************************************************************)
EXTENDS ZoneRules, FiniteSets

CONSTANT Cases   \* what the clock may be set to: a sequence of records
                 \*   rules     the rule lines, a sequence of Rule
                 \*   zonelets  the zone lines, a sequence of Zonelet
                 \*   leaps     the leap seconds, a set of <<date, year>>
                 \*   year      the year whose first day the clock starts on
                 \*   days      how many days it runs
                 \*   ticks     the minutes of the day it stops at

VARIABLES case,    \* the index of the case
          phase,   \* "split" while rules are split, "run" afterwards
          rules,   \* the vector of rules
          i, k,    \* the indices of split_overlaps
          zone,    \* the adjusted zonelets
          day,     \* the days since 1970-01-01
          tod,     \* the minute of the day
          today,   \* the date, kept by the reference calendar
          dow,     \* the weekday, kept by the reference calendar
          timeline \* what the lines say: the stretches of the zone

load == <<phase, rules, i, k, zone>>
clock == <<day, tod, today, dow>>
vars == <<case, phase, rules, i, k, zone, day, tod, today, dow, timeline>>

setting == Cases[case]

-----------------------------------------------------------------------------
(* The reference calendar. *)

\* The days from 1970-01-01 to the first of January of year y.
NewYear(y) == 365 * (y - 1970) + ((y - 1) \div 4 - 492)
                - ((y - 1) \div 100 - 19) + ((y - 1) \div 400 - 4)

\* The first year that Year cannot hold, and the years that a valid date may have
YearEnd == 32768
ValidYears == (1 - YearEnd)..(YearEnd - 1)

\* The clock is set to a year that Year can hold, and stops before Year wraps.
IsSetting(c) ==
  /\ c.year \in ValidYears /\ c.days \in Nat
  /\ NewYear(c.year) + c.days <= NewYear(YearEnd)
  /\ c.ticks # {} /\ \A t \in c.ticks : t \in Nat /\ t < MinutesPerDay

ASSUME ClockAssumption == \A n \in DOMAIN Cases : IsSetting(Cases[n])

LengthOfMonth(y, m) ==
  IF m = 2 THEN NewYear(y + 1) - NewYear(y) - 337
  ELSE IF m \in {4, 6, 9, 11} THEN 30 ELSE 31

Tomorrow(x) ==
  CASE x.d < LengthOfMonth(x.y, x.m) -> [x EXCEPT !.d = @ + 1]
    [] x.d = LengthOfMonth(x.y, x.m) /\ x.m < 12 -> [y |-> x.y, m |-> x.m + 1, d |-> 1]
    [] OTHER -> [y |-> x.y + 1, m |-> 1, d |-> 1]

StartDate == [y |-> setting.year, m |-> 1, d |-> 1]
now == day * MinutesPerDay + tod

\* the first moment of a day: dates need not be looked at again until the next
NewDay == phase = "run" /\ tod = Min(setting.ticks)

-----------------------------------------------------------------------------
(* The reference time line of a zone, from the lines as they were written.  *)

FirstOfMonth(y, m) ==
  NewYear(y) + YmdToDays(Ymd(1970, m, 1)) + (IF m > 2 THEN LengthOfMonth(y, 2) - 28 ELSE 0)

OnOrBefore(n, wd) == n - ((n + 4 - wd) % 7)

\* The day that a rule names in year y.
NamedDay(at, y) ==
  CASE at.type = "month_day" -> FirstOfMonth(y, at.m) + at.d - 1
    [] at.type # "month_day" ->
         OnOrBefore(FirstOfMonth(y, at.m) - 1
                      + (CASE at.type = "month_last_dow" -> LengthOfMonth(y, at.m)
                           [] at.type = "lteq"           -> at.d
                           [] at.type = "gteq"           -> at.d + 6), at.wd)

Nominal(at, y) == NamedDay(at, y) * MinutesPerDay + at.t

OnClock(zn, t, offset, save) ==
  t - (CASE zn = "utc" -> 0 [] zn = "standard" -> offset [] zn = "local" -> offset + save)

YearsOf(r) == r.start..r.end

\* Every year of every line is one change of the savings.
Changes(lines) ==
  UNION {{[r |-> lines[n], t |-> Nominal(lines[n].at, y)] : y \in YearsOf(lines[n])}
           : n \in DOMAIN lines}

InOrder(changes) ==
  SortSeq(FoldSet(LAMBDA c, s : Append(s, c), <<>>, changes), LAMBDA a, b : a.t < b.t)

\* The changes in order, each read on the clock in force before it.
Changeover(seq, offset) ==
  [n \in DOMAIN seq |->
     [at |-> OnClock(seq[n].r.at.zone, seq[n].t, offset, IF n = 1 THEN 0 ELSE seq[n-1].r.save),
      save |-> seq[n].r.save]]

SaveIn(changes, t) ==
  LET past == {n \in DOMAIN changes : changes[n].at <= t}
  IN  IF past = {} THEN 0 ELSE changes[Max(past)].save

\* A zonelet ends when its own clock reads its until date.
EndOf(zl, changes, until) ==
  LET Ends(save) == OnClock(zl.untilDate.zone, until, zl.gmtoff, save)
      saves == {changes[n].save : n \in DOMAIN changes} \union {0}
  IN  Min({Ends(s) : s \in {s \in saves : SaveIn(changes, Ends(s) - 1) = s}})

StretchOf(zl, changes) ==
  [gmtoff |-> zl.gmtoff, changes |-> changes,
   end |-> EndOf(zl, changes, Nominal(zl.untilDate, zl.untilYear))]

\* A zonelet and its changes.
Stretch(lines, zl) ==
  StretchOf(zl, IF zl.tag = "has_rule" THEN Changeover(InOrder(Changes(lines)), zl.gmtoff)
                ELSE <<[at |-> SysMin, save |-> zl.save]>>)

OffsetAt(t) ==
  LET z == Min({n \in DOMAIN timeline : t < timeline[n].end})
  IN  timeline[z].gmtoff + SaveIn(timeline[z].changes, t)

-----------------------------------------------------------------------------
Init ==
  /\ case \in DOMAIN Cases
  /\ phase = "split"
  /\ rules = SortRules(setting.rules)
  /\ i = 1
  /\ k = 2
  /\ zone = <<>>
  /\ day = NewYear(setting.year)
  /\ tod = Min(setting.ticks)
  /\ today = StartDate
  /\ dow = (day + 4) % 7
  /\ timeline = [z \in DOMAIN setting.zonelets |->
                   Stretch(setting.rules, setting.zonelets[z])]

SplitPair ==
  /\ phase = "split"
  /\ k <= Len(rules)
  /\ IF RuleOverlaps(rules[i], rules[k])
     THEN rules' = SplitAndSort(rules, i, k)
     ELSE rules' = rules
  /\ k' = k + 1
  /\ UNCHANGED <<case, timeline, phase, i, zone, clock>>

NextRule ==
  /\ phase = "split"
  /\ i < Len(rules)
  /\ k > Len(rules)
  /\ i' = i + 1
  /\ k' = i + 2
  /\ UNCHANGED <<case, timeline, phase, rules, zone, clock>>

EndSplit ==
  /\ phase = "split"
  /\ i >= Len(rules)
  /\ phase' = "run"
  /\ rules' = CanonicalRules(rules)
  /\ zone' = AdjustInfos(rules', setting.zonelets)
  /\ UNCHANGED <<case, timeline, i, k, clock>>

\* Time goes on to the next of the case's ticks, today or on the next day.
Tick ==
  /\ phase = "run"
  /\ LET later == {t \in setting.ticks : t > tod}
     IN  IF later # {}
         THEN tod' = Min(later) /\ UNCHANGED <<day, today, dow>>
         ELSE /\ day + 1 < NewYear(setting.year) + setting.days
              /\ day' = day + 1
              /\ tod' = Min(setting.ticks)
              /\ today' = Tomorrow(today)
              /\ dow' = (dow + 1) % 7
  /\ UNCHANGED <<case, timeline, load>>

Next == SplitPair \/ NextRule \/ EndSplit \/ Tick

Spec == Init /\ [][Next]_vars

-----------------------------------------------------------------------------
(***************************************************************************)
(* The count of days and the date are the same day, both ways, in every     *)
(* era, and dates are ordered as the days are.  The time of the day comes   *)
(* apart into hours, minutes, seconds and tenths and together again, also   *)
(* when it is negative, and as hours of a twelve hour clock.                *)
(* (year_month_day::to_days, from_days, hh_mm_ss, make12, make24)           *)
(***************************************************************************)
DatesMeet ==
  LET start == NewYear(setting.year)
      t     == tod * 60 * TicksPerSecond + (day % 7)
  IN  /\ YmdOk(today) /\ DayOk(today.d)
      /\ YmdToDays(today) = day
      /\ YmdFromDays(day) = today
      /\ YmdLess(StartDate, today) <=> start < day
      /\ MonthDayOk(MonthDay(today.m, today.d))
      /\ today.y = setting.year =>
           (MonthDayLess(MonthDay(1, 1), MonthDay(today.m, today.d)) <=> start < day)
      /\ SlashYmd(today.y, MonthDay(today.m, DayPlus(today.d, DayMinus(1, today.d))))
           = YmdFromDays(day - today.d + 1)
      /\ HhMmSsInRange(HhMmSs(t))
      /\ \A u \in {t, -t} : HhMmSsToDuration(HhMmSs(u)) = u
      /\ LET h == HhMmSs(t).h
         IN  Make24(Make12(h), IsPm(h)) = h /\ (IsAm(h) <=> ~IsPm(h))

(***************************************************************************)
(* Weekdays follow the days, before 1970 as well.  A date written as the    *)
(* n-th weekday of its month is the same day; the last such weekday is in   *)
(* the month and a week later is not; a fifth one is valid exactly when it  *)
(* falls into the month.                                                    *)
(* (weekday_from_days, year_month_weekday, year_month_weekday_last)         *)
(***************************************************************************)
WeekdaysMeet ==
  LET x        == YmWeekdayFromDays(day)
      InMonth(n) == YmdFromDays(n).m = today.m
      Fifth(v) == SlashYmWeekday(today.y,
                                 MonthWeekday(today.m, WeekdayIndexed(v, 5)))
      LastIn(v)  == YmWeekdayLastToDays(
                    SlashYmWeekdayLast(today.y,
                                       MonthWeekdayLast(today.m, WeekdayLast(v))))
  IN  /\ WeekdayFromDays(day) = dow
      /\ x.wdi.wd = dow /\ YmWeekdayOk(x) /\ YmWeekdayToDays(x) = day
      /\ MonthWeekdayOk(MonthWeekday(today.m, x.wdi))
      /\ IsoEncoding(dow) \in 1..7 /\ Weekday(IsoEncoding(dow)) = dow
      /\ \A v \in 0..6 :
           /\ WeekdayPlus(dow, WeekdayMinus(v, dow)) = v
           /\ WeekdayFromDays(day + WeekdayMinus(v, dow)) = v
           /\ WeekdayMinus(v, dow) \in 0..6
           /\ YmWeekdayOk(Fifth(v)) <=> InMonth(YmWeekdayToDays(Fifth(v)))
           /\ MonthWeekdayLastOk(MonthWeekdayLast(today.m, WeekdayLast(v)))
           /\ YmWeekdayLastOk(YmWeekdayLast(today.y, today.m, WeekdayLast(v)))
           /\ WeekdayFromDays(LastIn(v)) = v
           /\ InMonth(LastIn(v)) /\ ~InMonth(LastIn(v) + 7)

(***************************************************************************)
(* Every way to name a day, by date, by weekday or by number, names the     *)
(* same day; so do the ways to name a time of the day.                      *)
(* (the calendar types of date.h and their day counts)                      *)
(***************************************************************************)
DaysAddUp == DatesMeet /\ (NewDay => WeekdaysMeet)

Shifts == {-25, -13, -12, -11, -1, 0, 1, 2, 11, 12, 13, 25}

(***************************************************************************)
(* Adding months and taking them away again gives the date back, and the    *)
(* months between two dates are the months to add, across years, before     *)
(* year 0 and at the ends of the range of a year.  A day the new month does *)
(* not have makes the date invalid, and its count of days then is the       *)
(* overhang in the month after; the last day of a month stays the last day. *)
(* (operator+ and operator- of year_month, year_month_day and the others)   *)
(***************************************************************************)
MonthsRoundTrip ==
  NewDay =>
    LET ym     == YearMonth(today.y, today.m)
        anchor == YearMonth(setting.year, 1)
        wdi    == WeekdayIndexed(dow, ((today.d - 1) \div 7) + 1)
        eom    == SlashYmdLast(today.y, MonthDayLast(today.m))
        Inside(n) == today.y + ((today.m - 1 + n) \div 12) \in ValidYears
    IN  /\ YearMonthPlus(anchor, YearMonthMinus(ym, anchor)) = ym
        /\ YearMonthLess(anchor, ym) <=> YearMonthMinus(ym, anchor) > 0
        /\ MonthPlus(1, MonthMinus(today.m, 1)) = today.m
        /\ \A n \in Shifts :
             LET p == YmdPlus(today, n)
                 l == YmdLastPlus(eom, n)
             IN  /\ YmdPlus(p, -n) = today
                 /\ p.m = MonthPlus(today.m, n)
                 /\ MonthMinus(p.m, today.m) = n % 12
                 /\ n % 12 = 0 => /\ p = YmdPlusYears(today, n \div 12)
                                  /\ l = YmdLastPlusYears(eom, n \div 12)
                                  /\ YearMonth(p.y, p.m) = YearMonthPlusYears(ym, n \div 12)
                 /\ YearMonthOk(YearMonth(p.y, p.m)) => YmdLastOk(l)
                 /\ Inside(n) =>
                      /\ YearMonthMinus(YearMonth(p.y, p.m), ym) = n
                      /\ YmdLess(today, p) <=> n > 0
                      /\ YmdLastLess(eom, l) <=> n > 0
                      /\ YmdFromDays(YmdLastToDays(l)).m = p.m
                      /\ YmdFromDays(YmdLastToDays(l) + 1).d = 1
                      /\ YmdOk(p) => YmdFromDays(YmdToDays(p)) = p
                      /\ ~YmdOk(p) => YmdFromDays(YmdToDays(p)).d
                                        = p.d - YmdLastDay(YmdLast(p.y, MonthDayLast(p.m)))
                      /\ YmWeekdayPlus(YmWeekday(today.y, today.m, wdi), n).wdi = wdi
                      /\ YmWeekdayLastToDays(YmWeekdayLastPlus(
                           YmWeekdayLast(today.y, today.m, WeekdayLast(dow)), n))
                           \in YmdToDays(Ymd(p.y, p.m, 1))..YmdLastToDays(l)

(***************************************************************************)
(* Splitting the rules changes no year: at every step, the rules of a year  *)
(* are those the lines name for it; at the end no two rules overlap in part *)
(* of their years only.  The zone then has, at every moment, the offset of  *)
(* the time line of the lines, and says since when and until when: the      *)
(* answers for neighbouring moments do not contradict each other.           *)
(* (Rule::split, split_overlaps, find_rule, adjust_infos, get_info)         *)
(***************************************************************************)
ZoneTimeline ==
  /\ phase = "split" =>
       \A y \in UNION {YearsOf(setting.rules[n]) : n \in DOMAIN setting.rules} :
         /\ {<<rules[n].at, rules[n].save>> : n \in {n \in DOMAIN rules : y \in YearsOf(rules[n])}}
              = {<<setting.rules[n].at, setting.rules[n].save>>
                   : n \in {n \in DOMAIN setting.rules : y \in YearsOf(setting.rules[n])}}
         /\ i >= Len(rules) =>
              \A a, b \in DOMAIN rules :
                y \in YearsOf(rules[a]) \cap YearsOf(rules[b]) =>
                  YearsOf(rules[a]) = YearsOf(rules[b])
  /\ phase = "run" /\ setting.rules # <<>> =>
       \A info \in {GetInfo(rules, zone, now, "utc")} :
         /\ info.offset = OffsetAt(now)
         /\ ToLocal(rules, zone, now) = now + OffsetAt(now)
         /\ info.begin <= now /\ now < info.end
         /\ GetInfo(rules, zone, info.end - 1, "utc") = info
         /\ info.begin > SysMin =>
              GetInfo(rules, zone, info.begin - 1, "utc").end = info.begin

Offsets == {setting.zonelets[z].gmtoff + s : z \in DOMAIN setting.zonelets,
              s \in {0} \union {setting.rules[n].save : n \in DOMAIN setting.rules}
                        \union {setting.zonelets[z2].save : z2 \in DOMAIN setting.zonelets}}

\* info is what the library makes of loc, moments are those that read loc.
Resolves(loc, info, moments) ==
  LET Sys(choose) == ToSys(info, loc, choose)
  IN  /\ info.result = CASE moments = {} -> "nonexistent"
                         [] Cardinality(moments) = 1 -> "unique"
                         [] Cardinality(moments) = 2 -> "ambiguous"
      /\ moments # {} => Sys("earliest") = Min(moments) /\ Sys("latest") = Max(moments)
      /\ IF Cardinality(moments) = 1 THEN {ToSysUnique(info, loc)} = moments
         ELSE ToSysUnique(info, loc) = Throws
      /\ moments = {} =>
           /\ Sys("earliest") = Sys("latest")
           /\ Sys("earliest") + OffsetAt(Sys("earliest") - 1) <= loc
           /\ loc < Sys("earliest") + OffsetAt(Sys("earliest"))

(***************************************************************************)
(* A local time is unique, ambiguous or nonexistent as one, two or no       *)
(* moments have it; the choice of the earliest or the latest gives that     *)
(* moment, and for a time that never was the moment of the change.          *)
(* (get_info(local_seconds), to_sys)                                        *)
(***************************************************************************)
LocalTimesResolve ==
  phase = "run" /\ setting.rules # <<>> =>
    LET loc == now + setting.zonelets[1].gmtoff
    IN  Resolves(loc, GetLocalInfo(rules, zone, loc),
                 {loc - o : o \in {o \in Offsets : OffsetAt(loc - o) = o}})

LeapTimes(c) == {LeapSecond(l[1], l[2]) : l \in c.leaps}

\* A date of a rule, and a line of the leap second file, which ends a day
IsMdt(at) ==
  /\ at.type \in {"month_day", "month_last_dow", "lteq", "gteq"}
  /\ at.m \in 1..12 /\ at.d \in 0..31 /\ at.wd \in 0..6
IsLeapLine(l) == IsMdt(l[1]) /\ l[1].t = MinutesPerDay /\ l[2] \in ValidYears

ASSUME LeapAssumption ==
  \A n \in DOMAIN Cases :
    /\ \A l \in Cases[n].leaps : IsLeapLine(l)
    /\ LeapTable(LeapTimes(Cases[n]))

Announced == {NamedDay(l[1], l[2]) + 1 : l \in setting.leaps}
UtcAt(st) == st + Second * Cardinality({n \in Announced : TicksOfDays(n) <= st})

\* What each clock shows at the tick ut of UTC, and the local time it reads as.
Shown(st, ut) ==
  [sys |-> st, utc |-> ut,
   tai |-> ut + 10 * Second - TicksOfDays(NewYear(1958)),
   gps |-> ut - 9 * Second - TicksOfDays(NewYear(1980) + 5)]
Read(st, ut) == [sys |-> st, utc |-> st, tai |-> ut + 10 * Second, gps |-> ut - 9 * Second]

\* counts: the clocks that have this tick for themselves
Agree(leaps, shown, read, counts) ==
  /\ \A d \in DOMAIN shown : \A s \in counts : ClockCast(leaps, d, s, shown[s]) = shown[d]
  /\ \A c \in DOMAIN shown : ClockCast(leaps, "local", c, shown[c]) = read[c]
  /\ \A c \in (counts \ {"utc"}) \union {"sys"} :
       ClockCast(leaps, c, "local", read[c]) = shown[c]
  /\ \A c \in DOMAIN shown \ {"sys"} : ToSysTime(leaps, c, shown[c]) = shown.sys
  /\ \A c \in counts \ {"utc"} : ToUtcTime(leaps, c, shown[c]) = shown.utc
  /\ \A c \in counts \ {"tai"} : ToTaiTime(leaps, c, shown[c]) = shown.tai
  /\ \A c \in counts \ {"gps"} : ToGpsTime(leaps, c, shown[c]) = shown.gps

(***************************************************************************)
(* UTC goes through every tick of a leap second and no other clock misses   *)
(* or repeats one of them: system time stands still in it and nowhere else, *)
(* TAI and GPS go on, and a time taken from one clock to another, by        *)
(* whatever way, is what that clock shows.                                  *)
(* (utc_clock, tai_clock, gps_clock, clock_cast of tz.h)                    *)
(***************************************************************************)
ClocksAgree ==
  phase = "run" /\ setting.leaps # {} =>
    LET leaps == LeapTimes(setting)
        mark  == now * 60 * Second
    IN  \A st \in mark - 5 .. mark + 5 :
          /\ UtcFromSys(leaps, st) = UtcAt(st)
          /\ \A ut \in UtcAt(st) .. UtcAt(st + 1) - 1 :
               /\ IsLeapSecond(leaps, ut).leap <=> ut # UtcAt(st)
               /\ Agree(leaps, Shown(st, ut), Read(st, ut),
                        {"utc", "tai", "gps"} \union (IF ut = UtcAt(st) THEN {"sys"} ELSE {}))
=============================================================================
