------------------------------ MODULE ZoneRules ------------------------------
(***************************************************************************)
(* Time zones as the date library builds them from the text of the IANA     *)
(* database (src/ThirdParty/date/tz.cpp with USE_OS_TZDB 0): the dates of   *)
(* rules, the splitting of overlapping rules, the walk from rule to rule,   *)
(* the pieces of a zone (zonelets) and the answers get_info and to_sys.     *)
(*                                                                          *)
(* A time point is an integer, the minutes since 1970-01-01; offsets and    *)
(* savings are minutes too.  Rules have one name, as if the vector held     *)
(* those of one rule set; abbreviations, parsing of the text and the        *)
(* terminate() of a walk that leaves the set are left out.  A pointer to a  *)
(* rule with a year is a pair <<index, year>>, NoRule the null pointer.     *)
(*                                                                          *)
(* YearMax stands for year::max(), SysMin and SysMax for the first and the  *)
(* last time point: bounds, the code has 32767 and the days of -32767 and   *)
(* 32767.                                                                   *)
(***************************************************************************)
EXTENDS Calendar, LeapClocks, SequencesExt

CONSTANTS YearMax, SysMin, SysMax

ASSUME BoundsAssumption ==
  /\ YearMax \in Nat /\ SysMin \in Int /\ SysMax \in Int /\ SysMin < SysMax

MinutesPerDay == 1440

\* std::chrono::floor<days>: the build is C++17, which has it.
FloorDays(tp) == tp \div MinutesPerDay

-----------------------------------------------------------------------------
(***************************************************************************)
(* MonthDayTime: a time in a year not yet known.  type says how d and wd    *)
(* give the day, t is the time of day, zone the clock it is read on.        *)
(***************************************************************************)
Mdt(type, m, d, wd, t, zone) ==
  [type |-> type, m |-> m, d |-> d, wd |-> wd, t |-> t, zone |-> zone]

OnDate(ymd, t, zone) == Mdt("month_day", ymd.m, ymd.d, 0, t, zone)

MdtAt(tp, zone) ==
  OnDate(YmdFromDays(FloorDays(tp)), tp - FloorDays(tp) * MinutesPerDay, zone)

MdtDay(x) == IF x.type = "month_last_dow" THEN 31 ELSE x.d

\* The day of x when its date is the day md.
MdtDayFrom(x, md) ==
  CASE x.type = "month_day" -> md
    [] x.type = "lteq"      -> WeekdayOnOrBefore(md, x.wd)
    [] x.type = "gteq"      -> WeekdayOnOrAfter(md, x.wd)

MdtToSysDays(x, y) ==
  IF x.type = "month_last_dow"
  THEN YmWeekdayLastToDays(SlashYmWeekdayLast(y, MonthWeekdayLast(x.m, WeekdayLast(x.wd))))
  ELSE MdtDayFrom(x, YmdToDays(SlashYmd(y, MonthDay(x.m, x.d))))

MdtToTimePoint(x, y) == MdtToSysDays(x, y) * MinutesPerDay + x.t

MdtToSys(x, y, offset, save) ==
  MdtToTimePoint(x, y) - (CASE x.zone = "utc"      -> 0
                            [] x.zone = "standard" -> offset
                            [] x.zone = "local"    -> offset + save)

\* The year of the day is dropped: only month and day are stored.
MdtCanonicalize(x, y) ==
  IF x.type = "month_day" THEN x
  ELSE OnDate(YmdFromDays(MdtToSysDays(x, y)), x.t, x.zone)

\* A line of the leap second file: 23:59:60 is midnight here.
LeapSecond(x, y) == MdtToTimePoint(x, y) * 60 * Second

Sign(n) == IF n < 0 THEN -1 ELSE IF n = 0 THEN 0 ELSE 1

\* How far a time point of clock a is from one of clock b, on one clock.
ApartOn(a, b, diff, offset, prevSave) ==
  CASE a = "local"    -> diff - prevSave - (IF b = "utc" THEN offset ELSE 0)
    [] a = "standard" -> IF b = "local" THEN diff + prevSave ELSE diff - offset
    [] a = "utc"      -> IF b = "local" THEN diff + offset + prevSave ELSE diff + offset

\* Which of two times on the clocks a and b is first.
FirstOn(a, b, days, diff, offset, prevSave) ==
  CASE a = b -> Sign(diff)
    [] a # b /\ Abs(days) > 1 -> Sign(days)
    [] OTHER -> Sign(ApartOn(a, b, diff, offset, prevSave))

\* Which of x in year y and z in year zy is first, read on different clocks.
MdtCompare(x, y, z, zy, offset, prevSave) ==
  FirstOn(x.zone, z.zone, MdtToSysDays(x, y) - MdtToSysDays(z, zy),
          MdtToTimePoint(x, y) - MdtToTimePoint(z, zy), offset, prevSave)

-----------------------------------------------------------------------------
(***************************************************************************)
(* Rule: the date at, in every year from start to end.                      *)
(***************************************************************************)
Rule(r, start, end) == [r EXCEPT !.start = start, !.end = end]

RuleLess(a, b) ==
  LET Key(r) == <<r.start, r.at.m, r.end, MdtDay(r.at)>>
      first  == {n \in 1..4 : Key(a)[n] # Key(b)[n]}
  IN  \E n \in first : /\ \A k \in first : n <= k
                       /\ Key(a)[n] < Key(b)[n]

\* Called with a.start <= b.start.
RuleOverlaps(a, b) == b.start <= a.end /\ ~(a.start = b.start /\ a.end = b.end)

\* mutant: the last piece of the earlier rule is lost when it is cut in three
RuleSplit_NoTail(ri, rk) ==
  CASE ri.start = rk.start /\ rk.end < ri.end ->
         <<Rule(ri, ri.start, rk.end), <<rk, Rule(ri, rk.end + 1, ri.end)>>>>
    [] ri.start = rk.start /\ rk.end >= ri.end ->
         <<ri, <<Rule(rk, rk.start, ri.end), Rule(rk, ri.end + 1, rk.end)>>>>
    [] ri.start < rk.start ->
         <<Rule(ri, ri.start, rk.start - 1),
           CASE rk.end < ri.end -> <<Rule(ri, rk.start, rk.end), rk>>
             [] rk.end > ri.end -> <<Rule(ri, rk.start, ri.end),
                                     Rule(rk, rk.start, ri.end),
                                     Rule(rk, ri.end + 1, rk.end)>>
             [] rk.end = ri.end -> <<Rule(ri, rk.start, ri.end), rk>>>>

\* What becomes of two overlapping rules: <<new rules[i], pieces for rules[k]>>.
RuleSplit(ri, rk) ==
  CASE ri.start = rk.start /\ rk.end < ri.end ->
         <<Rule(ri, ri.start, rk.end), <<rk, Rule(ri, rk.end + 1, ri.end)>>>>
    [] ri.start = rk.start /\ rk.end >= ri.end ->
         <<ri, <<Rule(rk, rk.start, ri.end), Rule(rk, ri.end + 1, rk.end)>>>>
    [] ri.start < rk.start ->
         <<Rule(ri, ri.start, rk.start - 1),
           CASE rk.end < ri.end -> <<Rule(ri, rk.start, rk.end), rk,
                                     Rule(ri, rk.end + 1, ri.end)>>
             [] rk.end > ri.end -> <<Rule(ri, rk.start, ri.end),
                                     Rule(rk, rk.start, ri.end),
                                     Rule(rk, ri.end + 1, rk.end)>>
             [] rk.end = ri.end -> <<Rule(ri, rk.start, ri.end), rk>>>>

\* std::sort, with the order of rules
SortRules(rules) == SortSeq(rules, RuleLess)

\* Step k of the loop of split_overlaps: split, then sort from i on.
SplitAndSort(rules, i, k) ==
  LET new == RuleSplit(rules[i], rules[k])
  IN  SubSeq(rules, 1, i - 1)
        \o SortRules(<<new[1]>> \o SubSeq(rules, i + 1, k - 1) \o new[2]
                       \o SubSeq(rules, k + 1, Len(rules)))

CanonicalRules(rules) ==
  [j \in DOMAIN rules |->
     IF rules[j].start = rules[j].end
     THEN [rules[j] EXCEPT !.at = MdtCanonicalize(@, rules[j].start)]
     ELSE rules[j]]

-----------------------------------------------------------------------------
(* The walk over the rules, year by year. *)

NoRule == <<0, -32767>>
Positions == Nat \X Int
FirstRule(rules) == <<1, rules[1].start>>
SaveAt(rules, p) == IF p = NoRule THEN 0 ELSE rules[p[1]].save

\* The rules that apply in the same years as rules[r] stand side by side.
SameStart(rules, r) == {q \in DOMAIN rules : rules[q].start = rules[r].start}

FindNextRule(rules, p) ==
  LET r == p[1]  y == p[2]
  IN  CASE y = rules[r].end ->
             IF r = Len(rules) THEN NoRule
             ELSE <<r + 1, IF y = rules[r+1].end THEN y ELSE rules[r+1].start>>
        [] OTHER ->
             IF r = Len(rules) \/ rules[r].end < rules[r+1].end
             THEN <<Min(SameStart(rules, r)), y + 1>>
             ELSE <<r + 1, y>>

FindPreviousRule(rules, p) ==
  LET r == p[1]  y == p[2]
  IN  CASE y = rules[r].start ->
             <<r - 1, IF y = rules[r-1].start THEN y ELSE rules[r-1].end>>
        [] OTHER ->
             IF r = 1 \/ rules[r-1].start < rules[r].start
             THEN <<Max(SameStart(rules, r)), y - 1>>
             ELSE <<r - 1, y>>

\* find_rule_for_zone: the last rule before the end of a zonelet...
RuleBeforeUntil(rules, y, offset, mdt) ==
  LET find[prev \in Positions, p \in Positions] ==
        IF \/ p = NoRule
           \/ MdtCompare(mdt, y, rules[p[1]].at, p[2], offset, SaveAt(rules, prev)) <= 0
        THEN prev
        ELSE find[p, FindNextRule(rules, p)]
  IN  find[NoRule, FirstRule(rules)]

\* ... and the last one at or before its beginning, given on three clocks.
RuleAtBegin(rules, utc, std, loc) ==
  LET clock(at) == CASE at.zone = "utc" -> utc
                     [] at.zone = "standard" -> std
                     [] at.zone = "local" -> loc
      find[prev \in Positions, p \in Positions] ==
        IF \/ p = NoRule
           \/ clock(rules[p[1]].at) < MdtToTimePoint(rules[p[1]].at, p[2])
        THEN prev
        ELSE find[p, FindNextRule(rules, p)]
  IN  find[NoRule, FirstRule(rules)]

(***************************************************************************)
(* find_rule: the answer for time mdt of year y, among the rules from first *)
(* to last.  The savings found on the way are those mdt is read with.       *)
(***************************************************************************)
FindRule(rules, first, last, y, offset, mdt, initialSave) ==
  LET Sys(p, save) == MdtToSys(rules[p[1]].at, p[2], offset, save)
      Found(p) ==
        [begin |-> Sys(p, IF p = first THEN initialSave
                          ELSE SaveAt(rules, FindPreviousRule(rules, p))),
         end   |-> IF p = last THEN SysMax
                   ELSE Sys(FindNextRule(rules, p), SaveAt(rules, p)),
         save  |-> SaveAt(rules, p)]
      find[p \in Positions, save \in Int] ==
        LET order == Sign(MdtToSys(mdt, y, offset, save) - Sys(p, save))
        IN  IF order < 0 /\ p = first
            THEN [begin |-> SysMin, end |-> Sys(p, save), save |-> save]
            ELSE IF order <= 0 \/ p = last
            THEN Found(IF order < 0 THEN FindPreviousRule(rules, p) ELSE p)
            ELSE find[FindNextRule(rules, p), SaveAt(rules, p)]
  IN  IF first = NoRule
      THEN [begin |-> SysMin, end |-> SysMax, save |-> initialSave]
      ELSE find[first, initialSave]

-----------------------------------------------------------------------------
(***************************************************************************)
(* Zonelets: the pieces of a zone, each with an offset from UTC and either  *)
(* the rules, or a fixed saving, or neither, until a date.                  *)
(***************************************************************************)
Zonelet(gmtoff, tag, save, untilYear, untilDate) ==
  [gmtoff |-> gmtoff, tag |-> tag, save |-> save, untilYear |-> untilYear,
   untilDate |-> MdtCanonicalize(untilDate, untilYear)]

LastZonelet(gmtoff, tag, save) ==
  Zonelet(gmtoff, tag, save, YearMax, Mdt("month_day", 12, 31, 0, 0, "utc"))

LastRule(rules, z) ==
  IF z.tag = "has_rule" THEN RuleBeforeUntil(rules, z.untilYear, z.gmtoff, z.untilDate)
  ELSE NoRule

\* prev is <<the adjusted zonelet before z>> or <<>>.
BeginRule(rules, z, prev) ==
  IF z.tag = "has_rule" /\ prev # <<>>
  THEN RuleAtBegin(rules, prev[1].utc, prev[1].std, prev[1].loc)
  ELSE NoRule

Adjusted(rules, z, last, begin) ==
  LET finalSave == CASE z.tag = "has_save" -> z.save
                     [] z.tag = "has_rule" -> SaveAt(rules, last)
                     [] z.tag = "is_empty" -> 0
      utc   == MdtToSys(z.untilDate, z.untilYear, z.gmtoff, finalSave)
      first == IF begin # NoRule
               THEN IF begin # last THEN FindNextRule(rules, begin) ELSE NoRule
               ELSE IF last # NoRule THEN FirstRule(rules) ELSE NoRule
  IN  [z |-> z, utc |-> utc, std |-> utc + z.gmtoff,
       loc |-> utc + z.gmtoff + finalSave,
       initialSave |-> SaveAt(rules, begin), first |-> first,
       last |-> IF begin = last THEN NoRule ELSE last]

\* One turn of adjust_infos.
AdjustZonelet(rules, z, prev) ==
  Adjusted(rules, z, LastRule(rules, z), BeginRule(rules, z, prev))

AdjustInfos(rules, zonelets) ==
  LET adjusted[n \in 0..Len(zonelets)] ==
        IF n = 0 THEN <<>>
        ELSE LET before == adjusted[n-1]
             IN  before \o <<AdjustZonelet(rules, zonelets[n],
                                           IF n = 1 THEN <<>> ELSE <<before[n-1]>>)>>
  IN  adjusted[Len(zonelets)]

\* The answer of the rules r, kept within the zonelet a, which starts at begin.
Clipped(r, a, begin) ==
  [begin |-> IF r.begin < begin THEN begin ELSE r.begin,
   end |-> IF r.end > a.utc THEN a.utc ELSE r.end,
   offset |-> a.z.gmtoff + r.save]

ZoneletInfo(rules, a, begin, tp, clock) ==
  IF a.z.tag = "has_rule"
  THEN Clipped(FindRule(rules, a.first, a.last, YmdFromDays(FloorDays(tp)).y,
                        a.z.gmtoff, MdtAt(tp, clock), a.initialSave), a, begin)
  ELSE [begin |-> begin, end |-> a.utc,
        offset |-> a.z.gmtoff + (IF a.z.tag = "has_save" THEN a.z.save ELSE 0)]

\* get_info for a time read on the UTC clock or on the local clock.
GetInfo(rules, zone, tp, clock) ==
  LET i == Min({n \in DOMAIN zone :
                  tp < (IF clock = "utc" THEN zone[n].utc ELSE zone[n].loc)})
  IN  ZoneletInfo(rules, zone[i], IF i = 1 THEN SysMin ELSE zone[i-1].utc, tp, clock)

Unique(i) == [result |-> "unique", first |-> i, second |-> i]
Nonexistent(before, i) == [result |-> "nonexistent", first |-> before, second |-> i]

\* i after the local time tp, j after i
AmbiguousOrUnique(i, j, tp) ==
  IF i.end - (tp - i.offset) <= MinutesPerDay /\ tp - j.offset >= j.begin
  THEN [result |-> "ambiguous", first |-> i, second |-> j]
  ELSE Unique(i)

\* mutant: the hour that comes twice is taken for the one before the change
LocalInfo_NeverAmbiguous(rules, zone, tp, i) ==
  IF tp - i.offset < i.begin
  THEN Nonexistent(GetInfo(rules, zone, i.begin - 1, "utc"), i)
  ELSE Unique(i)

\* i is the answer for tp read on the local clock; second is meaningful unless
\* the result is unique.
LocalInfo(rules, zone, tp, i) ==
  IF tp - i.offset < i.begin
  THEN Nonexistent(GetInfo(rules, zone, i.begin - 1, "utc"), i)
  ELSE AmbiguousOrUnique(i, GetInfo(rules, zone, i.end, "utc"), tp)

GetLocalInfo(rules, zone, tp) ==
  LocalInfo(rules, zone, tp, GetInfo(rules, zone, tp, "local"))

\* to_sys of a local time with that answer, by a choice: never throws.
ToSys(i, tp, choose) ==
  CASE i.result = "nonexistent" -> i.first.end
    [] i.result = "ambiguous" /\ choose = "latest" -> tp - i.second.offset
    [] OTHER -> tp - i.first.offset

\* to_sys without one, which throws unless the local time is unique.
Throws == SysMin - 1
ToSysUnique(i, tp) == IF i.result # "unique" THEN Throws ELSE tp - i.first.offset

ToLocal(rules, zone, tp) == tp + GetInfo(rules, zone, tp, "utc").offset
=============================================================================
