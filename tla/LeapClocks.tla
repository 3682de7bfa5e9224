----------------------------- MODULE LeapClocks -----------------------------
(***************************************************************************)
(* The clocks of the date library (src/ThirdParty/date/tz.h): system time,  *)
(* which knows no leap seconds, UTC, which counts them, TAI and GPS time,   *)
(* and local time, which is a reading without a zone.                       *)
(*                                                                          *)
(* A time point is an integer, the ticks since the epoch of its clock; the  *)
(* library is a template over the tick, here it is half a second.  The leap *)
(* seconds that the database announces are a set of system times, those of  *)
(* the midnights they come before.                                          *)
(***************************************************************************)
EXTENDS Calendar, FiniteSets

Second == 2
TicksOfDays(n) == n * 86400 * Second

\* Leap seconds that is_leap_second can tell apart: between two of them there are
\* more seconds than there are leap seconds.
LeapTable(leaps) ==
  /\ IsFiniteSet(leaps)
  /\ leaps \subseteq Int
  /\ \A a, b \in leaps : a < b => b - a > (Cardinality(leaps) + 1) * Second

\* upper_bound: how many leap seconds are at or before t.
Passed(leaps, t) == Cardinality({l \in leaps : l <= t})

UtcFromSys(leaps, st) == st + Passed(leaps, st) * Second

\* mutant: the leap second that is yet to come is counted already
IsLeapSecond_Early(leaps, ut) ==
  LET ds   == Passed(leaps, ut)
      late == {l \in leaps : l <= ut /\ ut - ds * Second < l}
  IN  [leap |-> late # {} /\ \A l \in late : ut - ds * Second >= l - Second,
       ds |-> ds]

\* late holds the last leap second at or before ut when ds was too many.
IsLeapSecond(leaps, ut) ==
  LET ds   == Passed(leaps, ut)
      tp   == ut - ds * Second
      late == {l \in leaps : l <= ut /\ tp < l}
  IN  CASE late = {} -> [leap |-> FALSE, ds |-> ds]
        [] late # {} /\ (\A l \in late : tp >= l - Second) -> [leap |-> TRUE, ds |-> ds]
        [] OTHER -> [leap |-> FALSE, ds |-> ds - 1]

\* In a leap second, system time stands still at its last tick before.
UtcToSys(leaps, ut) ==
  LET ls == IsLeapSecond(leaps, ut)
      tp == ut - ls.ds * Second
  IN  IF ls.leap THEN (tp \div Second) * Second + Second - 1 ELSE tp

-----------------------------------------------------------------------------
(* TAI counts from 1958 and was ten seconds ahead of UTC in 1972; GPS time   *)
(* counts from the first Sunday of 1980.                                     *)

FirstOf(y) == YmdToDays(Ymd(y, 1, 1))
FirstSunday(y) == YmWeekdayToDays(YmWeekday(y, 1, WeekdayIndexed(0, 1)))

TaiEpoch == TicksOfDays(FirstOf(1970) - FirstOf(1958))
GpsEpoch == TicksOfDays(FirstSunday(1980) - FirstOf(1970))

TaiToUtc(t) == t - (TaiEpoch + 10 * Second)
TaiFromUtc(t) == t + (TaiEpoch + 10 * Second)
TaiToLocal(t) == t - TaiEpoch
TaiFromLocal(t) == t + TaiEpoch

GpsToUtc(t) == t + (GpsEpoch + 9 * Second)
GpsFromUtc(t) == t - (GpsEpoch + 9 * Second)
GpsToLocal(t) == t + GpsEpoch
GpsFromLocal(t) == t - GpsEpoch

-----------------------------------------------------------------------------
(***************************************************************************)
(* clock_cast: directly where there is a conversion, otherwise through UTC. *)
(***************************************************************************)
Converts(dst, src) == dst = src \/ {dst, src} \cap {"utc", "local"} # {}

FromUtc(leaps, dst, ut) ==
  CASE dst = "tai" -> TaiFromUtc(ut)
    [] dst = "gps" -> GpsFromUtc(ut)
    [] dst \in {"sys", "local"} -> UtcToSys(leaps, ut)

ToUtc(leaps, src, t) ==
  CASE src = "tai" -> TaiToUtc(t)
    [] src = "gps" -> GpsToUtc(t)
    [] src \in {"sys", "local"} -> UtcFromSys(leaps, t)

ToLocalTime(src, t) ==
  CASE src = "tai" -> TaiToLocal(t) [] src = "gps" -> GpsToLocal(t) [] src = "sys" -> t

FromLocalTime(dst, t) ==
  CASE dst = "tai" -> TaiFromLocal(t) [] dst = "gps" -> GpsFromLocal(t) [] dst = "sys" -> t

Convert(leaps, dst, src, t) ==
  CASE dst = src -> t
    [] dst # src /\ src = "utc" -> FromUtc(leaps, dst, t)
    [] dst # src /\ dst = "utc" -> ToUtc(leaps, src, t)
    [] dst = "local" /\ src \notin {"utc", "local"} -> ToLocalTime(src, t)
    [] src = "local" /\ dst \notin {"utc", "local"} -> FromLocalTime(dst, t)

ClockCast(leaps, dst, src, t) ==
  IF Converts(dst, src) THEN Convert(leaps, dst, src, t)
  ELSE FromUtc(leaps, dst, ToUtc(leaps, src, t))

\* The functions clock_cast replaces.
ToUtcTime(leaps, src, t) ==
  CASE src = "sys" -> UtcFromSys(leaps, t)
    [] src = "tai" -> TaiToUtc(t)
    [] src = "gps" -> GpsToUtc(t)
ToSysTime(leaps, src, t) ==
  UtcToSys(leaps, IF src = "utc" THEN t ELSE ToUtcTime(leaps, src, t))
ToTaiTime(leaps, src, t) ==
  TaiFromUtc(IF src = "utc" THEN t ELSE ToUtcTime(leaps, src, t))
ToGpsTime(leaps, src, t) ==
  GpsFromUtc(IF src = "utc" THEN t ELSE ToUtcTime(leaps, src, t))
=============================================================================
