------------------------- MODULE LeapClocks_proofs -------------------------
(***************************************************************************)
(* Theorems about LeapClocks, for every set of leap seconds that are far    *)
(* enough apart: more seconds between two of them than there are in all,    *)
(* one more added.  (is_leap_second corrects its first count by one at      *)
(* most, so it relies on that; the real ones are half a year apart.)        *)
(***************************************************************************)
EXTENDS LeapClocks, FiniteSetTheorems, TLAPS

-----------------------------------------------------------------------------
(* Counting leap seconds. *)

LEMMA LeapsAreTimes ==
  ASSUME NEW leaps, LeapTable(leaps)
  PROVE  \A l \in leaps : l \in Int
  BY DEF LeapTable

LEMMA PassedType ==
  ASSUME NEW leaps, LeapTable(leaps), NEW t \in Int
  PROVE  /\ IsFiniteSet({l \in leaps : l <= t})
         /\ Passed(leaps, t) \in Nat
         /\ Cardinality(leaps) \in Nat
         /\ Passed(leaps, t) <= Cardinality(leaps)
<1> DEFINE S == {l \in leaps : l <= t}
<1>1. IsFiniteSet(leaps)
  BY DEF LeapTable
<1>2. S \in SUBSET leaps
  OBVIOUS
<1>3. IsFiniteSet(S) /\ Cardinality(S) <= Cardinality(leaps)
  BY <1>1, <1>2, FS_Subset
<1>4. Cardinality(S) \in Nat /\ Cardinality(leaps) \in Nat
  BY <1>1, <1>3, FS_CardinalityType
<1>5. QED BY <1>3, <1>4 DEF Passed

LEMMA PassedGrows ==
  ASSUME NEW leaps, LeapTable(leaps), NEW s \in Int, NEW t \in Int, s <= t
  PROVE  Passed(leaps, s) <= Passed(leaps, t)
<1> DEFINE S == {l \in leaps : l <= s}
           T == {l \in leaps : l <= t}
<1>1. IsFiniteSet(T)
  BY PassedType
<1>2. S \in SUBSET T
  <2>1. \A l \in leaps : l <= s => l <= t
    BY LeapsAreTimes
  <2>2. QED BY <2>1
<1>3. Cardinality(S) <= Cardinality(T)
  BY <1>1, <1>2, FS_Subset
<1>4. QED BY <1>3 DEF Passed

\* No leap second in between: the count stays.
LEMMA PassedStays ==
  ASSUME NEW leaps, LeapTable(leaps), NEW s \in Int, NEW t \in Int, s <= t,
         \A l \in leaps : ~(s < l /\ l <= t)
  PROVE  Passed(leaps, t) = Passed(leaps, s)
<1>1. {l \in leaps : l <= t} = {l \in leaps : l <= s}
  <2>1. \A l \in leaps : l <= t <=> l <= s
    BY LeapsAreTimes
  <2>2. QED BY <2>1
<1>2. QED BY <1>1 DEF Passed

\* One leap second in between: the count goes up by one.
LEMMA PassedOneMore ==
  ASSUME NEW leaps, LeapTable(leaps), NEW s \in Int, NEW t \in Int, s <= t,
         NEW l \in leaps, s < l, l <= t,
         \A k \in leaps : s < k /\ k <= t => k = l
  PROVE  Passed(leaps, t) = Passed(leaps, s) + 1
<1> DEFINE S == {k \in leaps : k <= s}
           T == {k \in leaps : k <= t}
<1>1. T = S \cup {l} /\ l \notin S
  <2>1. \A k \in leaps : k <= t <=> (k <= s \/ k = l)
    BY LeapsAreTimes
  <2>2. ~(l <= s)
    BY LeapsAreTimes
  <2>3. QED BY <2>1, <2>2
<1>2. IsFiniteSet(S)
  BY PassedType
<1>3. Cardinality(S \cup {l}) = Cardinality(S) + 1
  BY <1>1, <1>2, FS_AddElement
<1>4. QED BY <1>1, <1>3 DEF Passed

-----------------------------------------------------------------------------
(* UTC and system time. *)

(***************************************************************************)
(* UTC goes on with system time, and never more slowly: no leap second is   *)
(* taken back.  (utc_clock::from_sys)                                       *)
(***************************************************************************)
THEOREM UtcGoesOn ==
  ASSUME NEW leaps, LeapTable(leaps), NEW s \in Int, NEW t \in Int, s <= t
  PROVE  UtcFromSys(leaps, t) - UtcFromSys(leaps, s) >= t - s
<1>1. Passed(leaps, s) \in Nat /\ Passed(leaps, t) \in Nat
  BY PassedType
<1>2. Passed(leaps, s) <= Passed(leaps, t)
  BY PassedGrows
<1>3. QED BY <1>1, <1>2 DEF UtcFromSys, Second

\* What IsLeapSecond finds at the UTC of a system time, no leap second near.
LEMMA FindsNone ==
  ASSUME NEW leaps, LeapTable(leaps), NEW st \in Int,
         NEW ut \in Int, ut = UtcFromSys(leaps, st),
         \A l \in leaps : ~(st < l /\ l <= ut)
  PROVE  IsLeapSecond(leaps, ut) = [leap |-> FALSE, ds |-> Passed(leaps, st)]
<1> DEFINE n == Passed(leaps, st)
<1>1. n \in Nat
  BY PassedType
<1>2. ut = st + n * Second /\ st <= ut
  BY <1>1 DEF UtcFromSys, Second
<1>3. Passed(leaps, ut) = n
  BY <1>2, PassedStays
<1> HIDE DEF n
<1>4. ut - n * Second = st
  BY <1>1, <1>2 DEF Second
<1>5. {l \in leaps : l <= ut /\ ut - n * Second < l} = {}
  BY <1>4
<1>6. QED BY <1>3, <1>5 DEF IsLeapSecond, n

\* The same when a leap second lies between the system time and its UTC.
LEMMA FindsOneTooMany ==
  ASSUME NEW leaps, LeapTable(leaps), NEW st \in Int,
         NEW ut \in Int, ut = UtcFromSys(leaps, st),
         NEW l \in leaps, st < l, l <= ut
  PROVE  IsLeapSecond(leaps, ut) = [leap |-> FALSE, ds |-> Passed(leaps, st)]
<1> DEFINE n == Passed(leaps, st)
           c == Cardinality(leaps)
<1>1. n \in Nat /\ c \in Nat /\ n <= c
  BY PassedType
<1>2. ut = st + n * Second /\ st <= ut
  BY <1>1 DEF UtcFromSys, Second
<1> HIDE DEF n, c
<1>3. l \in Int /\ leaps \subseteq Int
  BY DEF LeapTable
<1>4. \A k \in leaps : k > st - Second /\ k <= ut => k = l
  <2> SUFFICES ASSUME NEW k \in leaps, k > st - Second, k <= ut, k # l
               PROVE  FALSE
    OBVIOUS
  <2>1. k \in Int
    BY <1>3
  <2>2. /\ k < l => l - k > (c + 1) * Second
        /\ l < k => k - l > (c + 1) * Second
    BY DEF LeapTable, c
  <2>3. QED BY <1>1, <1>2, <1>3, <2>1, <2>2 DEF Second
<1>5. \A k \in leaps : st < k /\ k <= ut => k = l
  BY <1>3, <1>4 DEF Second
<1>6. Passed(leaps, ut) = n + 1
  BY <1>2, <1>5, PassedOneMore DEF n
<1>7. ut - (n + 1) * Second = st - Second
  BY <1>1, <1>2 DEF Second
<1>8. {k \in leaps : k <= ut /\ ut - (n + 1) * Second < k} = {l}
  <2>1. \A k \in leaps : (k <= ut /\ st - Second < k) <=> k = l
    BY <1>3, <1>4 DEF Second
  <2>2. QED BY <1>7, <2>1
<1>9. ~(\A k \in {l} : ut - (n + 1) * Second >= k - Second)
  BY <1>3, <1>7 DEF Second
<1>10. (n + 1) - 1 = n
  BY <1>1
<1>11. QED BY <1>6, <1>8, <1>9, <1>10 DEF IsLeapSecond, n

\* At the UTC of a system time there is no leap second, and the count is right.
LEMMA CountIsRight ==
  ASSUME NEW leaps, LeapTable(leaps), NEW st \in Int
  PROVE  /\ UtcFromSys(leaps, st) \in Int
         /\ IsLeapSecond(leaps, UtcFromSys(leaps, st))
              = [leap |-> FALSE, ds |-> Passed(leaps, st)]
<1> DEFINE ut == UtcFromSys(leaps, st)
<1>1. Passed(leaps, st) \in Nat
  BY PassedType
<1>2. ut \in Int
  BY <1>1 DEF UtcFromSys, Second
<1>3. CASE \A l \in leaps : ~(st < l /\ l <= ut)
  BY <1>2, <1>3, FindsNone
<1>4. CASE \E l \in leaps : st < l /\ l <= ut
  BY <1>2, <1>4, FindsOneTooMany
<1>5. QED BY <1>2, <1>3, <1>4

(***************************************************************************)
(* System time taken to UTC comes back, however many leap seconds there     *)
(* have been and however near the next one is.                              *)
(* (utc_clock::from_sys, is_leap_second, utc_clock::to_sys)                 *)
(***************************************************************************)
THEOREM SysComesBack ==
  ASSUME NEW leaps, LeapTable(leaps), NEW st \in Int
  PROVE  UtcToSys(leaps, UtcFromSys(leaps, st)) = st
<1> DEFINE ut == UtcFromSys(leaps, st)
           n  == Passed(leaps, st)
<1>1. n \in Nat
  BY PassedType
<1>2. ut = st + n * Second
  BY DEF UtcFromSys
<1>3. IsLeapSecond(leaps, ut) = [leap |-> FALSE, ds |-> n]
  BY CountIsRight
<1> HIDE DEF ut, n
<1>4. UtcToSys(leaps, ut) = ut - n * Second
  BY <1>3 DEF UtcToSys
<1>5. QED BY <1>1, <1>2, <1>4 DEF ut, Second

(***************************************************************************)
(* In the ticks of a leap second, system time is the last tick before it.   *)
(* (is_leap_second, utc_clock::to_sys)                                      *)
(***************************************************************************)
THEOREM SysStandsStill ==
  ASSUME NEW leaps, LeapTable(leaps), NEW l \in leaps, l % Second = 0,
         NEW ut \in Int, l + (Passed(leaps, l) - 1) * Second <= ut,
         ut < UtcFromSys(leaps, l)
  PROVE  IsLeapSecond(leaps, ut).leap /\ UtcToSys(leaps, ut) = l - 1
<1> DEFINE n == Passed(leaps, l)
           c == Cardinality(leaps)
<1>1. l \in Int /\ leaps \subseteq Int
  BY DEF LeapTable
<1>2. n \in Nat /\ c \in Nat /\ n <= c
  BY <1>1, PassedType
<1>3. n >= 1
  <2>1. Passed(leaps, l) # 0
    <3>1. IsFiniteSet({k \in leaps : k <= l}) /\ l \in {k \in leaps : k <= l}
      BY <1>1, PassedType
    <3>2. QED BY <3>1, FS_EmptySet DEF Passed
  <2>2. QED BY <1>2, <2>1
<1>4. l + (n - 1) * Second <= ut /\ ut < l + n * Second
  BY <1>2 DEF UtcFromSys
<1> HIDE DEF n, c
<1>5. l <= ut
  BY <1>1, <1>2, <1>3, <1>4 DEF Second
<1>6. \A k \in leaps : k > l - 2 * Second /\ k <= ut => k = l
  <2> SUFFICES ASSUME NEW k \in leaps, k > l - 2 * Second, k <= ut, k # l
               PROVE  FALSE
    BY <1>1
  <2>1. k \in Int
    BY <1>1
  <2>2. /\ k < l => l - k > (c + 1) * Second
        /\ l < k => k - l > (c + 1) * Second
    BY DEF LeapTable, c
  <2>3. QED BY <1>1, <1>2, <1>3, <1>4, <2>1, <2>2 DEF Second
<1>7. Passed(leaps, ut) = n
  <2>1. \A k \in leaps : ~(l < k /\ k <= ut)
    BY <1>1, <1>6 DEF Second
  <2>2. QED BY <1>1, <1>5, <2>1, PassedStays DEF n
<1>8. l - Second <= ut - n * Second /\ ut - n * Second < l
  BY <1>1, <1>2, <1>3, <1>4 DEF Second
<1>9. {k \in leaps : k <= ut /\ ut - n * Second < k} = {l}
  <2> DEFINE tp == ut - n * Second
  <2>1. tp \in Int /\ l - Second <= tp /\ tp < l
    BY <1>2, <1>8 DEF Second
  <2> HIDE DEF tp
  <2>2. \A k \in leaps : (k <= ut /\ tp < k) <=> k = l
    BY <1>1, <1>5, <1>6, <2>1 DEF Second
  <2>3. {k \in leaps : k <= ut /\ tp < k} = {l}
    BY <2>2
  <2>4. QED BY <2>3 DEF tp
<1>10. IsLeapSecond(leaps, ut) = [leap |-> TRUE, ds |-> n]
  BY <1>7, <1>8, <1>9 DEF IsLeapSecond
<1>11. UtcToSys(leaps, ut) = ((ut - n * Second) \div Second) * Second + Second - 1
  BY <1>10 DEF UtcToSys
<1>12. ((ut - n * Second) \div Second) * Second = l - Second
  <2> DEFINE tp == ut - n * Second
  <2>1. tp \in Int /\ l - 2 <= tp /\ tp < l
    BY <1>1, <1>2, <1>8 DEF Second
  <2> HIDE DEF tp
  <2>2. (tp \div 2) * 2 = l - 2
    BY <1>1, <2>1 DEF Second
  <2>3. QED BY <2>2 DEF tp, Second
<1>13. QED BY <1>1, <1>10, <1>11, <1>12 DEF Second

\* From one tick of system time to the next, UTC goes on by one tick, or by
\* those of a leap second more.
LEMMA NextTick ==
  ASSUME NEW leaps, LeapTable(leaps), NEW st \in Int
  PROVE  /\ UtcFromSys(leaps, st) \in Int
         /\ st + 1 \notin leaps => UtcFromSys(leaps, st + 1) = UtcFromSys(leaps, st) + 1
         /\ st + 1 \in leaps =>
              /\ UtcFromSys(leaps, st + 1) = UtcFromSys(leaps, st) + 1 + Second
              /\ Passed(leaps, st + 1) = Passed(leaps, st) + 1
<1> DEFINE n == Passed(leaps, st)
           n1 == Passed(leaps, st + 1)
<1>1. st + 1 \in Int /\ st <= st + 1 /\ n \in Nat
  <2>1. n \in Nat
    BY PassedType
  <2>2. QED BY <2>1
<1>2. \A k \in leaps : st < k /\ k <= st + 1 => k = st + 1
  BY LeapsAreTimes
<1>3. ASSUME st + 1 \notin leaps PROVE n1 = n
  <2>1. \A k \in leaps : ~(st < k /\ k <= st + 1)
    BY <1>2, <1>3
  <2>2. QED BY <1>1, <2>1, PassedStays
<1>4. ASSUME st + 1 \in leaps PROVE n1 = n + 1
  <2>1. st < st + 1 /\ st + 1 <= st + 1
    OBVIOUS
  <2>2. QED BY <1>1, <1>2, <1>4, <2>1, PassedOneMore
<1>5. UtcFromSys(leaps, st) = st + n * Second /\ UtcFromSys(leaps, st + 1) = st + 1 + n1 * Second
  BY DEF UtcFromSys
<1> HIDE DEF n, n1
<1>6. n1 = n => st + 1 + n1 * Second = st + n * Second + 1
  BY <1>1 DEF Second
<1>7. n1 = n + 1 => st + 1 + n1 * Second = st + n * Second + 1 + Second
  BY <1>1 DEF Second
<1>8. st + n * Second \in Int
  BY <1>1 DEF Second
<1>9. QED BY <1>3, <1>4, <1>5, <1>6, <1>7, <1>8 DEF n, n1

(***************************************************************************)
(* Between two ticks of system time, UTC goes through every tick; those     *)
(* after the first are of a leap second, and in all of them system time is  *)
(* the first of the two.  (is_leap_second, utc_clock::to_sys)               *)
(***************************************************************************)
THEOREM UtcTicks ==
  ASSUME NEW leaps, LeapTable(leaps), \A l \in leaps : l % Second = 0, NEW st \in Int,
         NEW ut \in UtcFromSys(leaps, st)..(UtcFromSys(leaps, st + 1) - 1)
  PROVE  /\ ut \in Int
         /\ IsLeapSecond(leaps, ut).leap <=> ut # UtcFromSys(leaps, st)
         /\ UtcToSys(leaps, ut) = st
<1> DEFINE u == UtcFromSys(leaps, st)
           u1 == UtcFromSys(leaps, st + 1)
           n == Passed(leaps, st)
<1>1. /\ u \in Int
      /\ st + 1 \notin leaps => u1 = u + 1
      /\ st + 1 \in leaps => u1 = u + 1 + Second /\ Passed(leaps, st + 1) = n + 1
  BY NextTick
<1>2. u1 \in Int
  BY <1>1 DEF Second
<1>3. ut \in Int /\ u <= ut /\ ut < u1
  <2> HIDE DEF u, u1
  <2>1. QED BY <1>1, <1>2 DEF u, u1
<1>4. u = st + n * Second /\ n \in Nat
  BY PassedType DEF UtcFromSys
<1>5. CASE ut = u
  <2>1. IsLeapSecond(leaps, u) = [leap |-> FALSE, ds |-> n] /\ UtcToSys(leaps, u) = st
    BY CountIsRight, SysComesBack
  <2>2. QED BY <1>3, <1>5, <2>1
<1>6. CASE ut # u
  <2> HIDE DEF u, u1, n
  <2>1. st + 1 \in leaps
    BY <1>1, <1>3, <1>6
  <2> DEFINE l == st + 1
             p == Passed(leaps, l)
  <2>2. l \in leaps /\ l % Second = 0 /\ p = n + 1
    BY <1>1, <2>1
  <2>3. ut < UtcFromSys(leaps, l)
    BY <1>3 DEF u1
  <2>4. l - 1 = st
    OBVIOUS
  <2> HIDE DEF p
  <2>5. l + (p - 1) * Second <= ut
    BY <1>3, <1>4, <1>6, <2>2 DEF Second
  <2> HIDE DEF l
  <2>6. l + (Passed(leaps, l) - 1) * Second <= ut
    BY <2>5 DEF p
  <2>7. IsLeapSecond(leaps, ut).leap /\ UtcToSys(leaps, ut) = l - 1
    BY <1>3, <2>2, <2>3, <2>6, SysStandsStill
  <2>8. QED BY <1>3, <1>6, <2>4, <2>7 DEF u
<1>7. QED BY <1>5, <1>6 DEF u

-----------------------------------------------------------------------------
(* TAI and GPS time. *)

LEMMA FloorDivType ==
  ASSUME NEW a \in Int, NEW b \in Nat, b > 0
  PROVE  FloorDiv(a, b) \in Int
<1>1. ASSUME NEW x \in Int PROVE CDiv(x, b) \in Int
  BY DEF CDiv
<1>2. QED BY <1>1 DEF FloorDiv

LEMMA DaysType ==
  ASSUME NEW x \in [y : Int, m : Int, d : Int]
  PROVE  YmdToDays(x) \in Int
<1> DEFINE y == x.y - (IF x.m <= February THEN 1 ELSE 0)
           mp  == IF x.m > 2 THEN x.m - 3 ELSE x.m + 9
           doy == (153 * mp + 2) \div 5 + x.d - 1
<1>1. y \in Int
  BY DEF February
<1>2. FloorDiv(y, 400) \in Int
  BY <1>1, FloorDivType
<1>3. doy \in Int
  <2>1. mp \in Int
    OBVIOUS
  <2>2. QED BY <2>1
<1>4. ASSUME NEW yoe \in Int, NEW n \in Int PROVE DayOfEra(yoe, n) \in Int
  BY DEF DayOfEra
<1>5. DayOfEra(y - FloorDiv(y, 400) * 400, doy) \in Int
  <2>1. y - FloorDiv(y, 400) * 400 \in Int
    BY <1>1, <1>2
  <2>2. QED BY <2>1, <1>3, <1>4
<1>6. DaysFromYear(y, doy) \in Int
  BY <1>2, <1>5 DEF DaysFromYear, DaysOfEra
<1>7. QED BY <1>6 DEF YmdToDays

LEMMA EpochTypes == TaiEpoch \in Int /\ GpsEpoch \in Int
<1>1. ASSUME NEW a \in Int, NEW b \in Int, NEW d \in Int
      PROVE  YmdToDays(Ymd(a, b, d)) \in Int
  <2>1. Ymd(a, b, d) \in [y : Int, m : Int, d : Int]
    BY DEF Ymd, Year, Month, Day, Short, UChar
  <2>2. QED BY <2>1, DaysType
<1>2. \A y \in Int : FirstOf(y) \in Int
  BY <1>1 DEF FirstOf
<1>3. ASSUME NEW z \in Int PROVE WeekdayFromDays(z) \in Int
  BY DEF WeekdayFromDays
<1>4. ASSUME NEW x \in Int, NEW y \in Int PROVE WeekdayMinus(x, y) \in Int
  <2>1. FloorDiv(x - y, 7) \in Int
    BY FloorDivType
  <2>2. QED BY <2>1 DEF WeekdayMinus
<1>5. ASSUME NEW y \in Int PROVE FirstSunday(y) \in Int
  <2>1. PICK w : w = YmWeekday(y, 1, WeekdayIndexed(0, 1))
    OBVIOUS
  <2>2. w.y \in Int /\ w.m \in Int /\ w.wdi.wd \in Int /\ w.wdi.index \in Int
    BY <2>1 DEF YmWeekday, Year, Month, Short, UChar, WeekdayIndexed
  <2>3. YmdToDays(Ymd(w.y, w.m, 1)) \in Int
    <3>1. w.y \in Int /\ w.m \in Int /\ 1 \in Int
      BY <2>2
    <3>2. QED BY <3>1, <1>1, Zenon
  <2>4. ASSUME NEW d \in Int PROVE WeekdayOnOrAfter(d, w.wdi.wd) \in Int
    <3>1. WeekdayMinus(w.wdi.wd, WeekdayFromDays(d)) \in Int
      BY <1>3, <1>4, <2>2
    <3>2. QED BY <3>1 DEF WeekdayOnOrAfter
  <2>5. YmWeekdayToDays(w) \in Int
    <3>1. WeekdayOnOrAfter(YmdToDays(Ymd(w.y, w.m, 1)), w.wdi.wd) \in Int
      BY <2>3, <2>4, Zenon
    <3>2. QED BY <3>1, <2>2 DEF YmWeekdayToDays
  <2>6. QED BY <2>1, <2>5 DEF FirstSunday
<1>6. QED BY <1>2, <1>5 DEF TaiEpoch, GpsEpoch, TicksOfDays, Second

(***************************************************************************)
(* System time cast to any of the clocks that count leap seconds, and cast  *)
(* back, is the same time.  (clock_cast)                                    *)
(***************************************************************************)
THEOREM CastsComeBack ==
  ASSUME NEW leaps, LeapTable(leaps), NEW st \in Int,
         NEW c \in {"utc", "tai", "gps"}
  PROVE  ClockCast(leaps, "sys", c, ClockCast(leaps, c, "sys", st)) = st
<1> DEFINE ut == UtcFromSys(leaps, st)
<1>1. ut \in Int
  <2>1. Passed(leaps, st) \in Nat
    BY PassedType
  <2>2. QED BY <2>1 DEF UtcFromSys, Second
<1>2. UtcToSys(leaps, ut) = st
  BY SysComesBack
<1>3. TaiToUtc(TaiFromUtc(ut)) = ut /\ GpsToUtc(GpsFromUtc(ut)) = ut
  <2> HIDE DEF ut
  <2>1. QED BY <1>1, EpochTypes DEF TaiToUtc, TaiFromUtc, GpsToUtc, GpsFromUtc, Second
<1>4. CASE c = "utc"
  <2>1. ClockCast(leaps, "utc", "sys", st) = ut
    BY DEF ClockCast, Converts, Convert, ToUtc
  <2>2. ClockCast(leaps, "sys", "utc", ut) = UtcToSys(leaps, ut)
    BY DEF ClockCast, Converts, Convert, FromUtc
  <2>3. QED BY <1>2, <1>4, <2>1, <2>2
<1>5. ASSUME NEW t PROVE ToUtc(leaps, "sys", t) = UtcFromSys(leaps, t)
  BY DEF ToUtc
<1>6. ASSUME NEW t PROVE FromUtc(leaps, "sys", t) = UtcToSys(leaps, t)
  BY DEF FromUtc
<1>7. CASE c = "tai"
  <2>1. ~Converts("tai", "sys") /\ ~Converts("sys", "tai")
    BY DEF Converts
  <2>2. ClockCast(leaps, "tai", "sys", st) = TaiFromUtc(ut)
    BY <1>5, <2>1 DEF ClockCast, FromUtc
  <2>3. \A t : ClockCast(leaps, "sys", "tai", t) = UtcToSys(leaps, TaiToUtc(t))
    BY <1>6, <2>1 DEF ClockCast, ToUtc
  <2>4. QED BY <1>2, <1>3, <1>7, <2>2, <2>3
<1>8. CASE c = "gps"
  <2>1. ~Converts("gps", "sys") /\ ~Converts("sys", "gps")
    BY DEF Converts
  <2>2. ClockCast(leaps, "gps", "sys", st) = GpsFromUtc(ut)
    BY <1>5, <2>1 DEF ClockCast, FromUtc
  <2>3. \A t : ClockCast(leaps, "sys", "gps", t) = UtcToSys(leaps, GpsToUtc(t))
    BY <1>6, <2>1 DEF ClockCast, ToUtc
  <2>4. QED BY <1>2, <1>3, <1>8, <2>2, <2>3
<1>9. QED BY <1>4, <1>7, <1>8
=============================================================================
