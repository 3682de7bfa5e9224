------------------------- MODULE WorldClock_proofs -------------------------
(***************************************************************************)
(* Theorems about WorldClock: the calendar of date.h agrees with the        *)
(* reference calendar in every year that Year can hold, for clocks set to   *)
(* any day and any time of the day.  A day is followed through the count of *)
(* days of a year that begins in January (NumberOf); what the library       *)
(* computes, in eras of years that begin in March, is shown to be the same. *)
(***************************************************************************)
EXTENDS WorldClock, LeapClocks_proofs, FunctionTheorems, WellFoundedInduction, TLAPS

-----------------------------------------------------------------------------
(* Years *)

\* FloorDiv rounds down, for the divisors the calendar uses.
LEMMA FloorIsDiv ==
  \A a \in Int : /\ FloorDiv(a, 400) = a \div 400
                 /\ FloorDiv(a, 146097) = a \div 146097
                 /\ FloorDiv(a, 12) = a \div 12
                 /\ FloorDiv(a, 7) = a \div 7
BY DEF FloorDiv, CDiv

\* The years between two leap years of four centuries
LEMMA YearLength ==
  ASSUME NEW y \in Int
  PROVE  /\ NewYear(y) \in Int
         /\ NewYear(y + 1) = NewYear(y) + (IF IsLeap(y) THEN 366 ELSE 365)
BY DEF NewYear, IsLeap

\* February has the leap day of its year.
LEMMA MonthLength ==
  ASSUME NEW y \in Int, NEW m \in Int
  PROVE  LengthOfMonth(y, m) = IF m = 2 THEN IF IsLeap(y) THEN 29 ELSE 28
                               ELSE IF m \in {4, 6, 9, 11} THEN 30 ELSE 31
BY YearLength DEF LengthOfMonth

\* The days of a year before a month
Before(y, m) ==
  IF m <= 2 THEN 31 * (m - 1)
  ELSE (IF IsLeap(y) THEN 60 ELSE 59) + (153 * (m - 3) + 2) \div 5

\* The count of days from 1970-01-01, by a year that begins in January
NumberOf(y, m, d) == NewYear(y) + Before(y, m) + d - 1

LEMMA NumberIsInt ==
  ASSUME NEW y \in Int, NEW m \in Int, NEW d \in Int
  PROVE  Before(y, m) \in Int /\ NumberOf(y, m, d) \in Int
BY YearLength DEF NumberOf, Before

\* A year that begins in March
LEMMA EraOfYear ==
  ASSUME NEW y \in Int, NEW doy \in Int
  PROVE  DaysFromYear(y, doy) = NewYear(y + 1) + doy - 306
<1> DEFINE e == y \div 400
           r == y - e * 400
<1>1. /\ e \in Int /\ r \in Int /\ y = 400 * e + r /\ 0 <= r /\ r <= 399
  BY SMT
<1>2. FloorDiv(y, 400) = e
  BY FloorIsDiv, SMT
<1>3. DaysFromYear(y, doy) = e * 146097 + (r * 365 + (r \div 4) - (r \div 100) + doy) - 719468
  <2> HIDE DEF e
  <2> QED  BY <1>2, SMT DEF DaysFromYear, DaysOfEra, DayOfEra
<1> HIDE DEF e, r
<1>4. /\ y \div 4 = 100 * e + (r \div 4)
      /\ y \div 100 = 4 * e + (r \div 100)
      /\ y \div 400 = e
  BY <1>1, SMT
<1>5. NewYear(y + 1) = 365 * (y - 1969) + ((y \div 4) - 492) - ((y \div 100) - 19) + ((y \div 400) - 4)
  <2>1. y + 1 - 1 = y /\ y + 1 - 1970 = y - 1969
    BY SMT
  <2> QED  BY <2>1, SMT DEF NewYear
<1>6. /\ y \div 4 \in Int /\ y \div 100 \in Int /\ y \div 400 \in Int
      /\ r \div 4 \in Int /\ r \div 100 \in Int
  BY <1>1, SMT
<1> DEFINE n == NewYear(y + 1)  f == DaysFromYear(y, doy)
           q4 == r \div 4  q100 == r \div 100
<1>7. n = 365 * (y - 1969) + (100 * e + q4 - 492) - (4 * e + q100 - 19) + (e - 4)
  <2> DEFINE a == y \div 4  b == y \div 100  c == y \div 400
  <2>1. a = 100 * e + q4 /\ b = 4 * e + q100 /\ c = e
    BY <1>4
  <2>2. n = 365 * (y - 1969) + (a - 492) - (b - 19) + (c - 4)
    BY <1>5
  <2>3. q4 \in Int /\ q100 \in Int
    BY <1>6
  <2> HIDE DEF n, q4, q100, a, b, c
  <2> QED  BY <1>1, <2>1, <2>2, <2>3, SMT
<1>8. f = e * 146097 + (r * 365 + q4 - q100 + doy) - 719468
  BY <1>3
<1>9. q4 \in Int /\ q100 \in Int
  BY <1>6
<1> HIDE DEF n, f, q4, q100
<1>10. f = n + doy - 306
  BY <1>1, <1>7, <1>8, <1>9, SMT
<1> QED  BY <1>10 DEF n, f

\* The count of days of the library is the count from January.
LEMMA ToDays ==
  ASSUME NEW y \in Int, NEW m \in Int, NEW d \in Int, m >= 1, m <= 12
  PROVE  YmdToDays([y |-> y, m |-> m, d |-> d]) = NumberOf(y, m, d)
<1> DEFINE n == YmdToDays([y |-> y, m |-> m, d |-> d])
<1>1. CASE m <= 2
  <2> DEFINE doy == (153 * (m + 9) + 2) \div 5 + d - 1
  <2>1. n = DaysFromYear(y - 1, doy)
    BY <1>1 DEF YmdToDays, February
  <2>2. doy \in Int /\ doy = 306 + 31 * (m - 1) + d - 1
    BY <1>1, SMT
  <2> HIDE DEF doy
  <2>3. y - 1 \in Int /\ y - 1 + 1 = y /\ NewYear(y) \in Int
    BY YearLength
  <2>4. DaysFromYear(y - 1, doy) = NewYear(y - 1 + 1) + doy - 306
    BY <2>2, <2>3, EraOfYear
  <2>5. n = NewYear(y) + doy - 306
    BY <2>1, <2>3, <2>4, Zenon
  <2> HIDE DEF n
  <2>6. n = NewYear(y) + 31 * (m - 1) + d - 1
    BY <2>2, <2>3, <2>5, SMT
  <2> QED  BY <1>1, <2>6 DEF n, NumberOf, Before
<1>2. CASE m > 2
  <2> DEFINE doy == (153 * (m - 3) + 2) \div 5 + d - 1
             last == IF IsLeap(y) THEN 366 ELSE 365
  <2>1. n = DaysFromYear(y, doy)
    BY <1>2 DEF YmdToDays, February
  <2>2. doy \in Int /\ doy = (153 * (m - 3) + 2) \div 5 + d - 1
    BY <1>2, SMT
  <2>3. NewYear(y) \in Int /\ NewYear(y + 1) = NewYear(y) + last
    BY YearLength
  <2> HIDE DEF doy
  <2>4. DaysFromYear(y, doy) = NewYear(y + 1) + doy - 306
    BY <2>2, EraOfYear
  <2>5. n = NewYear(y) + last + doy - 306
    <3> DEFINE b == NewYear(y)  c == NewYear(y + 1)  f == DaysFromYear(y, doy)
    <3>1. n = f /\ c = b + last /\ f = c + doy - 306
      BY <2>1, <2>3, <2>4
    <3> HIDE DEF n, last, b, c, f
    <3> QED  BY <3>1, SMT DEF b
  <2> HIDE DEF n
  <2>6. n = NewYear(y) + ((IF IsLeap(y) THEN 60 ELSE 59) + (153 * (m - 3) + 2) \div 5) + d - 1
    BY <2>2, <2>3, <2>5, SMT
  <2> QED  BY <1>2, <2>6 DEF n, NumberOf, Before
<1> QED  BY <1>1, <1>2

\* YearOfEra finds the year, from every day of an era of 400 years.
LEMMA YearOfDay ==
  ASSUME NEW r \in Int, r >= 0, r <= 399, NEW doy \in Int, doy >= 0, doy <= 365,
         doy = 365 => IsLeap(r + 1)
  PROVE  /\ YearOfEra(DayOfEra(r, doy)) = r
         /\ DayOfEra(r, doy) \in Int /\ DayOfEra(r, doy) >= 0 /\ DayOfEra(r, doy) <= 146096
<1> DEFINE c == r \div 100
           q == (r - 100 * c) \div 4
           s == r - 100 * c - 4 * q
           n == 36524 * c + 1461 * q + 365 * s + doy
<1>1. /\ c \in Int /\ q \in Int /\ s \in Int /\ r = 100 * c + 4 * q + s
      /\ c >= 0 /\ c <= 3 /\ q >= 0 /\ q <= 24 /\ s >= 0 /\ s <= 3
  BY SMT
<1>2. r \div 4 = 25 * c + q /\ r \div 100 = c
  BY SMT
<1>3. doy = 365 => s = 3 /\ (q = 24 => c = 3)
  BY SMT DEF IsLeap
<1>4. DayOfEra(r, doy) = n
  <2> HIDE DEF c, q, s
  <2>1. n = r * 365 + (25 * c + q) - c + doy
    BY <1>1, SMT
  <2> HIDE DEF n
  <2> QED  BY <1>2, <2>1 DEF DayOfEra
<1> HIDE DEF c, q, s
<1>5. n \in Int /\ n >= 0 /\ n <= 146096
  BY <1>1, <1>3, SMT
<1>6. YearOfEra(n) = r
  <2>1. CASE c = 0  BY <1>1, <1>3, <2>1, SMT DEF YearOfEra
  <2>2. CASE c = 1  BY <1>1, <1>3, <2>2, SMT DEF YearOfEra
  <2>3. CASE c = 2  BY <1>1, <1>3, <2>3, SMT DEF YearOfEra
  <2>4. CASE c = 3  BY <1>1, <1>3, <2>4, SMT DEF YearOfEra
  <2> QED  BY <1>1, <2>1, <2>2, <2>3, <2>4, SMT
<1> HIDE DEF n
<1> QED  BY <1>4, <1>5, <1>6

\* Year r of era e
IsYearOfEra(y, e, r) ==
  /\ e \in Int /\ r \in Int /\ e = y \div 400 /\ y = 400 * e + r /\ r >= 0 /\ r <= 399
  /\ \A n \in Int : IsLeap(r + n) <=> IsLeap(y + n)

\* Every year is a year of an era, with the same leap years around it.
LEMMA EraParts ==
  ASSUME NEW y \in Int
  PROVE  \E e, r \in Int : IsYearOfEra(y, e, r)
<1> DEFINE e == y \div 400
           r == y - 400 * e
<1>1. e \in Int /\ r \in Int /\ y = 400 * e + r /\ r >= 0 /\ r <= 399
  BY SMT
<1> HIDE DEF r
<1>2. ASSUME NEW n \in Int PROVE IsLeap(r + n) <=> IsLeap(y + n)
  <2> HIDE DEF e
  <2>1. /\ (y + n) % 4 = (r + n) % 4
        /\ (y + n) % 100 = (r + n) % 100
        /\ (y + n) % 400 = (r + n) % 400
    BY <1>1, SMT
  <2> QED  BY <2>1, ZenonT(60) DEF IsLeap
<1>3. e = y \div 400
  OBVIOUS
<1> HIDE DEF e
<1>4. IsYearOfEra(y, e, r)
  BY <1>1, <1>2, <1>3, SMT DEF IsYearOfEra
<1> QED  BY <1>1, <1>4

\* A day of a year that begins in March is taken apart as it was put together.
LEMMA FromEra ==
  ASSUME NEW y \in Int, NEW doy \in Int, doy >= 0, doy <= 365, doy = 365 => IsLeap(y + 1)
  PROVE  YmdFromDays(DaysFromYear(y, doy)) = YmdFromYear(y, doy)
<1>0. PICK e, r \in Int : IsYearOfEra(y, e, r)
  BY EraParts
<1>1. /\ e \in Int /\ r \in Int /\ e = y \div 400 /\ y = 400 * e + r /\ r >= 0 /\ r <= 399
      /\ \A n \in Int : IsLeap(r + n) <=> IsLeap(y + n)
  BY <1>0, SMT DEF IsYearOfEra
<1> DEFINE doe == DayOfEra(r, doy)
           dp  == DaysFromYear(y, doy)
<1>2. /\ doe \in Int /\ doe >= 0 /\ doe <= 146096
      /\ YearOfEra(doe) = r
  BY <1>1, YearOfDay
<1>3. dp = e * 146097 + doe - 719468
  <2>1. FloorDiv(y, 400) = e
    <3>1. FloorDiv(y, 400) = y \div 400
      BY FloorIsDiv, SMT
    <3> QED  BY <1>1, <3>1, SMT
  <2>2. y - e * 400 = r
    BY <1>1, SMT
  <2> QED  BY <2>1, <2>2 DEF DaysFromYear, DaysOfEra
<1>4. doe - (365 * r + (r \div 4) - (r \div 100)) = doy
  BY <1>1, SMT DEF DayOfEra
<1> HIDE DEF doe, dp
<1> DEFINE z == dp + 719468
           era == FloorDiv(z, 146097)
<1>5. z \in Int /\ z = e * 146097 + doe
  BY <1>1, <1>2, <1>3, SMT
<1> HIDE DEF z
<1>6. z \div 146097 = e
  BY <1>1, <1>2, <1>5, SMT
<1>7. era = e /\ z - e * 146097 = doe
  <2>1. era = z \div 146097
    BY <1>5, FloorIsDiv
  <2>2. z - e * 146097 = doe
    BY <1>1, <1>2, <1>5, SMT
  <2> QED  BY <1>6, <2>1, <2>2
<1> HIDE DEF era
<1>8. YmdFromDays(dp) = YmdFromEra(era, z - era * 146097, YearOfEra(z - era * 146097))
  BY DEF YmdFromDays, z, era
<1>9. YmdFromDays(dp) = YmdFromEra(e, doe, r)
  BY <1>2, <1>7, <1>8
<1>10. e * 400 + r = y
  BY <1>1, SMT
<1> QED  BY <1>4, <1>9, <1>10 DEF YmdFromEra, dp

\* A date of the reference calendar
IsDate(y, m, d) ==
  /\ y \in Int /\ m \in Int /\ d \in Int
  /\ m >= 1 /\ m <= 12 /\ d >= 1 /\ d <= LengthOfMonth(y, m)

\* The count of days of a date is that date.
LEMMA FromDays ==
  ASSUME NEW y, NEW m, NEW d, IsDate(y, m, d)
  PROVE  YmdFromDays(NumberOf(y, m, d)) = [y |-> Year(y), m |-> m, d |-> d]
<1> USE DEF IsDate
<1> DEFINE back == IF m <= 2 THEN 1 ELSE 0
           mp == IF m > 2 THEN m - 3 ELSE m + 9
           doy == (153 * mp + 2) \div 5 + d - 1
<1>1. /\ mp \in Int /\ mp >= 0 /\ mp <= 11 /\ doy \in Int /\ y - back \in Int
  BY SMT
<1>2. /\ doy >= 0 /\ doy <= 365
      /\ doy = 365 => IsLeap(y - back + 1)
      /\ (5 * doy + 2) \div 153 = mp
      /\ doy - ((153 * mp + 2) \div 5) + 1 = d
  <2> DEFINE leap == IsLeap(y)
  <2>1. d <= IF m = 2 THEN IF leap THEN 29 ELSE 28 ELSE IF m \in {4, 6, 9, 11} THEN 30 ELSE 31
    BY MonthLength
  <2>2. m = 2 => y - back + 1 = y
    BY SMT
  <2>3. m = 2 => (leap <=> IsLeap(y - back + 1))
    BY <2>2
  <2> HIDE DEF leap
  <2>4. d <= IF m = 2 THEN 29 ELSE IF m \in {4, 6, 9, 11} THEN 30 ELSE 31
    BY <2>1
  <2>5. /\ doy >= 0 /\ doy <= 365 /\ (doy = 365 => m = 2 /\ d = 29)
        /\ (5 * doy + 2) \div 153 = mp
        /\ doy - ((153 * mp + 2) \div 5) + 1 = d
    BY <2>4, SMT
  <2>6. doy = 365 => leap
    BY <2>1, <2>5
  <2> QED  BY <2>3, <2>5, <2>6
<1> HIDE DEF doy
<1>3. YmdToDays([y |-> y, m |-> m, d |-> d]) = DaysFromYear(y - back, doy)
  BY DEF doy, YmdToDays, February
<1>4. NumberOf(y, m, d) = DaysFromYear(y - back, doy)
  BY <1>3, ToDays
<1>5. YmdFromDays(NumberOf(y, m, d)) = YmdFromYear(y - back, doy)
  BY <1>1, <1>2, <1>4, FromEra
<1>6. YmdFromYear(y - back, doy) = Ymd(y, m, d)
  <2>1. (IF mp < 10 THEN mp + 3 ELSE mp - 9) = m
    BY SMT
  <2>2. y - back + (IF m <= 2 THEN 1 ELSE 0) = y
    BY SMT
  <2> HIDE DEF back, mp
  <2> QED  BY <1>2, <2>1, <2>2 DEF YmdFromYear
<1>7. d <= 31
  BY MonthLength
<1>8. Month(m) = m /\ Day(d) = d
  BY <1>7, SMT DEF Month, Day, UChar
<1> QED  BY <1>5, <1>6, <1>8 DEF Ymd

-----------------------------------------------------------------------------
(* The reference calendar *)

\* A year has at least 365 days.
LEMMA YearsGrow ==
  ASSUME NEW a \in Int, NEW b \in Int, a < b
  PROVE  NewYear(b) >= NewYear(a) + 365 * (b - a)
<1> DEFINE a4 == (a - 1) \div 4  a100 == (a - 1) \div 100  a400 == (a - 1) \div 400
           b4 == (b - 1) \div 4  b100 == (b - 1) \div 100  b400 == (b - 1) \div 400
<1>1. /\ a4 \in Int /\ a100 \in Int /\ a400 \in Int /\ b4 \in Int /\ b100 \in Int /\ b400 \in Int
      /\ a4 <= b4 /\ a100 <= b100 /\ a400 <= b400
  BY SMT
<1>2. /\ 25 * a100 <= a4 /\ a4 <= 25 * a100 + 24
      /\ 25 * b100 <= b4 /\ b4 <= 25 * b100 + 24
  BY SMT
<1>3. /\ NewYear(a) = 365 * (a - 1970) + (a4 - 492) - (a100 - 19) + (a400 - 4)
      /\ NewYear(b) = 365 * (b - 1970) + (b4 - 492) - (b100 - 19) + (b400 - 4)
  BY DEF NewYear
<1> HIDE DEF a4, a100, a400, b4, b100, b400
<1> QED  BY <1>1, <1>2, <1>3, SMT

LEMMA LengthBounds ==
  ASSUME NEW y \in Int, NEW m \in Int
  PROVE  LengthOfMonth(y, m) \in Int /\ LengthOfMonth(y, m) >= 28 /\ LengthOfMonth(y, m) <= 31
BY MonthLength

\* What a valid date is made of
LEMMA DateIs ==
  ASSUME NEW y, NEW m, NEW d, IsDate(y, m, d)
  PROVE  /\ y \in Int /\ m \in Int /\ m >= 1 /\ m <= 12 /\ m \in 1..12
         /\ d \in Int /\ d >= 1 /\ d <= 31 /\ d <= LengthOfMonth(y, m)
         /\ LengthOfMonth(y, m) \in Int /\ LengthOfMonth(y, m) >= 28 /\ LengthOfMonth(y, m) <= 31
<1> DEFINE l == LengthOfMonth(y, m)
<1>1. /\ y \in Int /\ m \in Int /\ m >= 1 /\ m <= 12
      /\ d \in Int /\ d >= 1 /\ d <= l
  BY DEF IsDate
<1>2. l \in Int /\ l >= 28 /\ l <= 31
  BY <1>1, LengthBounds
<1> HIDE DEF l
<1>3. d <= 31 /\ m \in 1..12
  BY <1>1, <1>2, SMT
<1> QED  BY <1>1, <1>2, <1>3 DEF l

\* The first of the next month
LEMMA MonthEnds ==
  ASSUME NEW y \in Int, NEW m \in Int, m >= 1, m <= 12
  PROVE  /\ m < 12 => NumberOf(y, m + 1, 1) = NumberOf(y, m, 1) + LengthOfMonth(y, m)
         /\ m = 12 => NumberOf(y + 1, 1, 1) = NumberOf(y, m, 1) + LengthOfMonth(y, m)
<1> DEFINE leap == IF IsLeap(y) THEN 1 ELSE 0
           n == NewYear(y)
           l == LengthOfMonth(y, m)
<1>1. /\ n \in Int /\ NewYear(y + 1) = n + 365 + leap
      /\ leap \in Int /\ l = IF m = 2 THEN 28 + leap
                             ELSE IF m \in {4, 6, 9, 11} THEN 30 ELSE 31
  <2>1. n \in Int /\ NewYear(y + 1) = n + (IF IsLeap(y) THEN 366 ELSE 365)
    BY YearLength
  <2>2. l = IF m = 2 THEN IF IsLeap(y) THEN 29 ELSE 28
            ELSE IF m \in {4, 6, 9, 11} THEN 30 ELSE 31
    BY MonthLength
  <2> HIDE DEF n, l
  <2> QED  BY <2>1, <2>2
<1>2. \A mm \in Int : NumberOf(y, mm, 1) = n + (IF mm <= 2 THEN 31 * (mm - 1)
                                              ELSE leap + 59 + (153 * (mm - 3) + 2) \div 5)
  BY <1>1 DEF NumberOf, Before
<1>3. NumberOf(y + 1, 1, 1) = NewYear(y + 1)
  BY YearLength DEF NumberOf, Before
<1> HIDE DEF leap, n, l
<1>4. CASE m < 12
  <2>1. m + 1 \in Int
    OBVIOUS
  <2> DEFINE p == NumberOf(y, m + 1, 1)  r == NumberOf(y, m, 1)
  <2>2. p = n + (IF m + 1 <= 2 THEN 31 * (m + 1 - 1) ELSE leap + 59 + (153 * (m + 1 - 3) + 2) \div 5)
    BY <1>2, <2>1
  <2>3. r = n + (IF m <= 2 THEN 31 * (m - 1) ELSE leap + 59 + (153 * (m - 3) + 2) \div 5)
    BY <1>2
  <2> HIDE DEF p, r
  <2>4. p = r + l
    BY <1>1, <1>4, <2>2, <2>3, SMT
  <2> QED  BY <1>4, <2>4 DEF p, r, l
<1>5. CASE m = 12
  <2> DEFINE p == NumberOf(y + 1, 1, 1)  r == NumberOf(y, m, 1)
  <2>1. p = n + 365 + leap
    BY <1>1, <1>3
  <2>2. r = n + leap + 59 + 275
    BY <1>1, <1>2, <1>5
  <2> HIDE DEF p, r
  <2>3. p = r + l
    BY <1>1, <1>5, <2>1, <2>2, SMT
  <2> QED  BY <1>5, <2>3 DEF p, r, l
<1> QED  BY <1>4, <1>5

LEMMA FirstIsInt ==
  ASSUME NEW y \in Int, NEW m \in Int
  PROVE  NumberOf(y, m, 1) \in Int
BY NumberIsInt

LEMMA DayInMonth ==
  ASSUME NEW y \in Int, NEW m \in Int, NEW d \in Int
  PROVE  NumberOf(y, m, d) = NumberOf(y, m, 1) + d - 1
<1>1. NewYear(y) \in Int /\ Before(y, m) \in Int
  BY YearLength, NumberIsInt
<1> QED  BY <1>1 DEF NumberOf

\* The reference calendar counts days.
LEMMA TomorrowIsNext ==
  ASSUME NEW y, NEW m, NEW d, IsDate(y, m, d)
  PROVE  \E y2, m2, d2 :
           /\ Tomorrow([y |-> y, m |-> m, d |-> d]) = [y |-> y2, m |-> m2, d |-> d2]
           /\ IsDate(y2, m2, d2)
           /\ NumberOf(y2, m2, d2) = NumberOf(y, m, d) + 1
           /\ y2 = y \/ (y2 = y + 1 /\ m2 = 1 /\ d2 = 1)
<1> USE DEF IsDate
<1> DEFINE l == LengthOfMonth(y, m)
           x == [y |-> y, m |-> m, d |-> d]
<1>0. /\ l \in Int /\ NumberOf(y, m, d) \in Int /\ NumberOf(y, m, 1) \in Int
      /\ NumberOf(y, m, d) = NumberOf(y, m, 1) + d - 1
  BY LengthBounds, NumberIsInt, DayInMonth
<1>1. CASE d < l
  <2>1. Tomorrow(x) = [y |-> y, m |-> m, d |-> d + 1]
    BY <1>1 DEF Tomorrow
  <2>2. IsDate(y, m, d + 1)
    BY <1>0, <1>1
  <2>3. NumberOf(y, m, d + 1) = NumberOf(y, m, 1) + (d + 1) - 1
    BY DayInMonth
  <2>4. NumberOf(y, m, d + 1) = NumberOf(y, m, d) + 1
    BY <1>0, <2>3
  <2> QED  BY <2>1, <2>2, <2>4
<1>2. CASE d = l /\ m < 12
  <2>1. Tomorrow(x) = [y |-> y, m |-> m + 1, d |-> 1]
    BY <1>0, <1>2 DEF Tomorrow
  <2>2. IsDate(y, m + 1, 1)
    <3> DEFINE m1 == m + 1
    <3>1. m1 \in Int /\ m1 >= 1 /\ m1 <= 12 /\ y \in Int
      BY <1>2
    <3> HIDE DEF m1
    <3>2. LengthOfMonth(y, m1) \in Int /\ LengthOfMonth(y, m1) >= 28
      BY <3>1, LengthBounds
    <3>3. IsDate(y, m1, 1)
      BY <3>1, <3>2
    <3> QED  BY <3>3 DEF m1
  <2>3. NumberOf(y, m + 1, 1) = NumberOf(y, m, d) + 1
    BY <1>0, <1>2, MonthEnds
  <2> QED  BY <2>1, <2>2, <2>3
<1>3. CASE d = l /\ m = 12
  <2>1. Tomorrow(x) = [y |-> y + 1, m |-> 1, d |-> 1]
    BY <1>0, <1>3 DEF Tomorrow
  <2>2. IsDate(y + 1, 1, 1)
    BY LengthBounds
  <2>3. NumberOf(y + 1, 1, 1) = NumberOf(y, m, d) + 1
    BY <1>0, <1>3, MonthEnds
  <2> QED  BY <2>1, <2>2, <2>3
<1>4. d < l \/ (d = l /\ m < 12) \/ (d = l /\ m = 12)
  BY <1>0
<1> QED  BY <1>1, <1>2, <1>3, <1>4, Zenon

LEMMA MinOfTicks ==
  ASSUME NEW S \in SUBSET Nat, S # {}
  PROVE  Min(S) \in S
<1> DEFINE R == OpToRel(<, Nat)
<1>0. IsWellFoundedOn(R, Nat)
  BY NatLessThanWellFounded
<1>1. PICK n \in S : \A m \in S : ~(<<m, n>> \in R)
  <2> HIDE DEF R
  <2> QED  BY <1>0, WFMin
<1>2. \A m \in S : n <= m
  <2> SUFFICES ASSUME NEW m \in S, m < n PROVE FALSE
    OBVIOUS
  <2>1. <<m, n>> \in R
    BY DEF OpToRel
  <2> HIDE DEF R
  <2> QED  BY <1>1, <2>1
<1> QED  BY <1>2 DEF Min

(***************************************************************************)
(* What holds of the clock: today is a date of the reference calendar, the  *)
(* day and the weekday are those of the date, and Year has not wrapped.     *)
(***************************************************************************)
ClockInv ==
  /\ case \in DOMAIN Cases
  /\ tod \in setting.ticks
  /\ today = [y |-> today.y, m |-> today.m, d |-> today.d]
  /\ IsDate(today.y, today.m, today.d)
  /\ today.y >= setting.year
  /\ day = NumberOf(today.y, today.m, today.d)
  /\ day < NewYear(YearEnd)
  /\ dow = (day + 4) % 7

LEMMA YearEndIsInt == YearEnd \in Int
BY SMT DEF YearEnd

LEMMA ValidYear ==
  ASSUME NEW y, y \in ValidYears
  PROVE  y \in Int /\ -YearEnd < y /\ y < YearEnd
BY YearEndIsInt, SMT DEF ValidYears

LEMMA SettingIs ==
  ASSUME case \in DOMAIN Cases
  PROVE  /\ setting.year \in Int /\ -YearEnd < setting.year /\ setting.year < YearEnd
         /\ setting.days \in Int
         /\ NewYear(setting.year) + setting.days <= NewYear(YearEnd)
         /\ setting.ticks # {} /\ \A t \in setting.ticks : t \in Nat /\ t < 1440
<1> DEFINE c == setting
<1>1. IsSetting(c)
  BY ClockAssumption DEF setting
<1> HIDE DEF c
<1>2. /\ c.year \in Int /\ -YearEnd < c.year /\ c.year < YearEnd
      /\ c.days \in Int
      /\ NewYear(c.year) + c.days <= NewYear(YearEnd)
  <2>1. /\ c.year \in ValidYears /\ c.days \in Int
        /\ NewYear(c.year) + c.days <= NewYear(YearEnd)
    BY <1>1, SMT DEF IsSetting
  <2>2. c.year \in Int /\ -YearEnd < c.year /\ c.year < YearEnd
    <3> DEFINE y == c.year
    <3>1. y \in ValidYears
      BY <2>1
    <3> HIDE DEF y
    <3>2. y \in Int /\ -YearEnd < y /\ y < YearEnd
      BY <3>1, ValidYear
    <3> QED  BY <3>2, SMT DEF y
  <2> QED  BY <2>1, <2>2, SMT
<1>3. c.ticks # {} /\ \A t \in c.ticks : t \in Nat /\ t < 1440
  BY <1>1, SMT DEF IsSetting, MinutesPerDay
<1> QED  BY <1>2, <1>3 DEF c

LEMMA InitClock == Init => ClockInv
<1> SUFFICES ASSUME Init PROVE ClockInv
  OBVIOUS
<1>1. case \in DOMAIN Cases /\ today = StartDate /\ day = NewYear(setting.year)
      /\ dow = (day + 4) % 7 /\ tod = Min(setting.ticks)
  BY DEF Init
<1>2. tod \in setting.ticks
  BY <1>1, SettingIs, MinOfTicks
<1>3. today.y = setting.year /\ today.m = 1 /\ today.d = 1
      /\ today = [y |-> today.y, m |-> today.m, d |-> today.d]
  BY <1>1 DEF StartDate
<1>4. IsDate(setting.year, 1, 1)
  <2>1. setting.year \in Int
    BY <1>1, SettingIs
  <2> DEFINE y == setting.year
  <2>2. y \in Int /\ 1 \in Int
    BY <2>1
  <2> HIDE DEF y
  <2>3. LengthOfMonth(y, 1) >= 28 /\ LengthOfMonth(y, 1) \in Int
    BY <2>2, LengthBounds
  <2>4. IsDate(y, 1, 1)
    BY <2>2, <2>3, SMT DEF IsDate
  <2> QED  BY <2>4 DEF y
<1>5. NumberOf(setting.year, 1, 1) = NewYear(setting.year)
  BY <1>1, SettingIs, YearLength DEF NumberOf, Before
<1>6. NewYear(setting.year) < NewYear(YearEnd)
  <2> DEFINE y == setting.year
  <2>1. y \in Int /\ y < YearEnd /\ YearEnd \in Int
    BY <1>1, SettingIs, YearEndIsInt
  <2> HIDE DEF y
  <2>2. NewYear(YearEnd) >= NewYear(y) + 365 * (YearEnd - y)
    BY <2>1, YearsGrow, SMT
  <2>3. NewYear(y) \in Int /\ NewYear(YearEnd) \in Int
    BY <2>1, YearLength, SMT
  <2>4. NewYear(y) < NewYear(YearEnd)
    BY <2>1, <2>2, <2>3, SMT
  <2> QED  BY <2>4 DEF y
<1>7. today.y >= setting.year
  BY <1>1, <1>3, SettingIs
<1> QED  BY <1>1, <1>2, <1>3, <1>4, <1>5, <1>6, <1>7 DEF ClockInv

LEMMA NextClock == ClockInv /\ [Next]_vars => ClockInv'
<1> SUFFICES ASSUME ClockInv, [Next]_vars PROVE ClockInv'
  OBVIOUS
<1>1. CASE UNCHANGED <<case, clock>>
  BY <1>1 DEF ClockInv, clock, setting
<1>2. CASE Tick
  <2> DEFINE later == {t \in setting.ticks : t > tod}
  <2>1. case' = case /\ setting' = setting
    BY <1>2 DEF Tick, setting
  <2>2. \A S \in SUBSET setting.ticks : S # {} => Min(S) \in setting.ticks
    BY SettingIs, MinOfTicks DEF ClockInv
  <2>3. CASE later # {}
    BY <1>2, <2>1, <2>2, <2>3 DEF Tick, ClockInv
  <2>4. CASE later = {}
    <3>1. /\ day + 1 < NewYear(setting.year) + setting.days /\ day' = day + 1
          /\ tod' = Min(setting.ticks) /\ today' = Tomorrow(today) /\ dow' = (dow + 1) % 7
      BY <1>2, <2>4 DEF Tick
    <3>2. tod' \in setting.ticks
      BY <2>2, <3>1, SettingIs DEF ClockInv
    <3>3. PICK y2, m2, d2 :
             /\ today' = [y |-> y2, m |-> m2, d |-> d2]
             /\ IsDate(y2, m2, d2)
             /\ NumberOf(y2, m2, d2) = day + 1
             /\ y2 = today.y \/ (y2 = today.y + 1 /\ m2 = 1 /\ d2 = 1)
      <4> DEFINE x == [y |-> today.y, m |-> today.m, d |-> today.d]
      <4>1. /\ today = x /\ IsDate(today.y, today.m, today.d)
            /\ day = NumberOf(today.y, today.m, today.d)
        BY DEF ClockInv
      <4>2. \E y2, m2, d2 :
              /\ Tomorrow(x) = [y |-> y2, m |-> m2, d |-> d2]
              /\ IsDate(y2, m2, d2)
              /\ NumberOf(y2, m2, d2) = NumberOf(today.y, today.m, today.d) + 1
              /\ y2 = today.y \/ (y2 = today.y + 1 /\ m2 = 1 /\ d2 = 1)
        BY <4>1, TomorrowIsNext
      <4>3. today' = Tomorrow(x)
        BY <3>1, <4>1
      <4> HIDE DEF x
      <4> QED  BY <4>1, <4>2, <4>3
    <3>4. today'.y = y2 /\ today'.m = m2 /\ today'.d = d2
      BY <3>3
    <3>5. y2 >= setting.year
      BY <3>3, SettingIs DEF ClockInv, IsDate
    <3>6. day \in Int
      BY NumberIsInt DEF ClockInv, IsDate
    <3>7. day' < NewYear(YearEnd)
      <4>1. NewYear(YearEnd) \in Int /\ NewYear(setting.year) \in Int /\ setting.days \in Int
            /\ NewYear(setting.year) + setting.days <= NewYear(YearEnd)
        <5>1. setting.year \in Int /\ YearEnd \in Int
          BY SettingIs, YearEndIsInt DEF ClockInv
        <5> QED  BY <5>1, SettingIs, YearLength DEF ClockInv
      <4> QED  BY <3>1, <3>6, <4>1, SMT
    <3>8. dow' = (day' + 4) % 7
      <4>1. dow = (day + 4) % 7
        BY DEF ClockInv
      <4> QED  BY <3>1, <3>6, <4>1, SMT
    <3> QED  BY <2>1, <3>1, <3>2, <3>3, <3>4, <3>5, <3>7, <3>8 DEF ClockInv
  <2> QED  BY <2>3, <2>4
<1>3. Next \/ UNCHANGED vars => Tick \/ UNCHANGED <<case, clock>>
  BY DEF Next, SplitPair, NextRule, EndSplit, vars, clock
<1> QED  BY <1>1, <1>2, <1>3

(***************************************************************************)
(* The reference calendar of the clock counts days: date, day and weekday   *)
(* stay together however far the clock goes.                                *)
(***************************************************************************)
THEOREM Invariant == Spec => []ClockInv
  BY InitClock, NextClock, PTL DEF Spec

-----------------------------------------------------------------------------
(* Dates and days *)

\* A year in the range of `Year`
InRange(y) == y \in Int /\ -YearEnd <= y /\ y < YearEnd

LEMMA YearStays ==
  ASSUME NEW y, InRange(y)
  PROVE  Year(y) = y
BY SMT DEF InRange, YearEnd, Year, Short

LEMMA PartsStay ==
  ASSUME NEW n \in Int, n >= 0, n <= 255
  PROVE  Month(n) = n /\ Day(n) = n
BY SMT DEF Month, Day, UChar

LEMMA LastDay ==
  ASSUME NEW y, InRange(y), NEW m \in 1..12
  PROVE  YmdLastDay(YmdLast(y, MonthDayLast(m))) = LengthOfMonth(y, m)
<1> DEFINE x == YmdLast(y, MonthDayLast(m))
<1>1. x.y = y /\ x.mdl.m = m
  BY YearStays, PartsStay DEF YmdLast, MonthDayLast
<1>2. MonthDayLastOk(x.mdl)
  BY <1>1 DEF MonthDayLastOk, MonthOk
<1>3. y \in Int
  BY DEF InRange
<1> HIDE DEF x
<1>4. CASE m = 2
  <2>1. LengthOfMonth(y, m) = IF IsLeap(y) THEN 29 ELSE 28
    BY <1>3, <1>4, MonthLength
  <2>2. YmdLastDay(x) = IF IsLeap(y) THEN 29 ELSE 28
    BY <1>1, <1>2, <1>4 DEF YmdLastDay, February
  <2> QED  BY <2>1, <2>2 DEF x
<1>5. CASE m # 2
  <2>1. LengthOfMonth(y, m) = IF m \in {4, 6, 9, 11} THEN 30 ELSE 31
    BY <1>3, <1>5, MonthLength
  <2>2. YmdLastDay(x) = <<31, 28, 31, 30, 31, 30, 31, 31, 30, 31, 30, 31>>[m]
    BY <1>1, <1>2, <1>5 DEF YmdLastDay, February
  <2>3. <<31, 28, 31, 30, 31, 30, 31, 31, 30, 31, 30, 31>>[m] = IF m \in {4, 6, 9, 11} THEN 30 ELSE 31
    BY <1>5
  <2> QED  BY <2>1, <2>2, <2>3 DEF x
<1> QED  BY <1>4, <1>5

\* A date that the library can hold
IsYmd(x) ==
  /\ x = [y |-> x.y, m |-> x.m, d |-> x.d]
  /\ InRange(x.y) /\ YearOk(x.y)
  /\ IsDate(x.y, x.m, x.d)

\* The count of days of a date
Number(x) == NumberOf(x.y, x.m, x.d)

LEMMA YmdIs ==
  ASSUME NEW x, IsYmd(x)
  PROVE  /\ x = [y |-> x.y, m |-> x.m, d |-> x.d] /\ IsDate(x.y, x.m, x.d)
         /\ InRange(x.y) /\ YearOk(x.y)
         /\ x.y \in Int /\ x.m \in Int /\ x.m >= 1 /\ x.m <= 12 /\ x.m \in 1..12
         /\ x.d \in Int /\ x.d >= 1 /\ x.d <= 31 /\ x.d <= LengthOfMonth(x.y, x.m)
         /\ LengthOfMonth(x.y, x.m) \in Int /\ LengthOfMonth(x.y, x.m) >= 28
         /\ LengthOfMonth(x.y, x.m) <= 31
<1>1. /\ x = [y |-> x.y, m |-> x.m, d |-> x.d] /\ IsDate(x.y, x.m, x.d)
      /\ InRange(x.y) /\ YearOk(x.y)
  BY DEF IsYmd
<1> DEFINE y == x.y  m == x.m  d == x.d
<1>2. IsDate(y, m, d)
  BY <1>1
<1> HIDE DEF y, m, d
<1>3. /\ y \in Int /\ m \in Int /\ m >= 1 /\ m <= 12 /\ m \in 1..12
      /\ d \in Int /\ d >= 1 /\ d <= 31 /\ d <= LengthOfMonth(y, m)
      /\ LengthOfMonth(y, m) \in Int /\ LengthOfMonth(y, m) >= 28
      /\ LengthOfMonth(y, m) <= 31
  BY <1>2, DateIs
<1> QED  BY <1>1, <1>3 DEF y, m, d

\* Every valid date is a day, and the day is that date.
LEMMA DateAndDay ==
  ASSUME NEW x, IsYmd(x)
  PROVE  /\ YmdOk(x) /\ DayOk(x.d) /\ MonthOk(x.m)
         /\ YmdToDays(x) = Number(x)
         /\ YmdFromDays(Number(x)) = x
<1> USE DEF IsYmd, IsDate
<1>1. x.m \in 1..12 /\ x.d <= 31 /\ LengthOfMonth(x.y, x.m) \in Int
  BY LengthBounds
<1>2. YmdOk(x)
  <2>1. x.d \in 1..LengthOfMonth(x.y, x.m)
    BY <1>1
  <2> QED  BY <1>1, <2>1, LastDay, YearStays DEF YmdOk, MonthOk
<1>3. DayOk(x.d) /\ MonthOk(x.m)
  BY <1>1 DEF DayOk, MonthOk
<1>4. YmdToDays(x) = Number(x)
  BY ToDays DEF Number
<1>5. YmdFromDays(Number(x)) = x
  BY FromDays, YearStays DEF Number
<1> QED  BY <1>2, <1>3, <1>4, <1>5

\* A date is in its year; the first of January is its first day.
LEMMA OfYear ==
  ASSUME NEW y, NEW m, NEW d, IsDate(y, m, d)
  PROVE  /\ NumberOf(y, m, d) \in Int
         /\ NewYear(y) <= NumberOf(y, m, d) /\ NumberOf(y, m, d) < NewYear(y + 1)
         /\ NumberOf(y, m, d) = NewYear(y) <=> m = 1 /\ d = 1
<1> DEFINE leap == IF IsLeap(y) THEN 1 ELSE 0
           n == NumberOf(y, m, d)
           b == NewYear(y)
<1>1. /\ b \in Int /\ NewYear(y + 1) = b + 365 + leap /\ leap \in 0..1
      /\ d <= IF m = 2 THEN 28 + leap ELSE IF m \in {4, 6, 9, 11} THEN 30 ELSE 31
      /\ y \in Int /\ m \in 1..12 /\ d \in Int /\ d >= 1
  <2>1. b \in Int /\ NewYear(y + 1) = b + (IF IsLeap(y) THEN 366 ELSE 365)
    BY YearLength DEF IsDate
  <2>2. LengthOfMonth(y, m) = IF m = 2 THEN IF IsLeap(y) THEN 29 ELSE 28
                              ELSE IF m \in {4, 6, 9, 11} THEN 30 ELSE 31
    BY MonthLength DEF IsDate
  <2> HIDE DEF b
  <2> QED  BY <2>1, <2>2 DEF IsDate
<1>2. n = b + (IF m <= 2 THEN 31 * (m - 1) ELSE leap + 59 + (153 * (m - 3) + 2) \div 5) + d - 1
  BY <1>1 DEF NumberOf, Before
<1> HIDE DEF leap, n, b
<1>3. n \in Int /\ b <= n /\ n < b + 365 + leap /\ (n = b <=> m = 1 /\ d = 1)
  BY <1>1, <1>2, SMT
<1> QED  BY <1>1, <1>3 DEF n, b

\* What the invariant says of today
LEMMA TodayIs ==
  ASSUME ClockInv
  PROVE  /\ IsYmd(today) /\ day = Number(today) /\ day \in Int
         /\ IsDate(today.y, today.m, today.d)
         /\ setting.year \in Int /\ -YearEnd < setting.year /\ setting.year <= today.y
         /\ tod \in Nat /\ tod < 1440 /\ dow = (day + 4) % 7
<1> DEFINE y == today.y
<1>1. /\ IsDate(today.y, today.m, today.d) /\ day = NumberOf(today.y, today.m, today.d)
      /\ day < NewYear(YearEnd) /\ y \in Int
      /\ setting.year \in Int /\ -YearEnd < setting.year /\ setting.year <= y
      /\ tod \in Nat /\ tod < 1440 /\ dow = (day + 4) % 7
      /\ today = [y |-> today.y, m |-> today.m, d |-> today.d]
  BY SettingIs DEF ClockInv, IsDate
<1>2. NewYear(y) <= day /\ day \in Int
  BY <1>1, OfYear
<1> HIDE DEF y
<1>3. y < YearEnd
  <2>0. YearEnd \in Int
    BY YearEndIsInt
  <2> SUFFICES ASSUME ~(y < YearEnd) PROVE FALSE
    BY <1>1, SMT
  <2>1. NewYear(y) \in Int /\ NewYear(YearEnd) \in Int
    BY <1>1, <2>0, YearLength, SMT
  <2>2. CASE y = YearEnd
    BY <1>1, <1>2, <2>1, <2>2, SMT
  <2>3. CASE YearEnd < y
    <3>1. NewYear(y) >= NewYear(YearEnd) + 365 * (y - YearEnd)
      BY <1>1, <2>0, <2>3, YearsGrow, SMT
    <3> QED  BY <1>1, <1>2, <2>0, <2>1, <2>3, <3>1, SMT
  <2> QED  BY <1>1, <2>0, <2>2, <2>3, SMT
<1>4. InRange(y) /\ YearOk(y)
  BY <1>1, <1>3, SMT DEF InRange, YearOk, YearEnd
<1> QED  BY <1>1, <1>2, <1>4 DEF y, IsYmd, Number

LEMMA DateOrder ==
  ASSUME ClockInv
  PROVE  /\ YmdLess(StartDate, today) <=> NewYear(setting.year) < day
         /\ today.y = setting.year =>
              (MonthDayLess(MonthDay(1, 1), MonthDay(today.m, today.d))
                 <=> NewYear(setting.year) < day)
<1> DEFINE a == setting.year  y == today.y  m == today.m  d == today.d
<1>1. /\ IsDate(y, m, d) /\ day = NumberOf(y, m, d) /\ a \in Int /\ a <= y
      /\ y \in Int /\ m \in 1..12 /\ d \in Int /\ d >= 1 /\ d <= 31
  <2>1. IsDate(y, m, d) /\ day = NumberOf(y, m, d) /\ a \in Int /\ a <= y
    BY TodayIs DEF Number
  <2>2. /\ y \in Int /\ m \in Int /\ m >= 1 /\ m <= 12 /\ d \in Int /\ d >= 1
        /\ d <= LengthOfMonth(y, m)
    BY <2>1 DEF IsDate
  <2> HIDE DEF a, y, m, d
  <2>3. LengthOfMonth(y, m) \in Int /\ LengthOfMonth(y, m) <= 31
    BY <2>2, LengthBounds
  <2> QED  BY <2>1, <2>2, <2>3
<1>2. /\ day \in Int /\ NewYear(y) <= day /\ (day = NewYear(y) <=> m = 1 /\ d = 1)
  BY <1>1, OfYear
<1>3. NewYear(a) \in Int /\ NewYear(y) \in Int
  BY <1>1, YearLength
<1>4. a < y => NewYear(a) < NewYear(y)
  <2> SUFFICES ASSUME a < y PROVE NewYear(a) < NewYear(y)
    OBVIOUS
  <2> HIDE DEF a, y
  <2>1. NewYear(y) >= NewYear(a) + 365 * (y - a)
    BY <1>1, YearsGrow
  <2> QED  BY <1>1, <1>3, <2>1
<1>5. YmdLess(StartDate, today) <=> (a < y \/ (a = y /\ (1 < m \/ (1 = m /\ 1 < d))))
  BY DEF YmdLess, StartDate
<1>6. MonthDayLess(MonthDay(1, 1), MonthDay(m, d)) <=> 1 < m \/ (1 = m /\ 1 < d)
  <2>1. Month(1) = 1 /\ Day(1) = 1 /\ Month(m) = m /\ Day(d) = d
    BY <1>1, PartsStay
  <2> QED  BY <2>1 DEF MonthDayLess, MonthDay
<1> HIDE DEF a, y, m, d
<1>7. (1 < m \/ (1 = m /\ 1 < d)) <=> ~(m = 1 /\ d = 1)
  BY <1>1
<1>8. a = y \/ a < y
  BY <1>1
<1>9. CASE a = y
  <2>1. NewYear(a) < day <=> ~(m = 1 /\ d = 1)
    BY <1>2, <1>3, <1>9
  <2>2. ~(a < y)
    BY <1>1, <1>9
  <2> QED  BY <1>5, <1>6, <1>7, <1>9, <2>1, <2>2 DEF a, y, m, d
<1>10. CASE a < y
  <2>1. NewYear(a) < day
    BY <1>2, <1>3, <1>4, <1>10
  <2>2. a # y
    BY <1>1, <1>10
  <2> QED  BY <1>5, <1>10, <2>1, <2>2 DEF a, y, m, d
<1> QED  BY <1>8, <1>9, <1>10

\* t tenths of a second are less than a day.
InDay(t) == t < 24 * 36000

\* A time of the day comes apart and together again.
LEMMA TimeOfDay ==
  ASSUME NEW t \in Nat, InDay(t)
  PROVE  /\ HhMmSsInRange(HhMmSs(t))
         /\ HhMmSs(t).h \in 0..23
         /\ HhMmSsToDuration(HhMmSs(t)) = t
         /\ HhMmSsToDuration(HhMmSs(-t)) = -t
<1> DEFINE h == t \div 36000
           m == (t \div 600) - h * 60
           r == t - (h * 60 + m) * 600
           s == r \div 10
           sub == r - s * 10
<1>1. /\ h \in Int /\ h >= 0 /\ h < 24 /\ m \in Int /\ m >= 0 /\ m < 60 /\ r \in Int /\ r >= 0
      /\ s \in Int /\ s >= 0 /\ s < 60 /\ sub \in Int /\ sub >= 0 /\ sub < 10
      /\ s * 10 + sub + (h * 60 + m) * 600 = t
  BY SMT DEF InDay
<1>2. Abs(t) = t /\ Abs(-t) = t /\ (t < 0 <=> FALSE) /\ (-t < 0 <=> t # 0)
  BY DEF Abs
<1>3. CDiv(t, 36000) = h /\ CDiv(t, 600) = t \div 600
  BY DEF CDiv
<1>4. r >= 0 => CDiv(r, 10) = s
  BY DEF CDiv
<1> HIDE DEF h, s, r, m, sub
<1>5. 3600 * TicksPerSecond = 36000 /\ 60 * TicksPerSecond = 600 /\ TicksPerSecond = 10
  BY DEF TicksPerSecond
<1>6. DecimalSeconds(r) = [s |-> s, sub |-> sub]
  BY <1>1, <1>4, <1>5 DEF DecimalSeconds, sub
<1>7. ASSUME NEW u \in Int, Abs(u) = t
      PROVE  HhMmSs(u) = [h |-> h, m |-> m, neg |-> u < 0, s |-> [s |-> s, sub |-> sub]]
  <2>1. /\ CDiv(Abs(u), 3600 * TicksPerSecond) = h
        /\ CDiv(Abs(u), 60 * TicksPerSecond) = t \div 600
    BY <1>3, <1>5, <1>7
  <2>2. Abs(u) - (h * 60 + m) * 60 * TicksPerSecond = r
    BY <1>1, <1>7, SMT DEF TicksPerSecond, r
  <2>3. CDiv(Abs(u), 60 * TicksPerSecond) - h * 60 = m
    BY <2>1 DEF m
  <2> QED  BY <1>6, <2>1, <2>2, <2>3 DEF HhMmSs
<1>8. HhMmSs(t) = [h |-> h, m |-> m, neg |-> FALSE, s |-> [s |-> s, sub |-> sub]]
  <2>1. (t < 0) = FALSE
    BY SMT
  <2>2. HhMmSs(t) = [h |-> h, m |-> m, neg |-> t < 0, s |-> [s |-> s, sub |-> sub]]
    BY <1>2, <1>7
  <2> QED  BY <2>1, <2>2, Zenon
<1>9. HhMmSsInRange(HhMmSs(t))
  BY <1>1, <1>5, <1>8 DEF HhMmSsInRange, DecimalSecondsInRange
<1>10. s * TicksPerSecond + sub + (h * 60 + m) * 60 * TicksPerSecond = t
  BY <1>1, SMT DEF TicksPerSecond
<1>11. HhMmSsToDuration(HhMmSs(t)) = t
  <2>1. HhMmSsToDuration(HhMmSs(t)) = t * 1
    BY <1>8, <1>10, SMT DEF HhMmSsToDuration
  <2> QED  BY <2>1
<1>12. HhMmSsToDuration(HhMmSs(-t)) = -t
  <2> DEFINE u == -t
  <2>1. u \in Int /\ Abs(u) = t /\ u = t * (-1) /\ (t # 0 => u < 0) /\ (t = 0 => u = t)
    BY <1>2, SMT
  <2> HIDE DEF u
  <2>2. CASE t = 0
    <3>1. u = t
      BY <2>1, <2>2, Zenon
    <3>2. HhMmSsToDuration(HhMmSs(u)) = u
      BY <1>11, <3>1, Zenon
    <3> QED  BY <3>2, Zenon DEF u
  <2>3. CASE t # 0
    <3>1. (u < 0) = TRUE
      BY <2>1, <2>3, SMT
    <3>2. HhMmSs(u) = [h |-> h, m |-> m, neg |-> u < 0, s |-> [s |-> s, sub |-> sub]]
      BY <1>7, <2>1, Zenon
    <3>3. HhMmSs(u) = [h |-> h, m |-> m, neg |-> TRUE, s |-> [s |-> s, sub |-> sub]]
      BY <3>1, <3>2, Zenon
    <3>4. HhMmSsToDuration(HhMmSs(u)) = t * (-1)
      BY <1>10, <3>3, SMT DEF HhMmSsToDuration
    <3>5. HhMmSsToDuration(HhMmSs(u)) = u
      BY <2>1, <3>4, SMT
    <3> QED  BY <3>5, Zenon DEF u
  <2> QED  BY <2>2, <2>3, Zenon
<1> QED  BY <1>1, <1>8, <1>9, <1>11, <1>12, SMT

LEMMA DatesDoMeet == ClockInv => DatesMeet
<1> SUFFICES ASSUME ClockInv PROVE DatesMeet
  OBVIOUS
<1> DEFINE t == tod * 60 * TicksPerSecond + (day % 7)
           x == today
<1>1. /\ IsYmd(x) /\ day = Number(x) /\ day \in Int /\ tod \in Nat /\ tod < 1440
      /\ IsDate(x.y, x.m, x.d)
  BY TodayIs
<1>2. t \in Nat /\ InDay(t)
  BY <1>1, SMT DEF TicksPerSecond, InDay
<1>3. /\ YmdOk(x) /\ DayOk(x.d) /\ YmdToDays(x) = day /\ YmdFromDays(day) = x
  BY <1>1, DateAndDay
<1>4. x.m \in 1..12 /\ x.m \in Int /\ x.d \in Int /\ x.d >= 1 /\ x.d <= 31 /\ x.y \in Int
  BY <1>1, YmdIs
<1>5. MonthDayOk(MonthDay(x.m, x.d))
  <2>1. Month(x.m) = x.m /\ Day(x.d) = x.d
    BY <1>4, PartsStay
  <2>2. x.d <= IF x.m = 2 THEN 29 ELSE IF x.m \in {4, 6, 9, 11} THEN 30 ELSE 31
    BY <1>1, <1>4, MonthLength DEF IsDate
  <2>3. x.d \in 1..(<<31, 29, 31, 30, 31, 30, 31, 31, 30, 31, 30, 31>>[x.m])
    BY <1>4, <2>2
  <2> QED  BY <1>4, <2>1, <2>3 DEF MonthDayOk, MonthDay, MonthOk
<1>6. SlashYmd(x.y, MonthDay(x.m, DayPlus(x.d, DayMinus(1, x.d)))) = YmdFromDays(day - x.d + 1)
  <2> DEFINE f == [y |-> x.y, m |-> x.m, d |-> 1]
  <2>1. IsYmd(f)
    BY <1>1, <1>4, LengthBounds DEF IsYmd, IsDate
  <2>2. Number(f) = day - x.d + 1
    <3>1. NumberOf(x.y, x.m, x.d) = NumberOf(x.y, x.m, 1) + x.d - 1
      BY <1>4, DayInMonth
    <3>2. NumberOf(x.y, x.m, 1) \in Int
      BY <1>4, FirstIsInt
    <3> QED  BY <1>1, <1>4, <3>1, <3>2 DEF Number
  <2>3. YmdFromDays(day - x.d + 1) = f
    BY <2>1, <2>2, DateAndDay
  <2>4. DayPlus(x.d, DayMinus(1, x.d)) = 1
    BY <1>4, SMT DEF DayPlus, DayMinus, Day, UChar
  <2>5. Month(x.m) = x.m /\ Day(1) = 1 /\ Year(x.y) = x.y
    BY <1>1, <1>4, PartsStay, YearStays DEF IsYmd
  <2> QED  BY <2>3, <2>4, <2>5 DEF SlashYmd, MonthDay, Ymd
<1>7. LET h == HhMmSs(t).h IN Make24(Make12(h), IsPm(h)) = h /\ (IsAm(h) <=> ~IsPm(h))
  <2>1. \A h \in 0..23 : Make24(Make12(h), IsPm(h)) = h /\ (IsAm(h) <=> ~IsPm(h))
    BY DEF Make24, Make12, IsPm, IsAm
  <2> HIDE DEF t
  <2> QED  BY <1>2, <2>1, TimeOfDay
<1>8. HhMmSsInRange(HhMmSs(t)) /\ \A u \in {t, -t} : HhMmSsToDuration(HhMmSs(u)) = u
  <2> HIDE DEF t
  <2> QED  BY <1>2, TimeOfDay
<1> HIDE DEF t
<1> QED  BY <1>3, <1>5, <1>6, <1>7, <1>8, DateOrder, Zenon DEF DatesMeet, t

-----------------------------------------------------------------------------
(* Weekdays *)

LEMMA WeekdayIs ==
  ASSUME NEW n \in Int
  PROVE  WeekdayFromDays(n) = (n + 4) % 7 /\ WeekdayFromDays(n) \in 0..6
BY SMT DEF WeekdayFromDays

LEMMA WeekdayDifference ==
  ASSUME NEW a \in Int, NEW b \in Int
  PROVE  WeekdayMinus(a, b) = (a - b) % 7 /\ WeekdayMinus(a, b) \in 0..6
<1> DEFINE n == a - b
           f == FloorDiv(n, 7)
<1>1. n \in Int
  OBVIOUS
<1> HIDE DEF n
<1>2. f = n \div 7
  BY <1>1, FloorIsDiv
<1> HIDE DEF f
<1>3. n - f * 7 = n % 7 /\ n % 7 \in 0..6
  BY <1>1, <1>2, SMT
<1> QED  BY <1>3 DEF WeekdayMinus, n, f

\* The days from one day to a weekday on or after it
LEMMA DaysToWeekday ==
  ASSUME NEW n \in Int, NEW v \in 0..6
  PROVE  /\ WeekdayMinus(v, WeekdayFromDays(n)) \in 0..6
         /\ WeekdayFromDays(n + WeekdayMinus(v, WeekdayFromDays(n))) = v
         /\ WeekdayMinus(WeekdayFromDays(n), v) \in 0..6
         /\ WeekdayFromDays(n - WeekdayMinus(WeekdayFromDays(n), v)) = v
<1> DEFINE w == WeekdayFromDays(n)
           a == WeekdayMinus(v, w)
           b == WeekdayMinus(w, v)
<1>1. w = (n + 4) % 7 /\ w \in Int /\ w >= 0 /\ w <= 6
  BY WeekdayIs
<1> HIDE DEF w
<1>2. /\ a = (v - w) % 7 /\ a \in 0..6
      /\ b = (w - v) % 7 /\ b \in 0..6
  <2>1. v \in Int
    OBVIOUS
  <2>2. a = (v - w) % 7 /\ a \in 0..6
    BY <1>1, <2>1, WeekdayDifference
  <2>3. b = (w - v) % 7 /\ b \in 0..6
    BY <1>1, <2>1, WeekdayDifference
  <2> QED  BY <2>2, <2>3
<1> HIDE DEF a, b
<1>3. (n + a + 4) % 7 = v
  BY <1>1, <1>2, SMT
<1>4. (n - b + 4) % 7 = v
  BY <1>1, <1>2, SMT
<1>5. WeekdayFromDays(n + a) = (n + a + 4) % 7 /\ WeekdayFromDays(n - b) = (n - b + 4) % 7
  <2>1. n + a \in Int /\ n - b \in Int
    BY <1>2
  <2> QED  BY <2>1, WeekdayIs
<1> QED  BY <1>2, <1>3, <1>4, <1>5 DEF a, b, w

LEMMA WeekdayLater ==
  ASSUME NEW n \in Int, NEW j \in Nat
  PROVE  WeekdayMinus(WeekdayFromDays(n + j), WeekdayFromDays(n)) = j % 7
<1> DEFINE v == WeekdayFromDays(n + j)  w == WeekdayFromDays(n)
<1>1. v = (n + j + 4) % 7 /\ w = (n + 4) % 7 /\ v \in Int /\ w \in Int
  BY WeekdayIs
<1> HIDE DEF v, w
<1>2. WeekdayMinus(v, w) = (v - w) % 7
  BY <1>1, WeekdayDifference
<1>3. (v - w) % 7 = j % 7
  BY <1>1, SMT
<1> QED  BY <1>2, <1>3 DEF v, w

\* The days of a month, and those of the weeks after it
LEMMA DaysOfMonth ==
  ASSUME NEW y, InRange(y), NEW m \in 1..12, NEW j \in Nat, j < LengthOfMonth(y, m) + 28
  PROVE  /\ j < LengthOfMonth(y, m) =>
              YmdFromDays(NumberOf(y, m, 1) + j) = [y |-> y, m |-> m, d |-> j + 1]
         /\ j >= LengthOfMonth(y, m) =>
              /\ YmdFromDays(NumberOf(y, m, 1) + j).m = IF m = 12 THEN 1 ELSE m + 1
              /\ YmdFromDays(NumberOf(y, m, 1) + j).d = j - LengthOfMonth(y, m) + 1
<1> DEFINE l == LengthOfMonth(y, m)
           f == NumberOf(y, m, 1)
<1>0. y \in Int /\ l \in Int /\ f \in Int
  BY LengthBounds, NumberIsInt DEF InRange
<1>1. CASE j < l
  <2>1. IsDate(y, m, j + 1)
    BY <1>0, <1>1 DEF IsDate
  <2>2. NumberOf(y, m, j + 1) = f + j
    <3>1. NumberOf(y, m, j + 1) = f + (j + 1) - 1
      BY <1>0, DayInMonth
    <3> QED  BY <1>0, <3>1
  <2>3. YmdFromDays(f + j) = [y |-> y, m |-> m, d |-> j + 1]
    BY <2>1, <2>2, FromDays, YearStays
  <2> QED  BY <1>0, <1>1, <2>3
<1>2. CASE j >= l
  <2> DEFINE y2 == IF m = 12 THEN y + 1 ELSE y
             m2 == IF m = 12 THEN 1 ELSE m + 1
             d2 == j - l + 1
  <2>1. y2 \in Int /\ m2 \in 1..12 /\ d2 \in Int /\ d2 >= 1 /\ d2 <= 28
    BY <1>0, <1>2
  <2>2. NumberOf(y2, m2, 1) = f + l
    BY <1>0, MonthEnds
  <2> HIDE DEF y2, m2
  <2> DEFINE l2 == LengthOfMonth(y2, m2)
  <2>3. IsDate(y2, m2, d2)
    <3>1. l2 \in Int /\ l2 >= 28
      <4>1. y2 \in Int /\ m2 \in Int
        BY <2>1
      <4> QED  BY <4>1, LengthBounds
    <3> HIDE DEF l2
    <3>2. d2 <= l2
      BY <2>1, <3>1
    <3> QED  BY <2>1, <3>2 DEF IsDate, l2
  <2>4. NumberOf(y2, m2, d2) = f + j
    <3>1. NumberOf(y2, m2, d2) = NumberOf(y2, m2, 1) + d2 - 1
      BY <2>1, DayInMonth
    <3> QED  BY <1>0, <2>1, <2>2, <3>1
  <2>5. YmdFromDays(f + j) = [y |-> Year(y2), m |-> m2, d |-> d2]
    BY <2>3, <2>4, FromDays
  <2> QED  BY <1>0, <1>2, <2>5 DEF m2
<1> QED  BY <1>0, <1>1, <1>2

\* Whether the library's month of a day is the month counted from
LEMMA InMonthIs ==
  ASSUME NEW y, InRange(y), NEW m \in 1..12, NEW j \in Nat, j < LengthOfMonth(y, m) + 28
  PROVE  YmdFromDays(NumberOf(y, m, 1) + j).m = m <=> j < LengthOfMonth(y, m)
<1> DEFINE p == YmdFromDays(NumberOf(y, m, 1) + j)
           l == LengthOfMonth(y, m)
<1>1. /\ j < l => p = [y |-> y, m |-> m, d |-> j + 1]
      /\ j >= l => p.m = IF m = 12 THEN 1 ELSE m + 1
  BY DaysOfMonth
<1>2. l \in Int
  BY LengthBounds DEF InRange
<1> HIDE DEF p, l
<1>3. CASE j < l
  BY <1>1, <1>3 DEF p, l
<1>4. CASE j >= l
  <2>1. p.m # m /\ ~(j < l)
    BY <1>1, <1>2, <1>4
  <2> QED  BY <2>1 DEF p, l
<1> QED  BY <1>2, <1>3, <1>4

\* The first and the last day of a month
LEMMA FirstAndLast ==
  ASSUME NEW y, InRange(y), NEW m \in 1..12
  PROVE  /\ YmdToDays(Ymd(y, m, 1)) = NumberOf(y, m, 1)
         /\ YmdLastToDays(YmdLast(y, MonthDayLast(m)))
              = NumberOf(y, m, 1) + LengthOfMonth(y, m) - 1
<1> DEFINE l == LengthOfMonth(y, m)
<1>0. y \in Int /\ l \in Int /\ l >= 28 /\ l <= 31
  <2>1. y \in Int /\ m \in Int
    BY DEF InRange
  <2> QED  BY <2>1, LengthBounds
<1>1. Year(y) = y /\ Month(m) = m /\ Day(1) = 1 /\ Day(l) = l
  BY <1>0, YearStays, PartsStay
<1>2. YmdToDays(Ymd(y, m, 1)) = NumberOf(y, m, 1)
  BY <1>0, <1>1, ToDays DEF Ymd
<1>3. YmdLastToDays(YmdLast(y, MonthDayLast(m))) = YmdToDays(Ymd(y, m, l))
  BY <1>1, LastDay DEF YmdLastToDays, YmdLast, MonthDayLast
<1>4. YmdToDays(Ymd(y, m, l)) = NumberOf(y, m, l)
  BY <1>0, <1>1, ToDays DEF Ymd
<1>5. NumberOf(y, m, l) = NumberOf(y, m, 1) + l - 1
  BY <1>0, DayInMonth
<1> QED  BY <1>2, <1>3, <1>4, <1>5

\* A date named by its weekday is the day it was made from.
LEMMA WeekdayNames ==
  ASSUME NEW x, IsYmd(x)
  PROVE  LET w == YmWeekdayFromDays(Number(x))
         IN  /\ w.wdi.wd = WeekdayFromDays(Number(x)) /\ YmWeekdayOk(w)
             /\ YmWeekdayToDays(w) = Number(x)
             /\ MonthWeekdayOk(MonthWeekday(x.m, w.wdi))
<1> DEFINE n == Number(x)
           f == NumberOf(x.y, x.m, 1)
           l == LengthOfMonth(x.y, x.m)
           v == WeekdayFromDays(n)
           ix == ((x.d - 1) \div 7) + 1
           w == [y |-> x.y, m |-> x.m, wdi |-> [wd |-> v, index |-> ix]]
<1>1. /\ InRange(x.y) /\ YearOk(x.y) /\ x.m \in 1..12 /\ x.m \in Int /\ x.y \in Int
      /\ x.d \in Int /\ x.d >= 1 /\ x.d <= l /\ l \in Int /\ l <= 31
  BY YmdIs
<1>2. n \in Int /\ f \in Int /\ n = f + (x.d - 1) /\ x.d - 1 \in Nat
  <2>1. NumberOf(x.y, x.m, x.d) = f + x.d - 1
    BY <1>1, DayInMonth
  <2>2. f \in Int
    BY <1>1, FirstIsInt
  <2> QED  BY <1>1, <2>1, <2>2 DEF Number
<1>3. ix \in 1..5
  BY <1>1, SMT
<1>4. v \in 0..6
  BY <1>2, WeekdayIs
<1>5. WeekdayMinus(v, WeekdayFromDays(f)) = (x.d - 1) % 7
  BY <1>2, WeekdayLater
<1>6. ((x.d - 1) % 7) + (ix - 1) * 7 = x.d - 1
  BY <1>1, SMT
<1>7. YmWeekdayFromDays(n) = w
  <2>1. YmdFromDays(n) = x
    BY DateAndDay
  <2>2. WeekdayIndexed(v, ix) = [wd |-> v, index |-> ix]
    <3> HIDE DEF v, ix
    <3> QED  BY <1>3, <1>4, SMT DEF WeekdayIndexed
  <2>3. Year(x.y) = x.y /\ Month(x.m) = x.m
    BY <1>1, YearStays, PartsStay
  <2> HIDE DEF n
  <2> QED  BY <2>1, <2>2, <2>3 DEF YmWeekdayFromDays, YmWeekday
<1>8. YmdToDays(Ymd(x.y, x.m, 1)) = f /\ YmdLastDay(YmdLast(x.y, MonthDayLast(x.m))) = l
  BY <1>1, FirstAndLast, LastDay
<1> HIDE DEF n, f, l, v, ix
<1>9. YmWeekdayOk(w)
  <2>1. YearOk(x.y) /\ MonthOk(x.m) /\ WeekdayOk(v) /\ ix >= 1
    BY <1>1, <1>3, <1>4, YearStays DEF MonthOk, WeekdayOk
  <2>2. ix <= 4 \/ WeekdayMinus(v, WeekdayFromDays(f)) + (ix - 1) * 7 + 1 <= l
    BY <1>1, <1>5, <1>6
  <2> QED  BY <1>8, <2>1, <2>2 DEF YmWeekdayOk
<1>10. YmWeekdayToDays(w) = n
  <2>1. YmWeekdayToDays(w) = f + WeekdayMinus(v, WeekdayFromDays(f)) + (ix - 1) * 7
    BY <1>8 DEF YmWeekdayToDays, WeekdayOnOrAfter
  <2>2. (x.d - 1) % 7 \in Int
    BY <1>2
  <2> QED  BY <1>2, <1>3, <1>5, <1>6, <2>1, <2>2
<1>11. MonthWeekdayOk(MonthWeekday(x.m, w.wdi))
  <2>1. Month(x.m) = x.m
    BY <1>1, PartsStay
  <2> QED  BY <1>1, <1>3, <1>4, <2>1
           DEF MonthWeekdayOk, MonthWeekday, MonthOk, WeekdayIndexedOk, WeekdayOk
<1> QED  BY <1>7, <1>9, <1>10, <1>11 DEF n, v

\* The fifth and the last of a weekday in a month
LEMMA FifthIs ==
  ASSUME NEW y, InRange(y), YearOk(y), NEW m \in 1..12, NEW v \in 0..6
  PROVE  LET w == SlashYmWeekday(y, MonthWeekday(m, WeekdayIndexed(v, 5)))
         IN  YmWeekdayOk(w) <=> YmdFromDays(YmWeekdayToDays(w)).m = m
<1> DEFINE f == NumberOf(y, m, 1)
           l == LengthOfMonth(y, m)
           w == [y |-> y, m |-> m, wdi |-> [wd |-> v, index |-> 5]]
           gap == WeekdayMinus(v, WeekdayFromDays(f))
<1>1. y \in Int /\ l \in Int /\ l >= 28 /\ f \in Int
  <2>1. y \in Int /\ m \in Int
    BY DEF InRange
  <2>2. l \in Int /\ l >= 28
    BY <2>1, LengthBounds
  <2>3. f \in Int
    BY <2>1, FirstIsInt
  <2> QED  BY <2>1, <2>2, <2>3
<1>2. gap \in 0..6
  BY <1>1, DaysToWeekday
<1>3. SlashYmWeekday(y, MonthWeekday(m, WeekdayIndexed(v, 5))) = w
  <2>1. WeekdayIndexed(v, 5) = [wd |-> v, index |-> 5]
    BY SMT DEF WeekdayIndexed
  <2>2. Year(y) = y /\ Month(m) = m
    BY YearStays, PartsStay
  <2> QED  BY <2>1, <2>2 DEF SlashYmWeekday, MonthWeekday, YmWeekday
<1>4. YmdToDays(Ymd(y, m, 1)) = f /\ YmdLastDay(YmdLast(y, MonthDayLast(m))) = l
  BY FirstAndLast, LastDay
<1>5. YmdFromDays(f + (gap + 28)).m = m <=> gap + 28 < l
  <2>1. gap + 28 \in Nat /\ gap + 28 < l + 28
    BY <1>1, <1>2
  <2> HIDE DEF gap
  <2> QED  BY <2>1, InMonthIs
<1> HIDE DEF f, l, gap
<1>6. YmWeekdayToDays(w) = f + (gap + 28)
  <2>1. YmWeekdayToDays(w) = f + gap + (5 - 1) * 7
    BY <1>4 DEF YmWeekdayToDays, WeekdayOnOrAfter, gap
  <2> QED  BY <1>1, <1>2, <2>1
<1>7. YmWeekdayOk(w) <=> gap + 28 < l
  <2>1. YearOk(y) /\ MonthOk(m) /\ WeekdayOk(v)
    BY YearStays DEF MonthOk, WeekdayOk
  <2>2. YmWeekdayOk(w) <=> gap + (5 - 1) * 7 + 1 <= l
    BY <1>4, <2>1 DEF YmWeekdayOk, gap
  <2> QED  BY <1>1, <1>2, <2>2
<1> QED  BY <1>3, <1>5, <1>6, <1>7

\* The last of a weekday is in the month, and a week later is not.
LEMMA LastIs ==
  ASSUME NEW y, InRange(y), YearOk(y), NEW m \in 1..12, NEW v \in 0..6
  PROVE  LET n == YmWeekdayLastToDays(SlashYmWeekdayLast(y, MonthWeekdayLast(m, WeekdayLast(v))))
         IN  /\ MonthWeekdayLastOk(MonthWeekdayLast(m, WeekdayLast(v)))
             /\ YmWeekdayLastOk(YmWeekdayLast(y, m, WeekdayLast(v)))
             /\ n = YmWeekdayLastToDays(YmWeekdayLast(y, m, WeekdayLast(v)))
             /\ n \in NumberOf(y, m, 1)..(NumberOf(y, m, 1) + LengthOfMonth(y, m) - 1)
             /\ WeekdayFromDays(n) = v
             /\ YmdFromDays(n).m = m /\ YmdFromDays(n + 7).m # m
<1> DEFINE f == NumberOf(y, m, 1)
           l == LengthOfMonth(y, m)
           e == f + l - 1
           w == [y |-> y, m |-> m, wdl |-> [wd |-> v]]
           gap == WeekdayMinus(WeekdayFromDays(e), v)
<1>1. y \in Int /\ l \in Int /\ l >= 28 /\ f \in Int /\ e \in Int
  <2>1. y \in Int /\ m \in Int
    BY DEF InRange
  <2>2. l \in Int /\ l >= 28
    BY <2>1, LengthBounds
  <2>3. f \in Int
    BY <2>1, FirstIsInt
  <2> QED  BY <2>1, <2>2, <2>3
<1>2. gap \in 0..6 /\ WeekdayFromDays(e - gap) = v
  <2> HIDE DEF e
  <2> QED  BY <1>1, DaysToWeekday
<1>3. Year(y) = y /\ Month(m) = m
  BY YearStays, PartsStay
<1>4. /\ SlashYmWeekdayLast(y, MonthWeekdayLast(m, WeekdayLast(v))) = w
      /\ YmWeekdayLast(y, m, WeekdayLast(v)) = w
      /\ MonthWeekdayLast(m, WeekdayLast(v)) = [m |-> m, wdl |-> [wd |-> v]]
  BY <1>3 DEF SlashYmWeekdayLast, MonthWeekdayLast, YmWeekdayLast, WeekdayLast
<1>5. YmWeekdayLastOk(w) /\ MonthWeekdayLastOk([m |-> m, wdl |-> [wd |-> v]])
  BY YearStays DEF YmWeekdayLastOk, MonthWeekdayLastOk, MonthOk, WeekdayLastOk, WeekdayOk
<1>6. YmdLastToDays(YmdLast(y, MonthDayLast(m))) = e
  BY FirstAndLast
<1> DEFINE j == l - 1 - gap
<1>7. j \in Nat /\ j < l /\ j + 7 >= l /\ j + 7 < l + 28
  BY <1>1, <1>2
<1>8. e - gap = f + j
  BY <1>1, <1>2
<1>9. YmdFromDays(f + j).m = m /\ YmdFromDays(f + (j + 7)).m # m
  <2> HIDE DEF j
  <2>1. /\ j < l + 28 /\ j + 7 \in Nat /\ ~(j + 7 < l)
    BY <1>1, <1>7
  <2>2. YmdFromDays(f + j).m = m <=> j < l
    BY <1>7, <2>1, InMonthIs
  <2>3. YmdFromDays(f + (j + 7)).m = m <=> j + 7 < l
    BY <1>7, <2>1, InMonthIs
  <2> QED  BY <1>7, <2>1, <2>2, <2>3
<1> HIDE DEF e, gap, f, l, j
<1>10. YmWeekdayLastToDays(w) = e - gap
  BY <1>6 DEF YmWeekdayLastToDays, WeekdayOnOrBefore, gap
<1>11. f + j + 7 = f + (j + 7) /\ f + j \in f..(f + l - 1)
  BY <1>1, <1>7
<1> QED  BY <1>2, <1>4, <1>5, <1>8, <1>9, <1>10, <1>11 DEF f, l

LEMMA WeekdaysDoMeet == ClockInv => WeekdaysMeet
<1> SUFFICES ASSUME ClockInv PROVE WeekdaysMeet
  OBVIOUS
<1>1. /\ IsYmd(today) /\ day = Number(today) /\ day \in Int /\ dow = (day + 4) % 7
  BY TodayIs
<1>2. InRange(today.y) /\ YearOk(today.y) /\ today.m \in 1..12
  BY <1>1 DEF IsYmd, IsDate
<1>3. WeekdayFromDays(day) = dow /\ dow \in 0..6
  BY <1>1, WeekdayIs
<1>4. LET x == YmWeekdayFromDays(day)
      IN  /\ x.wdi.wd = dow /\ YmWeekdayOk(x) /\ YmWeekdayToDays(x) = day
          /\ MonthWeekdayOk(MonthWeekday(today.m, x.wdi))
  BY <1>1, <1>3, WeekdayNames
<1>5. IsoEncoding(dow) \in 1..7 /\ Weekday(IsoEncoding(dow)) = dow
  BY <1>3, SMT DEF IsoEncoding, Weekday, UChar
<1>6. \A v \in 0..6 : /\ WeekdayPlus(dow, WeekdayMinus(v, dow)) = v
                      /\ WeekdayFromDays(day + WeekdayMinus(v, dow)) = v
                      /\ WeekdayMinus(v, dow) \in 0..6
  <2> TAKE v \in 0..6
  <2>1. WeekdayMinus(v, dow) \in 0..6 /\ WeekdayFromDays(day + WeekdayMinus(v, dow)) = v
    BY <1>1, <1>3, DaysToWeekday
  <2>2. WeekdayPlus(dow, WeekdayMinus(v, dow)) = v
    <3> DEFINE a == WeekdayMinus(v, dow)
    <3>1. v \in Int /\ dow \in Int
      BY <1>3
    <3>2. a = (v - dow) % 7 /\ a \in Int
      BY <3>1, WeekdayDifference
    <3> DEFINE b == dow + a  f == FloorDiv(b, 7)
    <3> HIDE DEF a
    <3>3. b \in Int
      BY <3>1, <3>2
    <3> HIDE DEF b
    <3>4. f = b \div 7
      BY <3>3, FloorIsDiv
    <3> HIDE DEF f
    <3>5. dow + a - f * 7 = v
      BY <1>3, <3>2, <3>4, SMT DEF b
    <3>6. WeekdayPlus(dow, a) = Weekday(dow + a - f * 7)
      BY Zenon DEF WeekdayPlus, b, f
    <3>7. Weekday(v) = v
      BY SMT DEF Weekday, UChar
    <3> QED  BY <3>5, <3>6, <3>7, Zenon DEF a
  <2> QED  BY <2>1, <2>2
<1>7. ASSUME NEW v \in 0..6
      PROVE  LET Fifth  == SlashYmWeekday(today.y, MonthWeekday(today.m, WeekdayIndexed(v, 5)))
                 LastIn == YmWeekdayLastToDays(
                             SlashYmWeekdayLast(today.y, MonthWeekdayLast(today.m, WeekdayLast(v))))
             IN  /\ YmWeekdayOk(Fifth) <=> YmdFromDays(YmWeekdayToDays(Fifth)).m = today.m
                 /\ MonthWeekdayLastOk(MonthWeekdayLast(today.m, WeekdayLast(v)))
                 /\ YmWeekdayLastOk(YmWeekdayLast(today.y, today.m, WeekdayLast(v)))
                 /\ WeekdayFromDays(LastIn) = v
                 /\ YmdFromDays(LastIn).m = today.m
                 /\ ~(YmdFromDays(LastIn + 7).m = today.m)
  <2> DEFINE Fifth  == SlashYmWeekday(today.y, MonthWeekday(today.m, WeekdayIndexed(v, 5)))
             LastIn == YmWeekdayLastToDays(
                         SlashYmWeekdayLast(today.y, MonthWeekdayLast(today.m, WeekdayLast(v))))
  <2>1. YmWeekdayOk(Fifth) <=> YmdFromDays(YmWeekdayToDays(Fifth)).m = today.m
    BY <1>2, FifthIs, Zenon
  <2>2. /\ MonthWeekdayLastOk(MonthWeekdayLast(today.m, WeekdayLast(v)))
        /\ YmWeekdayLastOk(YmWeekdayLast(today.y, today.m, WeekdayLast(v)))
        /\ WeekdayFromDays(LastIn) = v
        /\ YmdFromDays(LastIn).m = today.m /\ YmdFromDays(LastIn + 7).m # today.m
    BY <1>2, LastIs, Zenon
  <2> QED  BY <2>1, <2>2, Zenon
<1> QED  BY <1>3, <1>4, <1>5, <1>6, <1>7, Zenon DEF WeekdaysMeet

(***************************************************************************)
(* Every day that Year can hold has one date, and the date that day: the    *)
(* counts of date.h (to_days, from_days, weekday, weekday_indexed and       *)
(* weekday_last, hh_mm_ss, make12 and make24) all name the reference's day. *)
(***************************************************************************)
THEOREM DaysAgree == Spec => []DaysAddUp
<1>1. ClockInv => DaysAddUp
  BY DatesDoMeet, WeekdaysDoMeet DEF DaysAddUp
<1> QED  BY Invariant, <1>1, PTL

-----------------------------------------------------------------------------
(* Months *)

\* A year comes around after 65536 of them.
LEMMA YearWraps ==
  ASSUME NEW a \in Int, NEW b \in Int
  PROVE  Year(Year(a) + b) = Year(a + b)
BY SMT DEF Year, Short

LEMMA YearTwice ==
  ASSUME NEW a \in Int
  PROVE  InRange(Year(a)) /\ Year(Year(a)) = Year(a)
BY SMT DEF Year, Short, InRange, YearEnd

\* The years and the month that n months lead to
YearsOn(m, n) == (m - 1 + n) \div 12
MonthOn(m, n) == ((m - 1 + n) % 12) + 1

LEMMA OnIs ==
  ASSUME NEW m \in 1..12, NEW n \in Int
  PROVE  /\ YearsOn(m, n) \in Int /\ MonthOn(m, n) \in 1..12
         /\ m - 1 + n = 12 * YearsOn(m, n) + MonthOn(m, n) - 1
BY SMT DEF YearsOn, MonthOn

\* YearMonthPlus carries the months into the year.
LEMMA MonthsOn ==
  ASSUME NEW y, InRange(y), NEW m \in 1..12, NEW n \in Int
  PROVE  /\ YearMonth(y, m) = [y |-> y, m |-> m]
         /\ YearMonthPlus(YearMonth(y, m), n)
              = [y |-> Year(y + YearsOn(m, n)), m |-> MonthOn(m, n)]
<1> DEFINE a == m - 1 + n
           q == YearsOn(m, n)
           r == MonthOn(m, n)
<1>1. YearMonth(y, m) = [y |-> y, m |-> m]
  BY YearStays, PartsStay DEF YearMonth
<1>2. /\ a \in Int /\ q \in Int /\ r \in 1..12 /\ a = 12 * q + r - 1 /\ y \in Int
      /\ FloorDiv(a, 12) = q
  <2>1. a \in Int
    OBVIOUS
  <2>2. FloorDiv(a, 12) = q
    <3>1. q = a \div 12
      BY DEF YearsOn
    <3> HIDE DEF a, q
    <3> QED  BY <2>1, <3>1, FloorIsDiv
  <2>3. q \in Int /\ r \in 1..12 /\ a = 12 * q + r - 1
    BY OnIs
  <2>4. y \in Int
    BY DEF InRange
  <2> HIDE DEF a, q, r
  <2> QED  BY <2>1, <2>2, <2>3, <2>4
<1> HIDE DEF a, q, r
<1>3. YearMonthPlus([y |-> y, m |-> m], n) = YearMonth(YearPlus(y, q), a - q * 12 + 1)
  BY <1>2 DEF YearMonthPlus, a
<1>4. a - q * 12 + 1 = r
  BY <1>2, SMT
<1>5. YearMonth(YearPlus(y, q), r) = [y |-> Year(y + q), m |-> r]
  <2> DEFINE z == y + q
  <2>1. z \in Int
    BY <1>2
  <2> HIDE DEF z
  <2>2. Year(Year(z)) = Year(z)
    BY <2>1, YearTwice
  <2>3. r \in Int /\ r >= 0 /\ r <= 255
    BY <1>2
  <2>4. Month(r) = r
    BY <2>3, PartsStay
  <2> QED  BY <2>2, <2>4 DEF YearMonth, YearPlus, z
<1> QED  BY <1>1, <1>3, <1>4, <1>5 DEF q, r

\* Going on by months and back again
LEMMA MonthsBack ==
  ASSUME NEW m \in 1..12, NEW n \in Int
  PROVE  /\ YearsOn(MonthOn(m, n), -n) = -YearsOn(m, n)
         /\ MonthOn(MonthOn(m, n), -n) = m
<1> DEFINE q == YearsOn(m, n)
           r == MonthOn(m, n)
<1>1. q \in Int /\ r \in 1..12 /\ m - 1 + n = 12 * q + r - 1
  BY OnIs
<1> HIDE DEF q, r
<1>2. (r - 1 + (-n)) \div 12 = -q /\ (r - 1 + (-n)) % 12 = m - 1
  BY <1>1, SMT
<1>3. YearsOn(r, -n) = -q /\ MonthOn(r, -n) = m
  BY <1>2 DEF YearsOn, MonthOn
<1> QED  BY <1>3 DEF q, r

\* Months alone, without their year
LEMMA MonthArithmetic ==
  ASSUME NEW m \in 1..12, NEW n \in Int
  PROVE  /\ MonthPlus(m, n) = MonthOn(m, n)
         /\ MonthMinus(MonthOn(m, n), m) = n % 12
         /\ n % 12 = 0 => YearsOn(m, n) = n \div 12 /\ MonthOn(m, n) = m
         /\ MonthPlus(1, MonthMinus(m, 1)) = m
<1> DEFINE r == MonthOn(m, n)
           a == m + n - 1
<1>1. MonthPlus(m, n) = r
  <2>1. a \in Int /\ FloorDiv(a, 12) = a \div 12
    BY FloorIsDiv
  <2>2. r = a - (a \div 12) * 12 + 1 /\ r \in 1..12
    BY SMT DEF MonthOn
  <2> HIDE DEF a, r
  <2>3. MonthPlus(m, n) = Month(r)
    BY <2>1, <2>2 DEF MonthPlus, a
  <2> QED  BY <2>2, <2>3, PartsStay
<1>2. MonthMinus(r, m) = n % 12
  BY SMT DEF MonthMinus, MonthOn
<1>3. n % 12 = 0 => YearsOn(m, n) = n \div 12 /\ MonthOn(m, n) = m
  BY SMT DEF YearsOn, MonthOn
<1>4. MonthPlus(1, MonthMinus(m, 1)) = m
  <2>1. MonthMinus(m, 1) = m - 1
    BY DEF MonthMinus
  <2>2. FloorDiv(1 + (m - 1) - 1, 12) = 0
    BY SMT DEF FloorDiv, CDiv
  <2>3. MonthPlus(1, m - 1) = Month(1 + (m - 1) - 1 - 0 * 12 + 1)
    BY <2>2 DEF MonthPlus
  <2>4. 1 + (m - 1) - 1 - 0 * 12 + 1 = m
    OBVIOUS
  <2> QED  BY <2>1, <2>3, <2>4, PartsStay
<1> QED  BY <1>1, <1>2, <1>3, <1>4

\* The months between two dates are the months to add.
LEMMA AnchorMonths ==
  ASSUME NEW y, InRange(y), NEW m \in 1..12, NEW a, InRange(a)
  PROVE  LET ym     == YearMonth(y, m)
             anchor == YearMonth(a, 1)
         IN  /\ YearMonthPlus(anchor, YearMonthMinus(ym, anchor)) = ym
             /\ YearMonthLess(anchor, ym) <=> YearMonthMinus(ym, anchor) > 0
<1> DEFINE ym == YearMonth(y, m)
           anchor == YearMonth(a, 1)
           n == YearMonthMinus(ym, anchor)
<1>1. ym = [y |-> y, m |-> m] /\ anchor = [y |-> a, m |-> 1]
  BY YearStays, PartsStay DEF YearMonth
<1>2. n = 12 * (y - a) + (m - 1) /\ y \in Int /\ a \in Int
  BY <1>1 DEF YearMonthMinus, YearMinus, InRange
<1>3. YearsOn(1, n) = y - a /\ MonthOn(1, n) = m /\ n \in Int
  <2> HIDE DEF n
  <2> QED  BY <1>2, SMT DEF YearsOn, MonthOn
<1>4. YearMonthPlus(anchor, n) = ym
  <2> HIDE DEF n
  <2>1. YearMonthPlus(anchor, n) = [y |-> Year(a + YearsOn(1, n)), m |-> MonthOn(1, n)]
    BY <1>3, MonthsOn
  <2>2. a + (y - a) = y
    BY <1>2
  <2> QED  BY <1>1, <1>3, <2>1, <2>2, YearStays
<1>5. YearMonthLess(anchor, ym) <=> n > 0
  <2>1. YearMonthLess(anchor, ym) <=> (a < y \/ (a = y /\ 1 < m))
    BY <1>1 DEF YearMonthLess
  <2> HIDE DEF n, anchor, ym
  <2>2. (a < y \/ (a = y /\ 1 < m)) <=> n > 0
    BY <1>2, SMT
  <2> QED  BY <2>1, <2>2
<1> QED  BY <1>4, <1>5

\* A date some months on
LEMMA Shifted ==
  ASSUME NEW x, IsYmd(x), NEW n \in Int
  PROVE  LET y == Year(x.y + YearsOn(x.m, n))
             m == MonthOn(x.m, n)
             eom == SlashYmdLast(x.y, MonthDayLast(x.m))
         IN  /\ YmdPlus(x, n) = [y |-> y, m |-> m, d |-> x.d]
             /\ eom = [y |-> x.y, mdl |-> [m |-> x.m]]
             /\ YmdLastPlus(eom, n) = [y |-> y, mdl |-> [m |-> m]]
             /\ YmdLast(y, MonthDayLast(m)) = [y |-> y, mdl |-> [m |-> m]]
             /\ YearMonth(y, m) = [y |-> y, m |-> m]
             /\ InRange(y) /\ m \in 1..12
<1> DEFINE y == Year(x.y + YearsOn(x.m, n))
           m == MonthOn(x.m, n)
           eom == SlashYmdLast(x.y, MonthDayLast(x.m))
           ym == YearMonth(x.y, x.m)
<1>1. /\ InRange(x.y) /\ x.m \in 1..12 /\ x.y \in Int /\ YearsOn(x.m, n) \in Int /\ m \in 1..12
      /\ x.d \in Int /\ x.d >= 1 /\ x.d <= 31
  <2>1. InRange(x.y) /\ x.m \in 1..12 /\ x.y \in Int /\ x.d \in Int /\ x.d >= 1 /\ x.d <= 31
    BY YmdIs
  <2>2. YearsOn(x.m, n) \in Int /\ m \in 1..12
    BY <2>1, OnIs
  <2> QED  BY <2>1, <2>2
<1>2. InRange(y) /\ Year(y) = y
  <2> DEFINE z == x.y + YearsOn(x.m, n)
  <2>1. z \in Int
    BY <1>1
  <2> HIDE DEF z
  <2>2. InRange(Year(z)) /\ Year(Year(z)) = Year(z)
    BY <2>1, YearTwice
  <2> QED  BY <2>2 DEF z
<1>3. Month(m) = m /\ Month(x.m) = x.m /\ Day(x.d) = x.d /\ Year(x.y) = x.y
  BY <1>1, PartsStay, YearStays
<1>4. YearMonthPlus(ym, n) = [y |-> y, m |-> m]
  BY <1>1, MonthsOn
<1>5. eom = [y |-> x.y, mdl |-> [m |-> x.m]]
  BY <1>3 DEF SlashYmdLast, YmdLast, MonthDayLast
<1> HIDE DEF y, m
<1>6. YmdPlus(x, n) = [y |-> y, m |-> m, d |-> x.d]
  BY <1>2, <1>3, <1>4 DEF YmdPlus, Ymd
<1>7. YmdLast(y, MonthDayLast(m)) = [y |-> y, mdl |-> [m |-> m]]
  BY <1>2, <1>3 DEF YmdLast, MonthDayLast
<1>8. YmdLastPlus(eom, n) = [y |-> y, mdl |-> [m |-> m]]
  BY <1>4, <1>5, <1>7 DEF YmdLastPlus
<1>9. YearMonth(y, m) = [y |-> y, m |-> m]
  BY <1>2, <1>3 DEF YearMonth
<1> QED  BY <1>1, <1>2, <1>5, <1>6, <1>7, <1>8, <1>9 DEF y, m

\* What holds of every shift, within the range of a year or not
LEMMA ShiftBack ==
  ASSUME NEW x, IsYmd(x), NEW n \in Int
  PROVE  LET p   == YmdPlus(x, n)
             eom == SlashYmdLast(x.y, MonthDayLast(x.m))
             l   == YmdLastPlus(eom, n)
         IN  /\ YmdPlus(p, -n) = x
             /\ p.m = MonthPlus(x.m, n)
             /\ MonthMinus(p.m, x.m) = n % 12
             /\ n % 12 = 0 =>
                  /\ p = YmdPlusYears(x, n \div 12)
                  /\ l = YmdLastPlusYears(eom, n \div 12)
                  /\ YearMonth(p.y, p.m) = YearMonthPlusYears(YearMonth(x.y, x.m), n \div 12)
             /\ YearMonthOk(YearMonth(p.y, p.m)) => YmdLastOk(l)
<1> DEFINE q == YearsOn(x.m, n)
           y == Year(x.y + q)
           m == MonthOn(x.m, n)
           p == YmdPlus(x, n)
           eom == SlashYmdLast(x.y, MonthDayLast(x.m))
           l == YmdLastPlus(eom, n)
<1>1. /\ p = [y |-> y, m |-> m, d |-> x.d]
      /\ eom = [y |-> x.y, mdl |-> [m |-> x.m]] /\ l = [y |-> y, mdl |-> [m |-> m]]
      /\ YearMonth(y, m) = [y |-> y, m |-> m] /\ InRange(y) /\ m \in 1..12
  BY Shifted
<1>2. /\ InRange(x.y) /\ x.m \in 1..12 /\ x.y \in Int /\ q \in Int
      /\ x = [y |-> x.y, m |-> x.m, d |-> x.d] /\ x.d \in Int /\ x.d >= 1 /\ x.d <= 31
      /\ -n \in Int
  <2>1. /\ InRange(x.y) /\ x.m \in 1..12 /\ x.y \in Int
        /\ x = [y |-> x.y, m |-> x.m, d |-> x.d] /\ x.d \in Int /\ x.d >= 1 /\ x.d <= 31
    BY YmdIs
  <2>2. q \in Int
    BY <2>1, OnIs
  <2>3. -n \in Int
    OBVIOUS
  <2> QED  BY <2>1, <2>2, <2>3
<1>3. /\ Month(m) = m /\ Month(x.m) = x.m /\ Day(x.d) = x.d /\ Year(x.y) = x.y
  BY <1>1, <1>2, PartsStay, YearStays
<1>4. YmdPlus(p, -n) = x
  <2>1. YearsOn(m, -n) = -q /\ MonthOn(m, -n) = x.m
    BY <1>2, MonthsBack
  <2>2. Year(y + (-q)) = x.y
    <3>1. x.y + q \in Int /\ -q \in Int /\ x.y + q + (-q) = x.y
      BY <1>2
    <3> HIDE DEF q
    <3> QED  BY <1>3, <3>1, YearWraps
  <2>3. YearMonthPlus(YearMonth(y, m), -n) = [y |-> x.y, m |-> x.m]
    <3> HIDE DEF y, m
    <3> QED  BY <1>1, <1>2, <2>1, <2>2, MonthsOn, SMTT(40)
  <2> HIDE DEF y, m, p
  <2> QED  BY <1>1, <1>2, <1>3, <2>3 DEF YmdPlus, Ymd
<1>5. /\ p.m = MonthPlus(x.m, n) /\ MonthMinus(p.m, x.m) = n % 12
      /\ n % 12 = 0 => q = n \div 12 /\ m = x.m
  BY <1>1, <1>2, MonthArithmetic
<1>6. ASSUME n % 12 = 0
      PROVE  /\ p = YmdPlusYears(x, n \div 12)
             /\ l = YmdLastPlusYears(eom, n \div 12)
             /\ YearMonth(p.y, p.m) = YearMonthPlusYears(YearMonth(x.y, x.m), n \div 12)
  <2> DEFINE dy == n \div 12
  <2>1. Year(x.y + dy) = y /\ m = x.m
    BY <1>5, <1>6
  <2>2. Year(y) = y /\ YearMonth(x.y, x.m) = [y |-> x.y, m |-> x.m]
    BY <1>1, <1>2, YearStays, MonthsOn
  <2> HIDE DEF dy, y, m, p, l, eom
  <2>3. p = YmdPlusYears(x, dy)
    BY <1>1, <1>3, <2>1, <2>2 DEF YmdPlusYears, Ymd, YearPlus
  <2>4. l = YmdLastPlusYears(eom, dy)
    BY <1>1, <2>1, <2>2 DEF YmdLastPlusYears, YmdLast, YearPlus
  <2>5. YearMonth(p.y, p.m) = YearMonthPlusYears(YearMonth(x.y, x.m), dy)
    BY <1>1, <1>3, <2>1, <2>2 DEF YearMonthPlusYears, YearMonth, YearPlus
  <2> QED  BY <2>3, <2>4, <2>5 DEF dy
<1>7. YearMonthOk(YearMonth(p.y, p.m)) => YmdLastOk(l)
  <2> HIDE DEF y, m, p, l, eom
  <2> QED  BY <1>1 DEF YearMonthOk, YmdLastOk, MonthDayLastOk
<1> HIDE DEF q, y, m, p, l, eom
<1> QED  BY <1>4, <1>5, <1>6, <1>7, Zenon DEF p, l, eom

\* n months from x the year is still valid.
Inside(x, n) == -YearEnd < x.y + YearsOn(x.m, n) /\ x.y + YearsOn(x.m, n) < YearEnd

\* What holds of a shift within the range of a year
LEMMA ShiftInside ==
  ASSUME NEW x, IsYmd(x), NEW n \in Int,
         Inside(x, n)
  PROVE  LET p   == YmdPlus(x, n)
             eom == SlashYmdLast(x.y, MonthDayLast(x.m))
             l   == YmdLastPlus(eom, n)
         IN  /\ YearMonthMinus(YearMonth(p.y, p.m), YearMonth(x.y, x.m)) = n
             /\ YmdLess(x, p) <=> n > 0
             /\ YmdLastLess(eom, l) <=> n > 0
             /\ YmdFromDays(YmdLastToDays(l)).m = p.m
             /\ YmdFromDays(YmdLastToDays(l) + 1).d = 1
             /\ YmdOk(p) => YmdFromDays(YmdToDays(p)) = p
             /\ ~YmdOk(p) => YmdFromDays(YmdToDays(p)).d
                               = p.d - YmdLastDay(YmdLast(p.y, MonthDayLast(p.m)))
             /\ InRange(p.y) /\ YearOk(p.y) /\ p.m \in 1..12
             /\ l = YmdLast(p.y, MonthDayLast(p.m))
<1> DEFINE q == YearsOn(x.m, n)
           y == x.y + q
           m == MonthOn(x.m, n)
           p == YmdPlus(x, n)
           eom == SlashYmdLast(x.y, MonthDayLast(x.m))
           l == YmdLastPlus(eom, n)
<1>1. /\ InRange(x.y) /\ x.m \in 1..12 /\ x.y \in Int /\ q \in Int /\ m \in 1..12
      /\ x.m - 1 + n = 12 * q + m - 1
      /\ x = [y |-> x.y, m |-> x.m, d |-> x.d] /\ x.d \in Int /\ x.d >= 1 /\ x.d <= 31
      /\ m \in Int /\ m >= 1 /\ m <= 12
  <2>1. /\ InRange(x.y) /\ x.m \in 1..12 /\ x.y \in Int
        /\ x = [y |-> x.y, m |-> x.m, d |-> x.d] /\ x.d \in Int /\ x.d >= 1 /\ x.d <= 31
    BY YmdIs
  <2>2. q \in Int /\ m \in 1..12 /\ x.m - 1 + n = 12 * q + m - 1
    BY <2>1, OnIs
  <2> HIDE DEF q, m
  <2>3. m \in Int /\ m >= 1 /\ m <= 12
    BY <2>2
  <2> QED  BY <2>1, <2>2, <2>3
<1>2. InRange(y) /\ YearOk(y) /\ y \in Int /\ Year(y) = y
  <2>1. y \in Int /\ -YearEnd < y /\ y < YearEnd
    BY <1>1, SMT DEF Inside
  <2> HIDE DEF y
  <2>2. InRange(y) /\ YearOk(y)
    BY <2>1, SMT DEF InRange, YearOk, YearEnd
  <2> QED  BY <2>1, <2>2, YearStays
<1>3. /\ p = [y |-> y, m |-> m, d |-> x.d]
      /\ eom = [y |-> x.y, mdl |-> [m |-> x.m]] /\ l = [y |-> y, mdl |-> [m |-> m]]
      /\ l = YmdLast(y, MonthDayLast(m)) /\ YearMonth(y, m) = [y |-> y, m |-> m]
      /\ YearMonth(x.y, x.m) = [y |-> x.y, m |-> x.m]
  <2>1. Year(x.y + YearsOn(x.m, n)) = y
    BY <1>2
  <2>2. /\ p = [y |-> Year(x.y + YearsOn(x.m, n)), m |-> m, d |-> x.d]
        /\ eom = [y |-> x.y, mdl |-> [m |-> x.m]]
        /\ l = [y |-> Year(x.y + YearsOn(x.m, n)), mdl |-> [m |-> m]]
        /\ YmdLast(Year(x.y + YearsOn(x.m, n)), MonthDayLast(m))
             = [y |-> Year(x.y + YearsOn(x.m, n)), mdl |-> [m |-> m]]
        /\ YearMonth(Year(x.y + YearsOn(x.m, n)), m)
             = [y |-> Year(x.y + YearsOn(x.m, n)), m |-> m]
    BY Shifted, Zenon
  <2>3. YearMonth(x.y, x.m) = [y |-> x.y, m |-> x.m]
    BY <1>1, MonthsOn
  <2> HIDE DEF y, m, p, l, eom
  <2> QED  BY <2>1, <2>2, <2>3, Zenon
<1>4. y = x.y + q
  OBVIOUS
<1> HIDE DEF q, y, m, p, eom, l
<1>5. YearMonthMinus(YearMonth(p.y, p.m), YearMonth(x.y, x.m)) = n
  <2>1. YearMonthMinus(YearMonth(p.y, p.m), YearMonth(x.y, x.m)) = 12 * (y - x.y) + (m - x.m)
    BY <1>3 DEF YearMonthMinus, YearMinus
  <2> QED  BY <1>1, <1>4, <2>1, SMT
<1>6. (x.y < y \/ (x.y = y /\ x.m < m)) <=> n > 0
  BY <1>1, <1>4, SMT
<1>7. YmdLess(x, p) <=> n > 0
  BY <1>1, <1>3, <1>6 DEF YmdLess
<1>8. YmdLastLess(eom, l) <=> n > 0
  BY <1>3, <1>6 DEF YmdLastLess, MonthDayLastLess
<1> DEFINE f == NumberOf(y, m, 1)
           len == LengthOfMonth(y, m)
<1>9. /\ f \in Int /\ len \in Int /\ len >= 28 /\ len <= 31
      /\ YmdLastToDays(l) = f + len - 1
      /\ YmdLastDay(l) = len
      /\ YmdToDays(p) = f + x.d - 1
  <2>1. YmdToDays(p) = NumberOf(y, m, x.d)
    <3>1. YmdToDays([y |-> y, m |-> m, d |-> x.d]) = NumberOf(y, m, x.d)
      BY <1>1, <1>2, ToDays
    <3> QED  BY <1>3, <3>1
  <2>2. NumberOf(y, m, x.d) = f + x.d - 1
    BY <1>1, <1>2, DayInMonth
  <2>3. f \in Int
    BY <1>1, <1>2, FirstIsInt
  <2>4. len \in Int /\ len >= 28 /\ len <= 31
    BY <1>1, <1>2, LengthBounds
  <2>5. YmdLastToDays(l) = f + len - 1 /\ YmdLastDay(l) = len
    BY <1>1, <1>2, <1>3, FirstAndLast, LastDay
  <2> QED  BY <2>1, <2>2, <2>3, <2>4, <2>5
<1>10. ASSUME NEW j \in Nat, j < len + 28
       PROVE  /\ j < len => YmdFromDays(f + j) = [y |-> y, m |-> m, d |-> j + 1]
              /\ j >= len => YmdFromDays(f + j).d = j - len + 1
  BY <1>1, <1>2, <1>10, DaysOfMonth
<1> HIDE DEF f, len
<1>11. /\ YmdFromDays(YmdLastToDays(l)).m = p.m
       /\ YmdFromDays(YmdLastToDays(l) + 1).d = 1
  <2>1. /\ len - 1 \in Nat /\ len - 1 < len + 28 /\ len - 1 < len /\ f + (len - 1) = f + len - 1
        /\ len \in Nat /\ len < len + 28 /\ len >= len /\ f + len - 1 + 1 = f + len
        /\ len - len + 1 = 1
    BY <1>9
  <2>2. YmdFromDays(f + (len - 1)).m = m
    <3> DEFINE j == len - 1
    <3>1. j \in Nat /\ j < len + 28 /\ j < len
      BY <2>1
    <3> HIDE DEF j
    <3>2. YmdFromDays(f + j) = [y |-> y, m |-> m, d |-> j + 1]
      BY <1>10, <3>1
    <3> QED  BY <3>2 DEF j
  <2>3. YmdFromDays(f + len).d = 1
    BY <1>10, <2>1
  <2> QED  BY <1>3, <1>9, <2>1, <2>2, <2>3
<1>12. YmdOk(p) <=> x.d <= len
  <2>1. YmdOk(p) <=> x.d \in 1..len
    BY <1>1, <1>2, <1>3, <1>9, YearStays DEF YmdOk, MonthOk
  <2> QED  BY <1>1, <1>9, <2>1
<1>13. x.d - 1 \in Nat /\ f + (x.d - 1) = f + x.d - 1 /\ x.d - 1 < len + 28 /\ x.d - 1 + 1 = x.d
  BY <1>1, <1>9
<1>14. YmdOk(p) => YmdFromDays(YmdToDays(p)) = p
  <2> SUFFICES ASSUME x.d <= len PROVE YmdFromDays(YmdToDays(p)) = p
    BY <1>12
  <2>1. x.d - 1 < len
    BY <1>1, <1>9
  <2>2. YmdFromDays(f + (x.d - 1)) = [y |-> y, m |-> m, d |-> x.d - 1 + 1]
    BY <1>10, <1>13, <2>1
  <2> QED  BY <1>3, <1>9, <1>13, <2>2
<1>15. ~YmdOk(p) => YmdFromDays(YmdToDays(p)).d
                      = p.d - YmdLastDay(YmdLast(p.y, MonthDayLast(p.m)))
  <2> SUFFICES ASSUME ~(x.d <= len) PROVE YmdFromDays(YmdToDays(p)).d = x.d - len
    BY <1>3, <1>9, <1>12
  <2>1. x.d - 1 >= len /\ x.d - 1 - len + 1 = x.d - len
    BY <1>1, <1>9
  <2>2. YmdFromDays(f + (x.d - 1)).d = x.d - 1 - len + 1
    BY <1>10, <1>13, <2>1
  <2> QED  BY <1>9, <1>13, <2>1, <2>2
<1>16. InRange(p.y) /\ YearOk(p.y) /\ p.m \in 1..12 /\ l = YmdLast(p.y, MonthDayLast(p.m))
  BY <1>1, <1>2, <1>3
<1> QED  BY <1>5, <1>7, <1>8, <1>11, <1>14, <1>15, <1>16, Zenon DEF p, l, eom

\* The last of a weekday, some months on
LEMMA ShiftedWeekday ==
  ASSUME NEW x, IsYmd(x), NEW n \in Int, NEW v \in 0..6,
         Inside(x, n)
  PROVE  LET p == YmdPlus(x, n)
             l == YmdLastPlus(SlashYmdLast(x.y, MonthDayLast(x.m)), n)
         IN  YmWeekdayLastToDays(YmWeekdayLastPlus(YmWeekdayLast(x.y, x.m, WeekdayLast(v)), n))
               \in YmdToDays(Ymd(p.y, p.m, 1))..YmdLastToDays(l)
<1> DEFINE p == YmdPlus(x, n)
           l == YmdLastPlus(SlashYmdLast(x.y, MonthDayLast(x.m)), n)
           w == YmWeekdayLast(x.y, x.m, WeekdayLast(v))
<1>1. /\ InRange(x.y) /\ x.m \in 1..12
  BY DEF IsYmd, IsDate
<1>2. InRange(p.y) /\ YearOk(p.y) /\ p.m \in 1..12 /\ l = YmdLast(p.y, MonthDayLast(p.m))
  BY ShiftInside
<1>3. YearMonthPlus(YearMonth(x.y, x.m), n) = [y |-> p.y, m |-> p.m]
  <2>1. YearMonthPlus(YearMonth(x.y, x.m), n)
          = [y |-> Year(x.y + YearsOn(x.m, n)), m |-> MonthOn(x.m, n)]
    BY <1>1, MonthsOn
  <2>2. p = [y |-> Year(x.y + YearsOn(x.m, n)), m |-> MonthOn(x.m, n), d |-> x.d]
    BY Shifted, Zenon
  <2> HIDE DEF p
  <2> QED  BY <2>1, <2>2
<1>4. w = [y |-> x.y, m |-> x.m, wdl |-> WeekdayLast(v)]
  BY <1>1, YearStays, PartsStay DEF YmWeekdayLast
<1> HIDE DEF p, l, w
<1>5. YmWeekdayLastPlus(w, n) = YmWeekdayLast(p.y, p.m, WeekdayLast(v))
  BY <1>3, <1>4 DEF YmWeekdayLastPlus
<1>6. YmWeekdayLastToDays(YmWeekdayLast(p.y, p.m, WeekdayLast(v)))
        \in NumberOf(p.y, p.m, 1)..(NumberOf(p.y, p.m, 1) + LengthOfMonth(p.y, p.m) - 1)
  BY <1>2, LastIs
<1>7. /\ YmdToDays(Ymd(p.y, p.m, 1)) = NumberOf(p.y, p.m, 1)
      /\ YmdLastToDays(l) = NumberOf(p.y, p.m, 1) + LengthOfMonth(p.y, p.m) - 1
  BY <1>2, FirstAndLast
<1> QED  BY <1>5, <1>6, <1>7 DEF p, l, w

LEMMA MonthsDoRoundTrip == ClockInv => MonthsRoundTrip
<1> SUFFICES ASSUME ClockInv PROVE MonthsRoundTrip
  OBVIOUS
<1> DEFINE x == today
           wdi == WeekdayIndexed(dow, ((x.d - 1) \div 7) + 1)
           eom == SlashYmdLast(x.y, MonthDayLast(x.m))
           ym == YearMonth(x.y, x.m)
           anchor == YearMonth(setting.year, 1)
<1>1. /\ IsYmd(x) /\ InRange(x.y) /\ x.m \in 1..12 /\ x.y \in Int
      /\ InRange(setting.year) /\ dow \in 0..6
  <2>1. IsYmd(x) /\ setting.year \in Int /\ -YearEnd < setting.year /\ setting.year <= x.y
    BY TodayIs
  <2>2. dow \in 0..6
    <3>1. day \in Int /\ dow = (day + 4) % 7
      BY TodayIs
    <3> QED  BY <3>1, SMT
  <2>3. InRange(x.y) /\ x.m \in 1..12 /\ x.y \in Int
    BY <2>1, YmdIs
  <2>4. InRange(setting.year)
    BY <2>1, <2>3, YearEndIsInt, SMT DEF InRange
  <2> QED  BY <2>1, <2>2, <2>3, <2>4
<1>2. /\ YearMonthPlus(anchor, YearMonthMinus(ym, anchor)) = ym
      /\ YearMonthLess(anchor, ym) <=> YearMonthMinus(ym, anchor) > 0
      /\ MonthPlus(1, MonthMinus(x.m, 1)) = x.m
  BY <1>1, AnchorMonths, MonthArithmetic
<1>3. ASSUME NEW n \in Int, x.y + ((x.m - 1 + n) \div 12) \in ValidYears
      PROVE  Inside(x, n)
  <2> DEFINE z == x.y + YearsOn(x.m, n)
  <2>1. z \in ValidYears
    BY <1>3 DEF YearsOn
  <2> HIDE DEF z
  <2>2. -YearEnd < z /\ z < YearEnd
    BY <2>1, ValidYear
  <2> QED  BY <2>2, SMT DEF Inside, z
<1>4. \A n \in Int : YmWeekdayPlus(YmWeekday(x.y, x.m, wdi), n).wdi = wdi
  BY DEF YmWeekdayPlus, YmWeekday
<1>5. Shifts \subseteq Int
  BY DEF Shifts
<1> HIDE DEF x, wdi, ym, eom, anchor
<1>6. ASSUME NEW n \in Int
      PROVE  LET p == YmdPlus(x, n)
                 l == YmdLastPlus(eom, n)
             IN  /\ YmdPlus(p, -n) = x
                 /\ p.m = MonthPlus(x.m, n)
                 /\ MonthMinus(p.m, x.m) = n % 12
                 /\ n % 12 = 0 => /\ p = YmdPlusYears(x, n \div 12)
                                  /\ l = YmdLastPlusYears(eom, n \div 12)
                                  /\ YearMonth(p.y, p.m) = YearMonthPlusYears(ym, n \div 12)
                 /\ YearMonthOk(YearMonth(p.y, p.m)) => YmdLastOk(l)
  BY <1>1, ShiftBack, Zenon DEF ym, eom
<1>7. ASSUME NEW n \in Int, Inside(x, n)
      PROVE  LET p == YmdPlus(x, n)
                 l == YmdLastPlus(eom, n)
             IN  /\ YearMonthMinus(YearMonth(p.y, p.m), ym) = n
                 /\ YmdLess(x, p) <=> n > 0
                 /\ YmdLastLess(eom, l) <=> n > 0
                 /\ YmdFromDays(YmdLastToDays(l)).m = p.m
                 /\ YmdFromDays(YmdLastToDays(l) + 1).d = 1
                 /\ YmdOk(p) => YmdFromDays(YmdToDays(p)) = p
                 /\ ~YmdOk(p) => YmdFromDays(YmdToDays(p)).d
                                   = p.d - YmdLastDay(YmdLast(p.y, MonthDayLast(p.m)))
                 /\ YmWeekdayPlus(YmWeekday(x.y, x.m, wdi), n).wdi = wdi
                 /\ YmWeekdayLastToDays(YmWeekdayLastPlus(
                      YmWeekdayLast(x.y, x.m, WeekdayLast(dow)), n))
                      \in YmdToDays(Ymd(p.y, p.m, 1))..YmdLastToDays(l)
  BY <1>1, <1>4, <1>7, ShiftInside, ShiftedWeekday DEF ym, eom
<1> QED  BY <1>2, <1>3, <1>5, <1>6, <1>7, Zenon DEF MonthsRoundTrip, x, wdi, ym, eom, anchor

(***************************************************************************)
(* From every date, months added are taken away again, also when Year       *)
(* wraps; within the years it can hold they are the months between the two  *)
(* dates (operator+ and operator- of year_month and the full dates).        *)
(***************************************************************************)
THEOREM MonthsComeBack == Spec => []MonthsRoundTrip
<1>1. ClockInv => MonthsRoundTrip
  BY MonthsDoRoundTrip
<1> QED  BY Invariant, <1>1, PTL

-----------------------------------------------------------------------------
(* The days that rules name *)

LEMMA NewYears == NewYear(1970) = 0 /\ NewYear(1980) = 3652
BY SMT DEF NewYear

\* The first of a month, by the reference and by the count from January
LEMMA FirstOfMonthIs ==
  ASSUME NEW y \in Int, NEW m \in 1..12
  PROVE  FirstOfMonth(y, m) = NumberOf(y, m, 1)
<1> DEFINE b == NewYear(y)
           leap == IF IsLeap(y) THEN 1 ELSE 0
           p == YmdToDays(Ymd(1970, m, 1))
           l == LengthOfMonth(y, 2)
<1>1. b \in Int /\ leap \in Int /\ l = 28 + leap
  BY YearLength, MonthLength
<1>2. p = NumberOf(1970, m, 1)
  <2>1. InRange(1970)
    BY SMT DEF InRange, YearEnd
  <2> QED  BY <2>1, FirstAndLast
<1>3. p = IF m <= 2 THEN 31 * (m - 1) ELSE 59 + (153 * (m - 3) + 2) \div 5
  <2>1. ~IsLeap(1970)
    BY SMT DEF IsLeap
  <2> QED  BY <1>2, <2>1, NewYears, SMT DEF NumberOf, Before
<1>4. NumberOf(y, m, 1) = b + IF m <= 2 THEN 31 * (m - 1)
                              ELSE leap + 59 + (153 * (m - 3) + 2) \div 5
  BY <1>1 DEF NumberOf, Before
<1>5. FirstOfMonth(y, m) = b + p + (IF m > 2 THEN l - 28 ELSE 0)
  BY DEF FirstOfMonth
<1> HIDE DEF b, leap, p, l
<1> QED  BY <1>1, <1>3, <1>4, <1>5, SMT

\* The weekday on or before a day, and the one on or after it
LEMMA NextWeekday ==
  ASSUME NEW n \in Int, NEW wd \in 0..6
  PROVE  /\ WeekdayOnOrBefore(n, wd) = OnOrBefore(n, wd)
         /\ WeekdayOnOrAfter(n, wd) = OnOrBefore(n + 6, wd)
<1> DEFINE w == WeekdayFromDays(n)
           a == WeekdayMinus(wd, w)
           b == WeekdayMinus(w, wd)
<1>1. w = (n + 4) % 7 /\ w \in Int
  BY WeekdayIs
<1> HIDE DEF w
<1>2. a = (wd - w) % 7 /\ b = (w - wd) % 7
  <2>1. wd \in Int
    OBVIOUS
  <2> QED  BY <1>1, <2>1, WeekdayDifference
<1> HIDE DEF a, b
<1>3. b = (n + 4 - wd) % 7
  BY <1>1, <1>2, SMT
<1>4. a = 6 - ((n + 6 + 4 - wd) % 7)
  BY <1>1, <1>2, SMT
<1>5. WeekdayOnOrBefore(n, wd) = n - b /\ WeekdayOnOrAfter(n, wd) = n + a
  BY DEF WeekdayOnOrBefore, WeekdayOnOrAfter, a, b, w
<1>6. OnOrBefore(n, wd) = n - ((n + 4 - wd) % 7)
  BY DEF OnOrBefore
<1>7. OnOrBefore(n + 6, wd) = n + 6 - ((n + 6 + 4 - wd) % 7)
  BY DEF OnOrBefore
<1>8. n + 6 - ((n + 6 + 4 - wd) % 7) = n + (6 - ((n + 6 + 4 - wd) % 7))
  BY SMT
<1> QED  BY <1>3, <1>4, <1>5, <1>6, <1>7, <1>8

(***************************************************************************)
(* The day that the library takes a rule's date to mean, in any year that   *)
(* Year can hold, is the one the reference names: a day of the month, the   *)
(* last of a weekday, or a weekday on, before or after a day, also when     *)
(* that is in the month before or after.  (MonthDayTime::to_sys_days)       *)
(***************************************************************************)
THEOREM RulesNameDays ==
  ASSUME NEW y, InRange(y), YearOk(y), NEW at, IsMdt(at)
  PROVE  MdtToSysDays(at, y) = NamedDay(at, y) /\ NamedDay(at, y) \in Int
<1> DEFINE m == at.m  d == at.d  wd == at.wd
           f == NumberOf(y, m, 1)
           l == LengthOfMonth(y, m)
           e == f + l - 1
<1>1. /\ at.type \in {"month_day", "month_last_dow", "lteq", "gteq"}
      /\ m \in 1..12 /\ d \in 0..31 /\ wd \in 0..6
  BY DEF IsMdt
<1> HIDE DEF m, d, wd
<1>2. y \in Int /\ m \in Int /\ d \in Int
  BY <1>1 DEF InRange
<1>3. f \in Int /\ l \in Int /\ e \in Int
  <2>1. f \in Int
    BY <1>2, FirstIsInt
  <2>2. l \in Int
    BY <1>2, LengthBounds
  <2> QED  BY <2>1, <2>2
<1>4. FirstOfMonth(y, m) = f
  BY <1>1, <1>2, FirstOfMonthIs
<1>5. Year(y) = y /\ Month(m) = m /\ Day(d) = d
  BY <1>1, YearStays, PartsStay
<1>6. YmdToDays(SlashYmd(y, MonthDay(m, d))) = f + d - 1
  <2>1. SlashYmd(y, MonthDay(m, d)) = [y |-> y, m |-> m, d |-> d]
    BY <1>5 DEF SlashYmd, MonthDay, Ymd
  <2>2. YmdToDays([y |-> y, m |-> m, d |-> d]) = NumberOf(y, m, d)
    BY <1>1, <1>2, ToDays
  <2>3. NumberOf(y, m, d) = f + d - 1
    BY <1>2, DayInMonth
  <2> QED  BY <2>1, <2>2, <2>3
<1> DEFINE n == f + d - 1
<1>7. n \in Int
  BY <1>2, <1>3
<1>8. at.type # "month_last_dow" => MdtToSysDays(at, y) = MdtDayFrom(at, n)
  BY <1>6 DEF MdtToSysDays, m, d
<1>9. CASE at.type = "month_day"
  <2>1. MdtToSysDays(at, y) = n
    BY <1>8, <1>9 DEF MdtDayFrom
  <2>2. NamedDay(at, y) = f + d - 1
    BY <1>4, <1>9 DEF NamedDay, m, d
  <2> QED  BY <1>7, <2>1, <2>2
<1>10. CASE at.type = "lteq"
  <2>1. MdtToSysDays(at, y) = WeekdayOnOrBefore(n, wd)
    BY <1>8, <1>10 DEF MdtDayFrom, wd
  <2>2. NamedDay(at, y) = OnOrBefore(f - 1 + d, wd)
    BY <1>4, <1>10 DEF NamedDay, m, d, wd
  <2>3. f - 1 + d = n
    BY <1>2, <1>3
  <2> HIDE DEF n
  <2>4. WeekdayOnOrBefore(n, wd) = OnOrBefore(n, wd)
    BY <1>1, <1>7, NextWeekday
  <2>5. OnOrBefore(n, wd) \in Int
    BY <1>1, <1>7, SMT DEF OnOrBefore
  <2> QED  BY <2>1, <2>2, <2>3, <2>4, <2>5
<1>11. CASE at.type = "gteq"
  <2>1. MdtToSysDays(at, y) = WeekdayOnOrAfter(n, wd)
    BY <1>8, <1>11 DEF MdtDayFrom, wd
  <2>2. NamedDay(at, y) = OnOrBefore(f - 1 + (d + 6), wd)
    BY <1>4, <1>11 DEF NamedDay, m, d, wd
  <2>3. f - 1 + (d + 6) = n + 6
    BY <1>2, <1>3
  <2> HIDE DEF n
  <2>4. WeekdayOnOrAfter(n, wd) = OnOrBefore(n + 6, wd)
    BY <1>1, <1>7, NextWeekday
  <2>5. OnOrBefore(n + 6, wd) \in Int
    BY <1>1, <1>7, SMT DEF OnOrBefore
  <2> QED  BY <2>1, <2>2, <2>3, <2>4, <2>5
<1>12. CASE at.type = "month_last_dow"
  <2> DEFINE w == [y |-> y, m |-> m, wdl |-> [wd |-> wd]]
  <2>1. SlashYmWeekdayLast(y, MonthWeekdayLast(m, WeekdayLast(wd))) = w
    BY <1>5 DEF SlashYmWeekdayLast, MonthWeekdayLast, YmWeekdayLast, WeekdayLast
  <2>2. YmdLastToDays(YmdLast(y, MonthDayLast(m))) = e
    BY <1>1, FirstAndLast
  <2> HIDE DEF e
  <2>3. YmWeekdayLastToDays(w) = WeekdayOnOrBefore(e, wd)
    BY <2>2 DEF YmWeekdayLastToDays
  <2>4. MdtToSysDays(at, y) = WeekdayOnOrBefore(e, wd)
    BY <1>12, <2>1, <2>3 DEF MdtToSysDays, m, wd
  <2>5. NamedDay(at, y) = OnOrBefore(f - 1 + l, wd)
    BY <1>4, <1>12 DEF NamedDay, m, wd
  <2>6. f - 1 + l = e
    BY <1>3 DEF e
  <2>7. WeekdayOnOrBefore(e, wd) = OnOrBefore(e, wd)
    BY <1>1, <1>3, NextWeekday
  <2>8. OnOrBefore(e, wd) \in Int
    BY <1>1, <1>3, SMT DEF OnOrBefore
  <2> QED  BY <2>4, <2>5, <2>6, <2>7, <2>8
<1> QED  BY <1>1, <1>9, <1>10, <1>11, <1>12

-----------------------------------------------------------------------------
(* Clocks *)

\* TAI and GPS time count from the days the reference gives.
LEMMA EpochsAre ==
  /\ TaiEpoch = -TicksOfDays(NewYear(1958))
  /\ GpsEpoch = TicksOfDays(NewYear(1980) + 5)
  /\ TaiEpoch \in Int /\ GpsEpoch \in Int
<1>1. \A y \in {1958, 1970, 1980} : InRange(y)
  BY SMT DEF InRange, YearEnd
<1>2. \A y \in {1958, 1970, 1980} : YmdToDays(Ymd(y, 1, 1)) = NewYear(y) /\ NewYear(y) \in Int
  <2> TAKE y \in {1958, 1970, 1980}
  <2>1. InRange(y) /\ y \in Int
    BY <1>1
  <2>2. YmdToDays(Ymd(y, 1, 1)) = NumberOf(y, 1, 1)
    BY <2>1, FirstAndLast
  <2>3. NumberOf(y, 1, 1) = NewYear(y) /\ NewYear(y) \in Int
    BY <2>1, YearLength DEF NumberOf, Before
  <2> QED  BY <2>2, <2>3
<1>3. FirstOf(1970) = 0 /\ FirstOf(1958) = NewYear(1958) /\ NewYear(1958) \in Int
  BY <1>2, NewYears DEF FirstOf
<1>4. TaiEpoch = -TicksOfDays(NewYear(1958)) /\ TaiEpoch \in Int
  <2> DEFINE b == NewYear(1958)
  <2>1. b \in Int /\ TaiEpoch = TicksOfDays(0 - b)
    BY <1>3 DEF TaiEpoch
  <2> HIDE DEF b
  <2>2. TicksOfDays(0 - b) = -TicksOfDays(b) /\ TicksOfDays(0 - b) \in Int
    BY <2>1, SMT DEF TicksOfDays, Second
  <2> QED  BY <2>1, <2>2 DEF b
<1>5. FirstSunday(1980) = NewYear(1980) + 5
  <2>1. Year(1980) = 1980 /\ Month(1) = 1
    BY <1>1, YearStays, PartsStay
  <2>2. WeekdayIndexed(0, 1) = [wd |-> 0, index |-> 1]
    BY SMT DEF WeekdayIndexed
  <2> DEFINE x == [y |-> 1980, m |-> 1, wdi |-> [wd |-> 0, index |-> 1]]
             n == NewYear(1980)
  <2>3. FirstSunday(1980) = YmWeekdayToDays(x)
    BY <2>1, <2>2 DEF FirstSunday, YmWeekday
  <2>4. YmdToDays(Ymd(x.y, x.m, 1)) = n
    BY <1>2
  <2>5. YmWeekdayToDays(x) = WeekdayOnOrAfter(n, 0) + (1 - 1) * 7
    BY <2>4 DEF YmWeekdayToDays
  <2>6. n = 3652
    BY NewYears
  <2> HIDE DEF n
  <2>7. WeekdayOnOrAfter(n, 0) = OnOrBefore(n + 6, 0)
    BY <2>6, NextWeekday
  <2>8. OnOrBefore(n + 6, 0) = n + 5
    BY <2>6, SMT DEF OnOrBefore
  <2> HIDE DEF x
  <2> QED  BY <2>3, <2>5, <2>6, <2>7, <2>8 DEF n
<1>6. GpsEpoch = TicksOfDays(NewYear(1980) + 5) /\ GpsEpoch \in Int
  <2>1. GpsEpoch = TicksOfDays((NewYear(1980) + 5) - 0)
    BY <1>3, <1>5 DEF GpsEpoch
  <2>2. TicksOfDays(NewYear(1980) + 5) \in Int
    BY NewYears, SMT DEF TicksOfDays, Second
  <2>3. (NewYear(1980) + 5) - 0 = NewYear(1980) + 5
    BY NewYears
  <2> QED  BY <2>1, <2>2, <2>3
<1> QED  BY <1>4, <1>6

Clocks == {"sys", "utc", "tai", "gps"}

\* clock_cast between the clocks that are not local time
LEMMA CastIs ==
  ASSUME NEW leaps, NEW t, NEW d \in Clocks, NEW s \in Clocks
  PROVE  ClockCast(leaps, d, s, t) =
           IF d = s THEN t
           ELSE IF s = "utc" THEN FromUtc(leaps, d, t)
           ELSE IF d = "utc" THEN ToUtc(leaps, s, t)
           ELSE FromUtc(leaps, d, ToUtc(leaps, s, t))
<1>1. Converts(d, s) <=> d = s \/ d = "utc" \/ s = "utc"
  BY DEF Converts, Clocks
<1>2. Converts(d, s) => Convert(leaps, d, s, t) =
         IF d = s THEN t ELSE IF s = "utc" THEN FromUtc(leaps, d, t) ELSE ToUtc(leaps, s, t)
  BY <1>1 DEF Convert
<1> QED  BY <1>1, <1>2 DEF ClockCast

\* What a tick of UTC is on the other clocks, and they on it
LEMMA OtherClocks ==
  ASSUME NEW st \in Int, NEW ut \in Int
  PROVE  /\ Shown(st, ut).sys = st /\ Shown(st, ut).utc = ut
         /\ Read(st, ut).sys = st /\ Read(st, ut).utc = st
         /\ DOMAIN Shown(st, ut) = Clocks
         /\ TaiFromUtc(ut) = Shown(st, ut).tai /\ TaiToUtc(Shown(st, ut).tai) = ut
         /\ TaiToLocal(Shown(st, ut).tai) = Read(st, ut).tai
         /\ TaiFromLocal(Read(st, ut).tai) = Shown(st, ut).tai
         /\ GpsFromUtc(ut) = Shown(st, ut).gps /\ GpsToUtc(Shown(st, ut).gps) = ut
         /\ GpsToLocal(Shown(st, ut).gps) = Read(st, ut).gps
         /\ GpsFromLocal(Read(st, ut).gps) = Shown(st, ut).gps
<1> DEFINE a == TaiEpoch  b == GpsEpoch
           tai == Shown(st, ut).tai  gps == Shown(st, ut).gps
           rtai == Read(st, ut).tai  rgps == Read(st, ut).gps
<1>1. a \in Int /\ b \in Int
  BY EpochsAre
<1>2. DOMAIN Shown(st, ut) = Clocks
  BY DEF Shown, Clocks
<1>3. /\ Shown(st, ut).sys = st /\ Shown(st, ut).utc = ut
      /\ Read(st, ut).sys = st /\ Read(st, ut).utc = st
  BY DEF Shown, Read
<1>4. rtai = ut + 20 /\ rgps = ut - 18
  BY DEF Read, Second
<1>5. tai = ut + 20 + a /\ gps = ut - 18 - b
  <2> DEFINE p == TicksOfDays(NewYear(1958))  q == TicksOfDays(NewYear(1980) + 5)
  <2>1. tai = ut + 10 * Second - p /\ gps = ut - 9 * Second - q
    BY DEF Shown
  <2>2. a = -p /\ b = q
    BY EpochsAre
  <2>3. p \in Int
    <3>1. NewYear(1958) \in Int
      BY YearLength
    <3> QED  BY <3>1 DEF TicksOfDays, Second
  <2> HIDE DEF p, q, a, b, tai, gps
  <2> QED  BY <1>1, <2>1, <2>2, <2>3 DEF Second
<1>6. /\ TaiFromUtc(ut) = ut + (a + 20) /\ TaiToUtc(tai) = tai - (a + 20)
      /\ TaiToLocal(tai) = tai - a /\ TaiFromLocal(rtai) = rtai + a
  BY DEF TaiFromUtc, TaiToUtc, TaiToLocal, TaiFromLocal, Second
<1>7. /\ GpsFromUtc(ut) = ut - (b + 18) /\ GpsToUtc(gps) = gps + (b + 18)
      /\ GpsToLocal(gps) = gps + b /\ GpsFromLocal(rgps) = rgps - b
  BY DEF GpsFromUtc, GpsToUtc, GpsToLocal, GpsFromLocal, Second
<1> HIDE DEF a, b, tai, gps, rtai, rgps
<1>8. /\ ut + (a + 20) = tai /\ tai - (a + 20) = ut /\ tai - a = rtai /\ rtai + a = tai
  BY <1>1, <1>4, <1>5
<1>9. /\ ut - (b + 18) = gps /\ gps + (b + 18) = ut /\ gps + b = rgps /\ rgps - b = gps
  BY <1>1, <1>4, <1>5
<1> QED  BY <1>2, <1>3, <1>6, <1>7, <1>8, <1>9 DEF tai, gps, rtai, rgps

(***************************************************************************)
(* All clocks show one moment: when UTC at the tick ut is system time st,   *)
(* and st is ut wherever system time counts, a time taken from one clock to *)
(* another is what that clock shows.                                        *)
(***************************************************************************)
LEMMA AllShowIt ==
  ASSUME NEW leaps, NEW st \in Int, NEW ut \in Int, UtcToSys(leaps, ut) = st,
         NEW counts \in SUBSET Clocks, "sys" \in counts => UtcFromSys(leaps, st) = ut
  PROVE  Agree(leaps, Shown(st, ut), Read(st, ut), counts)
<1> DEFINE shown == Shown(st, ut)  read == Read(st, ut)
<1>1. DOMAIN shown = Clocks
  BY OtherClocks
<1>2. ASSUME NEW d \in Clocks, d # "utc"
      PROVE  FromUtc(leaps, d, ut) = shown[d]
  <2>1. CASE d = "sys"
    <3>1. FromUtc(leaps, "sys", ut) = st /\ shown["sys"] = st
      BY OtherClocks DEF FromUtc
    <3> QED  BY <2>1, <3>1
  <2>2. CASE d = "tai"
    <3>1. FromUtc(leaps, "tai", ut) = TaiFromUtc(ut) /\ TaiFromUtc(ut) = shown["tai"]
      BY OtherClocks DEF FromUtc
    <3> QED  BY <2>2, <3>1
  <2>3. CASE d = "gps"
    <3>1. FromUtc(leaps, "gps", ut) = GpsFromUtc(ut) /\ GpsFromUtc(ut) = shown["gps"]
      BY OtherClocks DEF FromUtc
    <3> QED  BY <2>3, <3>1
  <2> QED  BY <1>2, <2>1, <2>2, <2>3 DEF Clocks
<1>3. ASSUME NEW s \in counts, s # "utc"
      PROVE  ToUtc(leaps, s, shown[s]) = ut /\ ToUtcTime(leaps, s, shown[s]) = ut
  <2>1. CASE s = "sys"
    <3>1. /\ ToUtc(leaps, "sys", st) = UtcFromSys(leaps, st)
          /\ ToUtcTime(leaps, "sys", st) = UtcFromSys(leaps, st)
      BY DEF ToUtc, ToUtcTime
    <3>2. shown["sys"] = st
      BY OtherClocks
    <3>3. UtcFromSys(leaps, st) = ut
      BY <1>3, <2>1
    <3> QED  BY <2>1, <3>1, <3>2, <3>3
  <2>2. CASE s = "tai"
    <3>1. /\ ToUtc(leaps, "tai", shown["tai"]) = TaiToUtc(shown["tai"])
          /\ ToUtcTime(leaps, "tai", shown["tai"]) = TaiToUtc(shown["tai"])
      BY DEF ToUtc, ToUtcTime
    <3>2. TaiToUtc(shown["tai"]) = ut
      BY OtherClocks
    <3> QED  BY <2>2, <3>1, <3>2
  <2>3. CASE s = "gps"
    <3>1. /\ ToUtc(leaps, "gps", shown["gps"]) = GpsToUtc(shown["gps"])
          /\ ToUtcTime(leaps, "gps", shown["gps"]) = GpsToUtc(shown["gps"])
      BY DEF ToUtc, ToUtcTime
    <3>2. GpsToUtc(shown["gps"]) = ut
      BY OtherClocks
    <3> QED  BY <2>3, <3>1, <3>2
  <2> QED  BY <1>3, <2>1, <2>2, <2>3 DEF Clocks
<1>4. shown["utc"] = ut /\ shown["sys"] = st /\ shown.utc = ut /\ shown.sys = st
  BY OtherClocks
<1>5. \A d \in DOMAIN shown : \A s \in counts : ClockCast(leaps, d, s, shown[s]) = shown[d]
  <2> SUFFICES ASSUME NEW d \in Clocks, NEW s \in counts
               PROVE  ClockCast(leaps, d, s, shown[s]) = shown[d]
    BY <1>1
  <2> DEFINE t == shown[s]
  <2>1. s = "utc" => t = ut
    BY <1>4
  <2>2. s # "utc" => ToUtc(leaps, s, t) = ut
    BY <1>3
  <2>3. d # "utc" => FromUtc(leaps, d, ut) = shown[d]
    BY <1>2
  <2>4. d = "utc" => shown[d] = ut
    BY <1>4
  <2>5. d = s => t = shown[d]
    OBVIOUS
  <2>6. s \in Clocks
    OBVIOUS
  <2> HIDE DEF t, shown
  <2>7. ClockCast(leaps, d, s, t) =
          IF d = s THEN t
          ELSE IF s = "utc" THEN FromUtc(leaps, d, t)
          ELSE IF d = "utc" THEN ToUtc(leaps, s, t)
          ELSE FromUtc(leaps, d, ToUtc(leaps, s, t))
    BY <2>6, CastIs
  <2>8. ClockCast(leaps, d, s, t) = shown[d]
    BY <2>1, <2>2, <2>3, <2>4, <2>5, <2>7, Zenon
  <2> QED  BY <2>8 DEF t
<1>6. \A c \in DOMAIN shown : ClockCast(leaps, "local", c, shown[c]) = read[c]
  <2>1. \A t, c : c \in Clocks =>
          ClockCast(leaps, "local", c, t) =
            IF c = "utc" THEN FromUtc(leaps, "local", t) ELSE ToLocalTime(c, t)
    BY DEF ClockCast, Converts, Convert, Clocks
  <2>2. FromUtc(leaps, "local", ut) = st /\ read["utc"] = st
    BY OtherClocks DEF FromUtc
  <2>3. ToLocalTime("sys", shown["sys"]) = read["sys"]
    BY OtherClocks DEF ToLocalTime
  <2>4. ToLocalTime("tai", shown["tai"]) = read["tai"]
    BY OtherClocks DEF ToLocalTime
  <2>5. ToLocalTime("gps", shown["gps"]) = read["gps"]
    BY OtherClocks DEF ToLocalTime
  <2> HIDE DEF shown, read
  <2> SUFFICES ASSUME NEW c \in Clocks PROVE ClockCast(leaps, "local", c, shown[c]) = read[c]
    BY <1>1
  <2>6. c = "sys" \/ c = "utc" \/ c = "tai" \/ c = "gps"
    BY DEF Clocks
  <2> QED  BY <1>4, <2>1, <2>2, <2>3, <2>4, <2>5, <2>6
<1>7. \A c \in (counts \ {"utc"}) \union {"sys"} :
        ClockCast(leaps, c, "local", read[c]) = shown[c]
  <2>1. \A t, c : c \in Clocks /\ c # "utc" => ClockCast(leaps, c, "local", t) = FromLocalTime(c, t)
    BY DEF ClockCast, Converts, Convert, Clocks
  <2>2. FromLocalTime("sys", read["sys"]) = shown["sys"]
    BY OtherClocks DEF FromLocalTime
  <2>3. FromLocalTime("tai", read["tai"]) = shown["tai"]
    BY OtherClocks DEF FromLocalTime
  <2>4. FromLocalTime("gps", read["gps"]) = shown["gps"]
    BY OtherClocks DEF FromLocalTime
  <2> HIDE DEF shown, read
  <2> TAKE c \in (counts \ {"utc"}) \union {"sys"}
  <2>5. c = "sys" \/ c = "tai" \/ c = "gps"
    BY DEF Clocks
  <2>6. c \in Clocks /\ c # "utc"
    BY <2>5 DEF Clocks
  <2> QED  BY <2>1, <2>2, <2>3, <2>4, <2>5, <2>6
<1>8. \A c \in {"tai", "gps"} : ToUtcTime(leaps, c, shown[c]) = ut
  <2>1. ToUtcTime(leaps, "tai", shown["tai"]) = ut
    BY OtherClocks DEF ToUtcTime
  <2>2. ToUtcTime(leaps, "gps", shown["gps"]) = ut
    BY OtherClocks DEF ToUtcTime
  <2> QED  BY <2>1, <2>2
<1> HIDE DEF shown, read
<1>9. \A c \in DOMAIN shown \ {"sys"} : ToSysTime(leaps, c, shown[c]) = shown.sys
  <2> TAKE c \in DOMAIN shown \ {"sys"}
  <2>1. c = "utc" \/ c \in {"tai", "gps"}
    BY <1>1 DEF Clocks
  <2>2. (IF c = "utc" THEN shown[c] ELSE ToUtcTime(leaps, c, shown[c])) = ut
    BY <1>4, <1>8, <2>1
  <2> QED  BY <1>4, <2>2 DEF ToSysTime
<1>10. \A c \in counts \ {"utc"} : ToUtcTime(leaps, c, shown[c]) = shown.utc
  BY <1>3, <1>4
<1>11. \A c \in counts : (IF c = "utc" THEN shown[c] ELSE ToUtcTime(leaps, c, shown[c])) = ut
  BY <1>3, <1>4
<1>12. TaiFromUtc(ut) = shown.tai /\ GpsFromUtc(ut) = shown.gps
  BY OtherClocks DEF shown
<1>13. /\ \A c \in counts \ {"tai"} : ToTaiTime(leaps, c, shown[c]) = shown.tai
       /\ \A c \in counts \ {"gps"} : ToGpsTime(leaps, c, shown[c]) = shown.gps
  BY <1>11, <1>12 DEF ToTaiTime, ToGpsTime
<1>14. Agree(leaps, shown, read, counts)
  BY <1>5, <1>6, <1>7, <1>9, <1>10, <1>13 DEF Agree
<1> QED  BY <1>14 DEF shown, read

\* The leap seconds of the table are those that were announced.
LEMMA LeapsAnnounced ==
  ASSUME NEW c, \A l \in c.leaps : IsLeapLine(l)
  PROVE  \A l \in c.leaps : /\ NamedDay(l[1], l[2]) \in Int
                            /\ LeapSecond(l[1], l[2]) = TicksOfDays(NamedDay(l[1], l[2]) + 1)
<1> TAKE l \in c.leaps
<1> DEFINE at == l[1]  y == l[2]  n == NamedDay(at, y)  s == MdtToSysDays(at, y)
<1>1. IsMdt(at) /\ at.t = 1440 /\ y \in ValidYears
  BY DEF IsLeapLine, MinutesPerDay
<1> HIDE DEF at, y
<1>2. InRange(y) /\ YearOk(y)
  <2>1. y \in Int /\ -YearEnd < y /\ y < YearEnd
    BY <1>1, ValidYear
  <2> QED  BY <2>1, SMT DEF InRange, YearOk, YearEnd
<1>3. s = n /\ n \in Int
  BY <1>1, <1>2, RulesNameDays
<1>4. LeapSecond(at, y) = (s * 1440 + 1440) * 60 * Second
  BY <1>1 DEF LeapSecond, MdtToTimePoint, MinutesPerDay
<1> HIDE DEF n, s
<1>5. (n * 1440 + 1440) * 60 * Second = TicksOfDays(n + 1)
  BY <1>3, SMT DEF TicksOfDays, Second
<1> QED  BY <1>3, <1>4, <1>5 DEF n, at, y

\* Days begin in the order of their numbers, and with a whole second.
LEMMA DaysBegin ==
  ASSUME NEW m \in Int, NEW n \in Int
  PROVE  /\ TicksOfDays(m) \in Int
         /\ TicksOfDays(m) % Second = 0
         /\ TicksOfDays(m) = TicksOfDays(n) => m = n
BY SMT DEF TicksOfDays, Second

\* The table of the library counts what the reference counts.
LEMMA UtcAtIs ==
  ASSUME case \in DOMAIN Cases
  PROVE  /\ LeapTable(LeapTimes(setting))
         /\ \A l \in LeapTimes(setting) : l % Second = 0
         /\ \A st \in Int : UtcAt(st) = UtcFromSys(LeapTimes(setting), st)
<1> DEFINE c == setting
           leaps == LeapTimes(c)
           days == {NamedDay(l[1], l[2]) + 1 : l \in c.leaps}
<1>1. (\A l \in c.leaps : IsLeapLine(l)) /\ LeapTable(leaps)
  BY LeapAssumption DEF setting
<1>2. Announced = days
  BY DEF Announced
<1> HIDE DEF c
<1>3. days \subseteq Int /\ leaps = {TicksOfDays(n) : n \in days}
  <2>1. \A l \in c.leaps : /\ NamedDay(l[1], l[2]) \in Int
                           /\ LeapSecond(l[1], l[2]) = TicksOfDays(NamedDay(l[1], l[2]) + 1)
    BY <1>1, LeapsAnnounced
  <2>2. days \subseteq Int
    BY <2>1
  <2>3. leaps = {TicksOfDays(n) : n \in days}
    BY <2>1, Zenon DEF LeapTimes
  <2> QED  BY <2>2, <2>3
<1> HIDE DEF leaps, days
<1>4. \A l \in leaps : l % Second = 0
  BY <1>3, DaysBegin
<1>5. ASSUME NEW st \in Int
      PROVE  Cardinality({n \in days : TicksOfDays(n) <= st}) = Passed(leaps, st)
  <2> DEFINE S == {n \in days : TicksOfDays(n) <= st}
             T == {l \in leaps : l <= st}
             D == [l \in T |-> CHOOSE n \in days : TicksOfDays(n) = l]
  <2>1. \A l \in T : D[l] \in days /\ TicksOfDays(D[l]) = l
    BY <1>3
  <2>2. \A l \in T : D[l] \in S
    BY <2>1
  <2>3. \A n \in S : TicksOfDays(n) \in T /\ D[TicksOfDays(n)] = n
    <3> TAKE n \in S
    <3>1. TicksOfDays(n) \in T
      BY <1>3
    <3>2. D[TicksOfDays(n)] \in Int /\ n \in Int
      BY <1>3, <2>1, <3>1
    <3>3. TicksOfDays(D[TicksOfDays(n)]) = TicksOfDays(n)
      BY <2>1, <3>1
    <3> QED  BY <3>1, <3>2, <3>3, DaysBegin
  <2>4. D \in [T -> S]
    <3>1. D = [l \in T |-> D[l]]
      OBVIOUS
    <3> HIDE DEF D, S, T
    <3> QED  BY <2>2, <3>1
  <2>5. \A a, b \in T : D[a] = D[b] => a = b
    BY <2>1
  <2>6. \A n \in S : \E l \in T : D[l] = n
    BY <2>3
  <2>7. IsFiniteSet(T)
    BY <1>1, PassedType
  <2> HIDE DEF D, S, T
  <2>8. D \in Bijection(T, S)
    BY <2>4, <2>5, <2>6, Fun_IsBij
  <2>9. ExistsBijection(T, S)
    BY <2>8, Fun_ExistsBij
  <2>10. Cardinality(S) = Cardinality(T)
    BY <2>7, <2>9, FS_Bijection
  <2> QED  BY <2>10 DEF S, T, Passed
<1>6. ASSUME NEW st \in Int
      PROVE  UtcAt(st) = UtcFromSys(leaps, st)
  <2> DEFINE p == Passed(leaps, st)
  <2>1. p \in Nat
    BY <1>1, PassedType
  <2>2. UtcAt(st) = st + Second * p
    BY <1>2, <1>5 DEF UtcAt
  <2>3. UtcFromSys(leaps, st) = st + p * Second
    BY DEF UtcFromSys
  <2> HIDE DEF p
  <2>4. st + Second * p = st + p * Second
    BY <2>1 DEF Second
  <2> QED  BY <2>2, <2>3, <2>4
<1> QED  BY <1>1, <1>4, <1>6 DEF leaps, c

LEMMA ClocksDoAgree == ClockInv => ClocksAgree
<1> SUFFICES ASSUME ClockInv PROVE ClocksAgree
  OBVIOUS
<1> DEFINE leaps == LeapTimes(setting)
           mark == now * 60 * Second
           Counts(st, ut) == {"utc", "tai", "gps"} \union (IF ut = UtcAt(st) THEN {"sys"} ELSE {})
<1>1. case \in DOMAIN Cases
  BY DEF ClockInv
<1>2. mark \in Int
  BY TodayIs DEF now, MinutesPerDay, Second
<1>3. /\ LeapTable(leaps) /\ \A l \in leaps : l % Second = 0
      /\ \A st \in Int : UtcAt(st) = UtcFromSys(leaps, st)
  BY <1>1, UtcAtIs
<1> HIDE DEF leaps, mark
<1>4. ASSUME NEW st \in Int
      PROVE  /\ UtcFromSys(leaps, st) = UtcAt(st)
             /\ \A ut \in UtcAt(st) .. UtcAt(st + 1) - 1 :
                  /\ IsLeapSecond(leaps, ut).leap <=> ut # UtcAt(st)
                  /\ Agree(leaps, Shown(st, ut), Read(st, ut), Counts(st, ut))
  <2>1. UtcAt(st) = UtcFromSys(leaps, st) /\ UtcAt(st + 1) = UtcFromSys(leaps, st + 1)
    BY <1>3
  <2> SUFFICES ASSUME NEW ut \in UtcAt(st) .. UtcAt(st + 1) - 1
               PROVE  /\ IsLeapSecond(leaps, ut).leap <=> ut # UtcAt(st)
                      /\ Agree(leaps, Shown(st, ut), Read(st, ut), Counts(st, ut))
    BY <2>1
  <2>2. ut \in UtcFromSys(leaps, st)..(UtcFromSys(leaps, st + 1) - 1)
    BY <2>1
  <2>3. /\ ut \in Int /\ UtcToSys(leaps, ut) = st
        /\ IsLeapSecond(leaps, ut).leap <=> ut # UtcFromSys(leaps, st)
    BY <1>3, <2>2, UtcTicks
  <2> DEFINE counts == Counts(st, ut)
  <2>4. counts \in SUBSET Clocks
    BY DEF Clocks
  <2>5. "sys" \in counts => UtcFromSys(leaps, st) = ut
    BY <2>1
  <2> HIDE DEF counts
  <2>6. Agree(leaps, Shown(st, ut), Read(st, ut), counts)
    BY <2>3, <2>4, <2>5, AllShowIt
  <2> QED  BY <2>1, <2>3, <2>6 DEF counts
<1>5. \A st \in mark - 5 .. mark + 5 : st \in Int
  BY <1>2
<1> QED  BY <1>4, <1>5 DEF ClocksAgree, leaps, mark

(***************************************************************************)
(* On the way through any table of leap seconds, the count of the library   *)
(* is that of the announcements, is_leap_second knows the leap seconds, and *)
(* a moment taken from one clock to another, by any of the ways there are,  *)
(* is what that clock shows.  (utc_clock, tai_clock, gps_clock, clock_cast) *)
(***************************************************************************)
THEOREM AllClocksAgree == Spec => []ClocksAgree
BY Invariant, ClocksDoAgree, PTL
=============================================================================
