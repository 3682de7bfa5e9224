--------------------------- MODULE MC_WorldClock ---------------------------
(* WorldClock with zones and years chosen by hand, for TLC: rule lines as  *)
(* they are in the IANA database, at moments where they are intricate.     *)
EXTENDS WorldClock

Line(start, end, at, save) == [start |-> start, end |-> end, at |-> at, save |-> save]
On(m, d, t, zn) == Mdt("month_day", m, d, 0, t, zn)
LastDow(m, wd, t, zn) == Mdt("month_last_dow", m, 0, wd, t, zn)
OnOrAfter(wd, m, d, t, zn) == Mdt("gteq", m, d, wd, t, zn)
OnOrBeforeDay(wd, m, d, t, zn) == Mdt("lteq", m, d, wd, t, zn)

\* United States 1967 to 1986: one long line of autumns beside four of springs.
US == <<Line(1967, 1973, LastDow(4, 0, 120, "local"), 60),
        Line(1967, 2006, LastDow(10, 0, 120, "local"), 0),
        Line(1974, 1974, On(1, 6, 120, "local"), 60),
        Line(1975, 1975, LastDow(2, 0, 120, "local"), 60),
        Line(1976, 1986, LastDow(4, 0, 120, "local"), 60),
        Line(1987, 2006, OnOrAfter(0, 4, 1, 120, "local"), 60)>>

NewYork ==
  [rules |-> US, leaps |-> {}, year |-> 1974, days |-> 430, ticks |-> {0, 359, 360, 419, 420, 480},
   zonelets |-> <<Zonelet(-300, "is_empty", 0, 1967, On(1, 1, 0, "local")),
                  LastZonelet(-300, "has_rule", 0)>>]

\* European Union, and a country that leaves it in summer for a fixed saving.
EU == <<Line(1977, 1980, OnOrAfter(0, 4, 1, 60, "utc"), 60),
        Line(1977, 1977, LastDow(9, 0, 60, "utc"), 0),
        Line(1978, 1978, On(10, 1, 60, "utc"), 0),
        Line(1979, 1995, LastDow(9, 0, 60, "utc"), 0),
        Line(1981, 2020, LastDow(3, 0, 60, "utc"), 60),
        Line(1996, 2020, LastDow(10, 0, 60, "utc"), 0)>>

Leaver ==
  [rules |-> EU, leaps |-> {}, year |-> 1978, days |-> 550, ticks |-> {0, 59, 60, 119, 120, 1380},
   zonelets |-> <<Zonelet(60, "has_rule", 0, 1979, On(7, 1, 0, "local")),
                  LastZonelet(0, "has_save", 120)>>]

\* New South Wales, in standard time; summer goes over the new year.  A zone
\* begins in the middle of one.
AN == <<Line(1971, 1985, LastDow(10, 0, 120, "standard"), 60),
        Line(1972, 1972, On(2, 27, 120, "standard"), 0),
        Line(1973, 1981, OnOrAfter(0, 3, 1, 120, "standard"), 0),
        Line(1982, 1982, OnOrAfter(0, 4, 1, 120, "standard"), 0),
        Line(1983, 1985, OnOrAfter(0, 3, 1, 120, "standard"), 0),
        Line(1986, 1989, OnOrAfter(0, 3, 15, 120, "standard"), 0),
        Line(1986, 1986, On(10, 19, 120, "standard"), 60),
        Line(1987, 1999, LastDow(10, 0, 120, "standard"), 60)>>

\* The first leap seconds.
Leaps == {<<On(6, 30, 1440, "utc"), 1972>>, <<On(12, 31, 1440, "utc"), 1972>>,
           <<On(12, 31, 1440, "utc"), 1973>>}

Settler ==
  [rules |-> AN, leaps |-> Leaps, year |-> 1971, days |-> 735, ticks |-> {0, 840, 899, 900, 960},
   zonelets |-> <<Zonelet(570, "is_empty", 0, 1971, On(12, 24, 0, "local")),
                  LastZonelet(600, "has_rule", 0)>>]

\* Israel: the Friday on or before the first of April is often in March.
Zion == <<Line(2004, 2004, On(4, 7, 60, "local"), 60),
          Line(2004, 2004, On(9, 22, 60, "local"), 0),
          Line(2005, 2012, OnOrBeforeDay(5, 4, 1, 120, "local"), 60),
          Line(2005, 2005, On(10, 9, 120, "local"), 0),
          Line(2006, 2006, On(10, 1, 120, "local"), 0),
          Line(2007, 2007, On(9, 16, 120, "local"), 0),
          Line(2008, 2012, OnOrAfter(0, 9, 27, 120, "local"), 0)>>

Jerusalem ==
  [rules |-> Zion, leaps |-> {}, year |-> 2005, days |-> 460, ticks |-> {0, 1320, 1380, 1439},
   zonelets |-> <<LastZonelet(120, "has_rule", 0)>>]

\* Samoa, which left out a day when it crossed the date line.
WS == <<Line(2010, 2010, LastDow(9, 0, 0, "local"), 60),
        Line(2011, 2011, OnOrAfter(6, 4, 1, 240, "local"), 0),
        Line(2011, 2011, LastDow(9, 6, 180, "local"), 60),
        Line(2012, 2020, OnOrAfter(0, 4, 1, 240, "local"), 0),
        Line(2012, 2020, LastDow(9, 0, 180, "local"), 60)>>

Samoa ==
  [rules |-> WS, leaps |-> {}, year |-> 2011, days |-> 460, ticks |-> {0, 540, 600, 660, 840, 900},
   zonelets |-> <<Zonelet(-660, "has_rule", 0, 2011, On(12, 29, 1440, "local")),
                  LastZonelet(780, "has_rule", 0)>>]

\* War time in the United States: savings that go on under another name, and
\* a zone that takes no part before and after.
War == <<Line(1918, 1919, LastDow(3, 0, 120, "local"), 60),
         Line(1918, 1919, LastDow(10, 0, 120, "local"), 0),
         Line(1942, 1942, On(2, 9, 120, "local"), 60),
         Line(1945, 1945, On(8, 14, 1380, "utc"), 60),
         Line(1945, 1945, On(9, 30, 120, "local"), 0)>>

WarTime ==
  [rules |-> War, leaps |-> {}, year |-> 1945, days |-> 370, ticks |-> {0, 359, 360, 420, 1320, 1380},
   zonelets |-> <<Zonelet(-300, "is_empty", 0, 1942, On(1, 1, 0, "local")),
                  Zonelet(-300, "has_rule", 0, 1946, On(1, 1, 0, "local")),
                  LastZonelet(-360, "is_empty", 0)>>]

Plain(year, days) ==
  [rules |-> <<>>, zonelets |-> <<LastZonelet(0, "is_empty", 0)>>,
   leaps |-> {}, year |-> year, days |-> days, ticks |-> {0, 1439}]

\* The ends of the range, year 0, centuries with and without a leap day, 1970.
SomeCases == <<NewYork, Leaver, Settler, Jerusalem, Samoa, WarTime,
              Plain(-32767, 70), Plain(-1, 800), Plain(1899, 440),
              Plain(1969, 440), Plain(1999, 440), Plain(32767, 365)>>

Earliest == -1000000000
=============================================================================
