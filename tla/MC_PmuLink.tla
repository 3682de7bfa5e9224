---------------------------- MODULE MC_PmuLink ----------------------------
(* PmuLink with a few configurations and measurements, for TLC. *)
EXTENDS PmuLink

\* Names of up to 17 characters, none the same as another.
Pmu(ph, an, dg, format, nominal, active) ==
  [station |-> Times("s", 8 * an), id |-> 7, format |-> format,
   count |-> [phasor |-> ph, analog |-> an, digital |-> dg],
   names |-> [phasor |-> [i \in 1..ph |-> Times("p", i)],
              analog |-> [i \in 1..an |-> Times("a", 14 + i)],
              digital |-> [i \in 1..(16 * dg) |-> Times("d", 1 + i)]],
   info |-> [phasor |-> [i \in 1..ph |-> <<"voltage", 10 * i>>],
             analog |-> [i \in 1..an |-> <<"rms", i - 2>>],
             digital |-> Times(<<255, 7>>, dg)],
   nominal |-> nominal, change |-> 1, active |-> active]

Format(ph, coord, an, fr) == [phasor |-> ph, coord |-> coord, analog |-> an, freq |-> fr]
Ints == Format("int", "rect", "int", "int")
Polars == Format("int", "polar", "float", "float")
Floats == Format("float", "rect", "float", "int")

\* a station of 17 characters, and conversions that do not fit 24 bits
WidePmu ==
  [Pmu(1, 2, 0, Floats, 60, TRUE) EXCEPT
    !.station = Times("s", 17),
    !.info = [phasor |-> << <<"current", 16777226>> >>,
              analog |-> << <<"peak", 8388608>>, <<"peak", -8388609>> >>, digital |-> << >>]]

Source(id, base, pmus) ==
  [idcode |-> id, soc |-> 1000, fracSec |-> 5, timeBase |-> base, dataRate |-> 30,
   pmus |-> pmus]

\* Every format, zero to two channels of a kind, both nominal frequencies, one
\* or two PMUs, an inactive one, two ids, numbers that do not fit; pairs that
\* differ in one thing only.
AllConfigs ==
  {Source(1, 50, <<Pmu(1, 1, 1, Ints, 60, TRUE)>>),
   Source(1, 50, <<Pmu(1, 1, 1, Ints, 50, TRUE)>>),
   Source(1, 1000, <<Pmu(2, 0, 0, Polars, 60, TRUE)>>),
   Source(1, 1000, <<Pmu(0, 2, 0, Floats, 50, TRUE), Pmu(1, 0, 1, Polars, 60, TRUE)>>),
   Source(2, 1000, <<Pmu(2, 0, 0, Floats, 60, TRUE)>>),
   Source(1, 50, <<Pmu(1, 0, 0, Ints, 60, FALSE), Pmu(1, 2, 0, Floats, 60, TRUE)>>),
   Source(1, 16777266, <<WidePmu>>)}

OneConfig == {Source(1, 50, <<Pmu(1, 1, 1, Ints, 60, TRUE)>>)}

Sample(a, b) ==
  [stat |-> 3, phasors |-> << <<a, b>>, <<30, 2>> >>, freq |-> a, rocof |-> -b,
   analog |-> <<a, -4>>, digital |-> <<5>>]

SomeFrames ==
  {[soc |-> 1001, frac |-> 33, quality |-> 2, pmus |-> <<Sample(25, 7), Sample(110, -9)>>],
   [soc |-> 1002, frac |-> 99, quality |-> 15, pmus |-> <<Sample(0, 0), Sample(25, 7)>>]}

ShortTexts == {[text |-> "text", size |-> 5]}
===========================================================================
