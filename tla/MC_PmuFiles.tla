--------------------------- MODULE MC_PmuFiles ---------------------------
(* PmuFiles with configurations, frames and documents written by hand,    *)
(* for TLC.                                                               *)
EXTENDS PmuFiles

Format(ph, coord, an, fr) == [phasor |-> ph, coord |-> coord, analog |-> an, freq |-> fr]

Pmu(id, format, ph, an, dg, nominal) ==
  [station |-> <<"P", "M", "U">>, id |-> id, format |-> format, change |-> 3, active |-> TRUE,
   position |-> [lat |-> 46, lon |-> -119, elev |-> 110],
   count |-> [phasor |-> Len(ph), analog |-> Len(an), digital |-> Len(dg)],
   names |-> [phasor |-> [i \in DOMAIN ph |-> Times("p", i)],
              analog |-> [i \in DOMAIN an |-> Times("a", i)],
              digital |-> [i \in 1..(16 * Len(dg)) |-> Times("d", i)]],
   info |-> [phasor |-> ph, analog |-> an, digital |-> dg], nominal |-> nominal]

Program(id, pmus) ==
  [idcode |-> id, soc |-> Stale, fracSec |-> Stale, timeBase |-> 100, dataRate |-> -2,
   pmus |-> pmus]

\* No PMU; each kind of channel and format, and types without a name.
SomeConfigs ==
  {Program(4, << >>),
   Program(65535, <<Pmu(7, Format("int", "polar", "float", "int"), << <<0, 5>>, <<129, 6>> >>,
                        << >>, << >>, 50),
                    Pmu(8, Format("float", "rect", "int", "float"), << <<1, 0>> >>,
                        << <<1, 9>>, <<130, -3>> >>, << <<16, 255>>, <<0, 65535>> >>, 60)>>)}

Data(n, an, dg) ==
  [stat |-> 9, freq |-> 60, rocof |-> -1, phasors |-> [i \in 1..n |-> <<i, 10 * i>>],
   analog |-> [i \in 1..an |-> 3], digital |-> [i \in 1..dg |-> 6]]

Frame(soc, pmus) == [idcode |-> 300, quality |-> 15, soc |-> soc, frac |-> 25, pmus |-> pmus]

\* Frames that fit the second configuration, an empty one, one after 2038.
SomeFrames ==
  {<<Frame(5, <<Data(2, 0, 0), Data(1, 2, 2)>>)>>,
   <<Frame(6, << >>), Frame(IntMax, <<Data(1, 0, 0)>>)>>,
   <<Frame(IntMax + 1, <<Data(1, 1, 0)>>)>>}

Single == [one |-> [name |-> <<"P">>]]
Groups == [many |-> <<[name |-> Times("V", 15), count |-> 4, scale |-> 2, type |-> Str("voltage")],
                      [name |-> <<"I">>, count |-> 3, type |-> Str("current")],
                      [name |-> <<"X">>, count |-> 2, type |-> UInt(128)]>>]
Bits == [many |-> [i \in 1..16 |-> Times("b", i)]]
Words == [many |-> <<[name |-> [one |-> <<"D">>], count |-> 16, active |-> UInt(7)],
                     [name |-> Bits, nominal |-> Bool(FALSE), active |-> Bool(TRUE)],
                     [name |-> [one |-> <<"E">>], count |-> 8]>>]

\* One PMU by itself, without an id; a document that is the configuration.
Small == [idcode |-> 77, pmu |-> [one |-> [name |-> <<"S">>, phasor |-> Single, fnom |-> 50]],
          default |-> [idcode |-> 77, timequality |-> 3, time |-> 1225,
                       pmu |-> [one |-> [phasor |-> <<2, 1>>, polar_coordinates |-> TRUE,
                                         stat |-> 1]]]]

\* Groups of every size, one whose names do not fit their places, a scale that
\* does not fit 24 bits, digital words and a group that makes none, aliases, a
\* position, data with more than one frame; the second PMU is empty.
Large == [config |-> [id |-> 5, idcode |-> 70000, datarate |-> 60, timebase |-> 100,
                      pmu |-> [many |-> <<[name |-> <<"L">>, id |-> 3, lat |-> 46, phasor |-> Groups,
                                           phasor_format |-> "integer",
                                           analog |-> [one |-> [name |-> <<"A">>, count |-> 2,
                                                                scale |-> -8388609,
                                                                type |-> Str("pow")]],
                                           digital |-> Words],
                                          [name |-> <<"M">>]>>]],
          data |-> [many |-> <<[id |-> 5, soc |-> 8,
                                pmu |-> [many |-> <<[phasor |-> [i \in 1..18 |-> i],
                                                     analog |-> <<4, 5>>, digital |-> <<1, 2>>,
                                                     freq |-> 60, stat |-> 2], Null>>]],
                               [id |-> 5, soc |-> 9, fracsec |-> 50,
                                pmu |-> [one |-> [stat |-> 4]]]>>]]

\* A configuration without data; two PMUs, and data whose seconds do not fit an
\* int.
Plain == [config |-> [idcode |-> 9, pmu |-> [many |-> <<[name |-> <<"Q">>]>>]]]
Late == [config |-> [idcode |-> 9, pmu |-> [many |-> <<[name |-> <<"R">>, phasor |-> Single],
                                                         [name |-> <<"T">>]>>]],
         default |-> [id |-> 9, soc |-> IntMax + 1, pmu |-> [one |-> [phasor |-> <<1, 1>>]]]]

SomeDocuments == {Small, Large, Plain, Late}

\* none, the smallest, between two codes, the largest
SomeTolerances == {-99, -12, -11, 0, 38}
===========================================================================
