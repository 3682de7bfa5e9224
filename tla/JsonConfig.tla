---------------------------- MODULE JsonConfig ----------------------------
(***************************************************************************)
(* configure.cpp: configurations and data frames as JSON documents.  An    *)
(* object is a record with the members that are there; a member that the   *)
(* code takes as an array or as a single element is [many |-> sequence] or *)
(* [one |-> element]; one whose JSON type is tested is [tag, val].         *)
(* Configurations are those of C37118; the scale of a phasor, an int here  *)
(* and unsigned there, is taken not to be negative.                        *)
(***************************************************************************)
EXTENDS C37118

CONSTANT IntMax   \* the largest int: asInt throws beyond

Null == [member \in {} |-> 0]

ReplaceIfMember(j, key, value) == IF key \in DOMAIN j THEN j[key] ELSE value

\* several spellings of one member: the last that is there counts
Spelled(j, keys, value) ==
  FoldLeft(LAMBDA v, key : ReplaceIfMember(j, key, v), value, keys)

IdOf(j, value) == W16(Spelled(j, <<"id", "idcode">>, value))

Elements(v) == IF "many" \in DOMAIN v THEN v.many ELSE <<v.one>>
ElementsOf(j, key) == IF key \in DOMAIN j THEN Elements(j[key]) ELSE << >>

Str(s) == [tag |-> "string", val |-> s]
UInt(n) == [tag |-> "uint", val |-> n]
Bool(b) == [tag |-> "bool", val |-> b]

-----------------------------------------------------------------------------
(* Reading a configuration                                                 *)

\* std::to_string
Digits[n \in Nat] ==
  IF n < 10 THEN <<ToString(n)>> ELSE Append(Digits[n \div 10], ToString(n % 10))

Letters(name, s) == [i \in 1..Len(s) |-> name \o <<"-", s[i]>>]
Numbers(name, from, n) == [i \in 1..n |-> name \o Digits[from + i - 1]]

\* the names of the phases of a group of phasors
ChannelNames(name, cnt) ==
  CASE cnt = 1 -> <<name>>
    [] cnt = 3 -> Letters(name, <<"A", "B", "C">>)
    [] cnt = 4 -> Letters(name, <<"A", "B", "C", "N">>)
    [] OTHER -> Numbers(Append(name, "-"), 1, cnt)

PhasorTypeOf(j) ==
  IF "type" \notin DOMAIN j THEN 0
  ELSE IF j.type.tag = "uint" THEN j.type.val
  ELSE IF j.type.val = "voltage" THEN 0 ELSE 1

\* a group of channels: names, each with type and scale
InsertPhasorConfig(j) ==
  LET names == ChannelNames(j.name, ReplaceIfMember(j, "count", 1))
  IN [names |-> names,
      info |-> Times(<<PhasorTypeOf(j), ReplaceIfMember(j, "scale", 0)>>, Len(names))]

\* "pow" gives peak (2), "peak" and "rms" give single_point_on_wave (0)
AnalogTypeOf(j) ==
  IF "type" \notin DOMAIN j THEN 0
  ELSE IF j.type.tag = "uint" THEN j.type.val
  ELSE IF j.type.val # "pow" THEN 0 ELSE 2

InsertAnalogConfig(j) ==
  LET cnt == ReplaceIfMember(j, "count", 1)
      names == IF cnt = 1 THEN <<j.name>> ELSE Numbers(Append(j.name, "-"), 1, cnt)
  IN [names |-> names,
      info |-> Times(<<AnalogTypeOf(j), ReplaceIfMember(j, "scale", 0)>>, Len(names))]

\* mutant: a group of any size makes a word
InsertDigitalConfig_AnySize(j) ==
  LET names == Elements(j.name)
      flags(key) == IF key \in DOMAIN j /\ j[key].tag = "uint" THEN W16(j[key].val) ELSE 255
  IN [names |-> names, info |-> << <<flags("nominal"), flags("active")>> >>]

\* Only a group of 16 makes a word.  A Boolean `nominal` ends up in `active`.
InsertDigitalConfig(j) ==
  LET named == "many" \in DOMAIN j.name
      count == ReplaceIfMember(j, "count", 0)
      cnt == IF named /\ count = 0 THEN Len(j.name.many) ELSE count
      is(key, tag) == key \in DOMAIN j /\ j[key].tag = tag
      active == IF is("nominal", "bool") THEN j.nominal.val
                ELSE is("active", "bool") => j.active.val
      nameOf(i) == IF i <= Len(j.name.many) THEN j.name.many[i] ELSE << >>
  IN IF cnt # 16 THEN [names |-> << >>, info |-> << >>]
     ELSE [names |-> IF named THEN [i \in 1..16 |-> nameOf(i)] ELSE Numbers(j.name.one, 0, 16),
           info |-> << <<IF is("nominal", "uint") THEN W16(j.nominal.val) ELSE 255,
                         IF is("active", "uint") THEN W16(j.active.val)
                         ELSE IF active THEN 255 ELSE 0>> >>]

FormatOf(j, key) ==
  IF ReplaceIfMember(j, key, "floating_point") = "integer" THEN "int" ELSE "float"

LoadPmuConfigJson(j) ==
  LET groups == [phasor |-> [i \in DOMAIN ElementsOf(j, "phasor") |->
                              InsertPhasorConfig(ElementsOf(j, "phasor")[i])],
                 analog |-> [i \in DOMAIN ElementsOf(j, "analog") |->
                              InsertAnalogConfig(ElementsOf(j, "analog")[i])],
                 digital |-> [i \in DOMAIN ElementsOf(j, "digital") |->
                              InsertDigitalConfig(ElementsOf(j, "digital")[i])]]
      all(field) == [k \in DOMAIN groups |->
                      Concat([i \in DOMAIN groups[k] |-> groups[k][i][field]])]
  IN [station |-> ReplaceIfMember(j, "name", << >>),
      id |-> IdOf(j, 0),
      change |-> W16(ReplaceIfMember(j, "cfgcnt", 0)),
      position |-> [x \in {"lat", "lon", "elev"} |-> ReplaceIfMember(j, x, Stale)],
      format |-> [phasor |-> FormatOf(j, "phasor_format"),
                  coord |-> IF ReplaceIfMember(j, "phasor_coordinates", "rectangular") = "polar"
                            THEN "polar" ELSE "rect",
                  analog |-> FormatOf(j, "analog_format"),
                  freq |-> FormatOf(j, "frequency_format")],
      nominal |-> Spelled(j, <<"nominal_frequency", "nominalfrequency", "fnom">>, 60),
      count |-> [k \in DOMAIN groups |-> W16(Len(all("info")[k]))],
      names |-> all("names"), info |-> all("info"), active |-> TRUE]

\* A document holds the configuration as its member "config" or is one.  A PMU
\* that is not in an array gets the id of the whole when it has none.
LoadConfigJson(doc) ==
  LET base == ReplaceIfMember(doc, "config", doc)
      idcode == IdOf(base, 0)
      single == LoadPmuConfigJson(IF "pmu" \in DOMAIN base THEN base.pmu.one ELSE Null)
  IN [idcode |-> idcode, soc |-> Stale, fracSec |-> Stale,
      dataRate |-> I16(Spelled(base, <<"datarate", "data_rate">>, 30)),
      timeBase |-> Spelled(base, <<"time_base", "timebase">>, 1000000),
      pmus |-> IF "pmu" \in DOMAIN base /\ "many" \in DOMAIN base.pmu
               THEN [i \in DOMAIN base.pmu.many |-> LoadPmuConfigJson(base.pmu.many[i])]
               ELSE <<[single EXCEPT !.id = IF @ = 0 THEN idcode ELSE @]>>]

-----------------------------------------------------------------------------
(* Writing a configuration                                                 *)

\* an array, a member only when it has elements
Listed(key, elements) ==
  IF elements = << >> THEN Null ELSE [k \in {key} |-> [many |-> elements]]

Join(f, g) == [k \in DOMAIN f \cup DOMAIN g |-> IF k \in DOMAIN f THEN f[k] ELSE g[k]]

FormatName(format) == IF format = "int" THEN "integer" ELSE "floating_point"

\* mutant: the scale is left out
PhasorJson_NoScale(c, i) ==
  LET type == c.info["phasor"][i][1]
  IN [name |-> c.names["phasor"][i],
      type |-> CASE type = 0 -> Str("voltage") [] type = 1 -> Str("current")
                 [] OTHER -> UInt(type)]

PhasorJson(c, i) ==
  LET type == c.info["phasor"][i][1]
  IN [name |-> c.names["phasor"][i], scale |-> c.info["phasor"][i][2],
      type |-> CASE type = 0 -> Str("voltage") [] type = 1 -> Str("current")
                 [] OTHER -> UInt(type)]

AnalogJson(c, i) ==
  LET type == c.info["analog"][i][1]
  IN [name |-> c.names["analog"][i], scale |-> c.info["analog"][i][2],
      type |-> CASE type = 0 -> Str("pow") [] type = 1 -> Str("rms") [] type = 2 -> Str("peak")
                 [] OTHER -> UInt(type)]

DigitalJson(c, i) ==
  [name |-> [many |-> SubSeq(c.names["digital"], 16 * i - 15, 16 * i)],
   active |-> UInt(c.info["digital"][i][2]), nominal |-> UInt(c.info["digital"][i][1])]

\* addPmuJson: neither where it is nor whether it is active
PmuJson(c) ==
  Join([name |-> c.station, idcode |-> c.id, cfgcnt |-> c.change,
        phasor_format |-> FormatName(c.format.phasor),
        analog_format |-> FormatName(c.format.analog),
        frequency_format |-> FormatName(c.format.freq),
        phasor_coordinates |-> IF c.format.coord = "polar" THEN "polar" ELSE "rectangular",
        nominal_frequency |-> c.nominal],
       Join(Listed("phasor", [i \in 1..c.count["phasor"] |-> PhasorJson(c, i)]),
            Join(Listed("analog", [i \in 1..c.count["analog"] |-> AnalogJson(c, i)]),
                 Listed("digital", [i \in 1..c.count["digital"] |-> DigitalJson(c, i)]))))

\* no member "pmu" when there is none
WriteConfigJson(config) ==
  [config |-> Join([idcode |-> config.idcode, data_rate |-> config.dataRate,
                    time_base |-> config.timeBase],
                   Listed("pmu", [i \in 1..Len(config.pmus) |-> PmuJson(config.pmus[i])]))]

-----------------------------------------------------------------------------
(* Data frames.  Fractions of a second are counted in units of 1 / Unit,   *)
(* angles in quarters of a turn.                                           *)

Polar(m, angle) ==
  CASE angle % 4 = 0 -> <<m, 0>> [] angle % 4 = 1 -> <<0, m>>
    [] angle % 4 = 2 -> <<-m, 0>> [] angle % 4 = 3 -> <<0, -m>>

WritePmuDataJson(d) ==
  Join([freq |-> d.freq, rocof |-> d.rocof, stat |-> d.stat],
       Join(IF d.phasors = << >> THEN Null ELSE [phasor |-> Concat(d.phasors)],
            Join(IF d.analog = << >> THEN Null ELSE [analog |-> d.analog],
                 IF d.digital = << >> THEN Null ELSE [digital |-> d.digital])))

LoadPmuDataJson(j) ==
  LET v == ReplaceIfMember(j, "phasor", << >>)
      polar == ReplaceIfMember(j, "polar_coordinates", FALSE)
      number(i) == IF i <= Len(v) THEN v[i] ELSE 0
  IN [freq |-> ReplaceIfMember(j, "freq", 0), rocof |-> ReplaceIfMember(j, "rocof", 0),
      stat |-> W16(ReplaceIfMember(j, "stat", 0)),
      phasors |-> [i \in 1..((Len(v) + 1) \div 2) |->
                    IF polar THEN Polar(number(2 * i - 1), number(2 * i))
                    ELSE <<number(2 * i - 1), number(2 * i)>>],
      analog |-> ReplaceIfMember(j, "analog", << >>),
      digital |-> [i \in DOMAIN ReplaceIfMember(j, "digital", << >>) |-> W16(j.digital[i])]]

\* mutant: the fraction is not written
AddDataFrameJson_NoFraction(frame) ==
  Join([id |-> frame.idcode, time_quality |-> frame.quality, soc |-> frame.soc],
       Listed("pmu", [i \in 1..Len(frame.pmus) |-> WritePmuDataJson(frame.pmus[i])]))

AddDataFrameJson(frame) ==
  Join([id |-> frame.idcode, time_quality |-> frame.quality, soc |-> frame.soc,
        fracsec |-> frame.frac],
       Listed("pmu", [i \in 1..Len(frame.pmus) |-> WritePmuDataJson(frame.pmus[i])]))

WriteDataJson(frames) == [data |-> [many |-> [i \in DOMAIN frames |-> AddDataFrameJson(frames[i])]]]

\* asInt of a number beyond the range of int
FrameThrows(j) == "time" \notin DOMAIN j /\ "soc" \in DOMAIN j /\ j.soc > IntMax

\* without a time quality the variable still holds the id
LoadDataFrame(j) ==
  LET id == Spelled(j, <<"id", "idcode">>, 0)
      timed == "time" \in DOMAIN j
      pmus == IF "pmu" \in DOMAIN j THEN Elements(j.pmu) ELSE <<Null>>
  IN [idcode |-> W16(id),
      quality |-> Spelled(j, <<"timequality", "time_quality">>, id) % 256,
      soc |-> IF timed THEN j.time \div Unit ELSE ReplaceIfMember(j, "soc", Stale),
      frac |-> IF timed THEN j.time % Unit
               ELSE IF "soc" \in DOMAIN j THEN ReplaceIfMember(j, "fracsec", Stale) ELSE Stale,
      pmus |-> [i \in DOMAIN pmus |-> LoadPmuDataJson(pmus[i])]]
============================================================================
