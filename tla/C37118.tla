------------------------------- MODULE C37118 -------------------------------
(***************************************************************************)
(* The C37.118 codec: generate* and parse* of c37118.cpp as operators.     *)
(* A packet is a record of the common frame and a body, a sequence of      *)
(* fields, each a value and its width in bytes.  Reading with a layout     *)
(* other than the one written yields Garbage.  A name is a sequence of     *)
(* characters; a channel's info is a pair: type and conversion, or the two *)
(* words of a digital one.  A phasor is a pair in the coordinates of its   *)
(* PMU, in units of 1e-5; frequencies are in mHz.  htonf, abs/arg and      *)
(* polar are taken to be exact.                                            *)
(***************************************************************************)
EXTENDS Integers, Sequences, FiniteSets, SequencesExt

CONSTANTS Garbage,  \* what is read out of place
          Stale     \* what was in the buffer before

W16(n) == n % 65536
W24(n) == n % 16777216

\* static_cast<int16_t>, as the compilers for x86 do it
I16(n) == ((n + 32768) % 65536) - 32768

\* interpret24bitAsInt32
I24(n) == ((n + 8388608) % 16777216) - 8388608

F(w, v) == [w |-> w, v |-> v]
Fields(w, s) == [i \in 1..Len(s) |-> F(w, s[i])]
Widths(body) == [i \in 1..Len(body) |-> body[i].w]
Values(body) == [i \in 1..Len(body) |-> body[i].v]
Times(w, n) == [i \in 1..n |-> w]
Bytes(body) == FoldLeft(+, 0, Widths(body))
Concat(s) == FoldLeft(\o, << >>, s)

\* The body begins with fields of these widths.
Aligned(body, widths) ==
  Len(body) >= Len(widths) /\ Widths(SubSeq(body, 1, Len(widths))) = widths
Rest(body, n) == SubSeq(body, n + 1, Len(body))

CommonFrameSize == 14
MinPacketSize == 18

-----------------------------------------------------------------------------
(* The common frame                                                        *)

\* A packet in a buffer of dataSize bytes; the size is a 16 bit argument of
\* generateCommonFrame, which writes nothing into less than 18 bytes.
Common(dataSize, type, id, soc, fracSec, body) ==
  [sync |-> W16(dataSize) >= MinPacketSize, type |-> type, id |-> id,
   soc |-> soc, fracSec |-> fracSec, body |-> body,
   byteCount |-> W16(CommonFrameSize + Bytes(body) + 2), crc |-> TRUE]

NoPacket == [byteCount |-> 0]

\* mutant: the buffer must hold this packet and nothing else
ParseCommon_Exact(p, dataSize) ==
  IF ~p.sync THEN "invalid_sync"
  ELSE IF dataSize # p.byteCount THEN "length_mismatch"
  ELSE IF ~p.crc THEN "invalid_checksum"
  ELSE "parse_complete"

\* mutant: the checksum is not compared
ParseCommon_NoCrc(p, dataSize) ==
  IF ~p.sync THEN "invalid_sync"
  ELSE IF dataSize < p.byteCount THEN "length_mismatch"
  ELSE "parse_complete"

ParseCommon(p, dataSize) ==
  IF ~p.sync THEN "invalid_sync"
  ELSE IF dataSize < p.byteCount THEN "length_mismatch"
  ELSE IF ~p.crc THEN "invalid_checksum"
  ELSE "parse_complete"

GetPacketType(p, dataSize) ==
  IF dataSize < 16 \/ ~p.sync THEN "unknown" ELSE p.type

-----------------------------------------------------------------------------
(* Configuration frames                                                    *)

Kinds == <<"phasor", "analog", "digital">>
NamesPer(k) == IF k = "digital" THEN 16 ELSE 1

\* mutant: a digital word is taken to have one name, like the other channels
GetPmuConfigSize_OneName(c) ==
  W16(30 + 20 * c.count["phasor"] + 20 * c.count["analog"] + 20 * c.count["digital"])

GetPmuConfigSize(c) ==
  W16(30 + 20 * c.count["phasor"] + 20 * c.count["analog"] + 260 * c.count["digital"])

\* inactive PMUs count, whatever activeOnly says
GetConfigSize(config) ==
  W16(24 + FoldLeft(+, 0, [i \in DOMAIN config.pmus |-> GetPmuConfigSize(config.pmus[i])]))

NameSize == 16
Nul == "NUL"

\* mutant: the rest of the place is not filled
Padded_Unfilled(name) == [i \in 1..NameSize |-> IF i <= Len(name) THEN name[i] ELSE Stale]

\* A name has a place of 16 bytes: a longer one is cut, a shorter one filled up.
Padded(name) == [i \in 1..NameSize |-> IF i <= Len(name) THEN name[i] ELSE Nul]

\* The type takes the first of the four bytes, also of an analog conversion.
InfoWritten(k, x) == IF k = "digital" THEN x ELSE <<x[1], W24(x[2])>>

\* a PMU with its names and conversions as they are written
AsWritten(c) ==
  [station |-> Padded(c.station), id |-> c.id, format |-> c.format, count |-> c.count,
   names |-> [k \in DOMAIN c.names |-> [i \in 1..Len(c.names[k]) |-> Padded(c.names[k][i])]],
   info |-> [k \in DOMAIN c.info |->
              [i \in 1..Len(c.info[k]) |-> InfoWritten(k, c.info[k][i])]],
   nominal |-> c.nominal, change |-> c.change]

\* what is written of a PMU, its names and conversions fitting their places
PlainFields(c) ==
  <<F(16, c.station), F(2, c.id), F(2, c.format)>>
  \o [i \in 1..3 |-> F(2, c.count[Kinds[i]])]
  \o Concat([i \in 1..3 |-> Fields(16, c.names[Kinds[i]])])
  \o Concat([i \in 1..3 |->
              Fields(4, SubSeq(c.info[Kinds[i]], 1, c.count[Kinds[i]]))])
  \o <<F(2, IF c.nominal = 50 THEN 1 ELSE 0), F(2, c.change)>>

PmuFields(c) == PlainFields(AsWritten(c))

GeneratePmuConfig(room, c) == IF room < GetPmuConfigSize(c) THEN << >> ELSE PmuFields(c)

\* bytes 14 to 19: the flags are never written, then time base and PMU count
ConfigHead(config) ==
  <<F(1, Stale), F(3, W24(config.timeBase)), F(2, W16(Len(config.pmus)))>>

\* A PMU is written behind what is there already, if there is room for it.
AddPmu(dataSize, type, body, c) ==
  IF c.active \/ type = "config1"
  THEN body \o GeneratePmuConfig(dataSize - CommonFrameSize - Bytes(body), c)
  ELSE body

ConfigBody(dataSize, type, config) ==
  LET add(body, c) == AddPmu(dataSize, type, body, c)
  IN FoldLeft(add, ConfigHead(config), config.pmus)

GenerateConfig(dataSize, config, type) ==
  IF dataSize < GetConfigSize(config) THEN NoPacket
  ELSE Common(dataSize, type, config.idcode, config.soc, config.fracSec,
              Append(ConfigBody(dataSize, type, config), F(2, config.dataRate)))

PmuWidths(count) ==
  <<16, 2, 2, 2, 2, 2>>
  \o Concat([i \in 1..3 |-> Times(16, NamesPer(Kinds[i]) * count[Kinds[i]])])
  \o Concat([i \in 1..3 |-> Times(4, count[Kinds[i]])]) \o <<2, 2>>

\* n values of kind k, after those of the kinds before it, from field `from` on
Part(body, from, n, k) ==
  LET at == FoldLeft(+, from, [i \in 1..(k - 1) |-> n[i]])
  IN Values(SubSeq(body, at, at + n[k] - 1))

\* the conversion of an analog value with its sign, all else as it stands
InfoRead(k, x) == IF k = "analog" THEN <<x[1], I24(x[2])>> ELSE x

InfosRead(k, s) == [i \in 1..Len(s) |-> InfoRead(k, s[i])]

\* A name is all 16 bytes.  nominalFrequency is only ever set to 50, and the
\* position never: the object keeps what it had.
ParsePmuConfig(body, old) ==
  LET count == [k \in {Kinds[i] : i \in 1..3} |->
                 body[3 + CHOOSE i \in 1..3 : Kinds[i] = k].v]
      infos == [i \in 1..3 |-> count[Kinds[i]]]
      names == [i \in 1..3 |-> NamesPer(Kinds[i]) * infos[i]]
      n == Len(PmuWidths(count))
      index(k) == CHOOSE i \in 1..3 : Kinds[i] = k
      afterNames == 7 + names[1] + names[2] + names[3]
  IN IF ~Aligned(body, <<16, 2, 2, 2, 2, 2>>) \/ ~Aligned(body, PmuWidths(count))
     THEN [pmu |-> Garbage, used |-> Len(body)]
     ELSE [pmu |-> [station |-> body[1].v, id |-> body[2].v, format |-> body[3].v,
                    count |-> count,
                    names |-> [k \in DOMAIN count |-> Part(body, 7, names, index(k))],
                    info |-> [k \in DOMAIN count |->
                               InfosRead(k, Part(body, afterNames, infos, index(k)))],
                    nominal |-> IF body[n - 1].v = 1 THEN 50 ELSE old.nominal,
                    change |-> body[n].v,
                    active |-> old.active, position |-> old.position],
           used |-> n]

\* What a default constructed PmuConfig holds, as far as the parser leaves it
NewPmu == [nominal |-> 60, active |-> TRUE, position |-> Stale]

\* PMU i of the object that is parsed into, among its PMUs
OldPmu(pmus, i) ==
  IF i > Len(pmus) THEN NewPmu
  ELSE IF pmus[i] = Garbage THEN [NewPmu EXCEPT !.nominal = Garbage]
  ELSE pmus[i]

AddParsed(body, pmus, acc, i) ==
  LET r == ParsePmuConfig(Rest(body, acc.used), OldPmu(pmus, i))
  IN [pmus |-> Append(acc.pmus, r.pmu), used |-> acc.used + r.used]

\* as many PMUs as the packet counts, one behind the other
ParsePmus(body, pmus) ==
  LET add(acc, i) == AddParsed(body, pmus, acc, i)
  IN FoldLeft(add, [pmus |-> << >>, used |-> 3], [i \in 1..body[3].v |-> i])

\* parseConfig1 into the object config; a rejected packet does not change it
ParseConfig1(p, dataSize, config) ==
  LET common == ParseCommon(p, dataSize)
      all == ParsePmus(p.body, config.pmus)
  IN IF common # "parse_complete" THEN [result |-> common, config |-> config]
     ELSE IF p.type \notin {"config1", "config2"}
     THEN [result |-> "incorrect_type", config |-> config]
     ELSE [result |-> "parse_complete",
           config |-> [idcode |-> p.id, soc |-> p.soc, fracSec |-> p.fracSec,
                       timeBase |-> p.body[2].v, pmus |-> all.pmus,
                       dataRate |-> IF all.used + 1 = Len(p.body)
                                    THEN p.body[all.used + 1].v ELSE Garbage]]

\* What of a name arrives: its first 16 characters, and Nul in all that is left.
NameTravels(got, name) ==
  /\ Len(got) = NameSize
  /\ \A i \in 1..NameSize : got[i] = IF i <= Len(name) THEN name[i] ELSE Nul

\* of an info: 24 bits of a conversion, with a sign if it is an analog one
InfoTravels(kind, got, info) ==
  CASE kind = "phasor" -> got = <<info[1], W24(info[2])>>
    [] kind = "analog" -> got = <<info[1], I24(info[2])>>
    [] kind = "digital" -> got = info

\* of a PMU: neither its nominal frequency, except into a new object, nor
\* whether it is active, nor where it is
PmuTravels(got, c) ==
  /\ got # Garbage
  /\ \A field \in {"id", "format", "count", "change"} : got[field] = c[field]
  /\ NameTravels(got.station, c.station)
  /\ \A k \in DOMAIN c.count :
       /\ Len(got.names[k]) = Len(c.names[k]) /\ Len(got.info[k]) = Len(c.info[k])
       /\ \A i \in 1..Len(c.names[k]) : NameTravels(got.names[k][i], c.names[k][i])
       /\ \A i \in 1..Len(c.info[k]) : InfoTravels(k, got.info[k][i], c.info[k][i])

-----------------------------------------------------------------------------
(* Data frames                                                             *)

Unit == 100  \* fractions of a second are counted in hundredths

Width(format) == IF format = "int" THEN 2 ELSE 4

Quot(a, b) == IF a < 0 THEN -((-a) \div b) ELSE a \div b

\* phasorConversion of channel i; info holds pairs of type and conversion
Conversion(c, i) == c.info["phasor"][i][2]

\* mutant: the second number of a phasor is read as if it were the first
Phasor_Twice(c, i, v) ==
  IF c.format.phasor = "float" THEN <<v[1], v[1]>>
  ELSE <<v[1] * Conversion(c, i), v[1]>>

\* What is parsed from two fields: integers are scaled, except angles; the
\* imaginary part of integers is whatever was in the buffer.
Phasor(c, i, v) ==
  LET scaled(x) == IF Conversion(c, i) = 0 THEN 0 ELSE x * Conversion(c, i)
  IN IF c.format.phasor = "float" THEN v
     ELSE <<scaled(v[1]),
            IF c.format.coord = "polar" \/ v[2] = Stale THEN v[2] ELSE scaled(v[2])>>

\* The two numbers that are written; the imaginary part of integers is not.
\* A conversion of 0 divides by zero, and the result converts to anything.
PhasorValues(c, i, z) ==
  LET scale == Conversion(c, i)
      rect == c.format.coord = "rect"
      first == IF scale = 0 THEN Garbage
               ELSE IF rect THEN I16(Quot(z[1], scale)) ELSE W16(Quot(z[1], scale))
  IN IF c.format.phasor = "float" THEN z
     ELSE <<first, IF rect THEN Stale ELSE I16(z[2])>>

Freq(c, v) == IF c.format.freq = "float" THEN v ELSE I16(v)

PmuDataWidths(c) ==
  <<2>> \o Times(Width(c.format.phasor), 2 * c.count["phasor"])
  \o Times(Width(c.format.freq), 2)
  \o Times(Width(c.format.analog), c.count["analog"])
  \o Times(2, c.count["digital"])

GetExpectedDataPacketLength(config) ==
  CommonFrameSize + 2
  + FoldLeft(+, 0, [i \in DOMAIN config.pmus |->
      LET c == config.pmus[i] IN
      2 + 2 * Width(c.format.phasor) * c.count["phasor"] + 2 * Width(c.format.freq)
      + Width(c.format.analog) * c.count["analog"] + 2 * c.count["digital"]])

GeneratePmuData(c, d) ==
  LET phasors == Concat([i \in 1..c.count["phasor"] |-> PhasorValues(c, i, d.phasors[i])])
      values == <<d.stat>> \o phasors \o <<Freq(c, d.freq), Freq(c, d.rocof)>>
                \o [i \in 1..c.count["analog"] |->
                     IF c.format.analog = "int" THEN I16(d.analog[i]) ELSE d.analog[i]]
                \o SubSeq(d.digital, 1, c.count["digital"])
      widths == PmuDataWidths(c)
  IN [i \in 1..Len(widths) |-> F(widths[i], values[i])]

\* addTime: the ticks of the time base in 24 bits, the quality above.  A
\* product from 2^32 on, 4 * 1073741824, converts to anything.
Ticks(frac, timeBase) ==
  LET whole == frac \div Unit
      part == ((frac % Unit) * timeBase) \div Unit
      above == whole - 4 * (1073741824 \div timeBase)
  IN IF above >= 0 /\ (above >= 4 \/ above * timeBase + part >= 4 * (1073741824 % timeBase))
     THEN Garbage ELSE W24(whole * timeBase + part)

GenerateDataFrame(dataSize, config, frame) ==
  IF dataSize < GetExpectedDataPacketLength(config) THEN NoPacket
  ELSE Common(dataSize, "data", config.idcode, frame.soc,
              [quality |-> frame.quality, ticks |-> Ticks(frame.frac, config.timeBase)],
              Concat([i \in DOMAIN frame.pmus |->
                       GeneratePmuData(config.pmus[i], frame.pmus[i])]))

ParsePmuData(body, c) ==
  LET widths == PmuDataWidths(c)
      v == Values(body)
      ph == 1 + 2 * c.count["phasor"]
      an == ph + 2 + c.count["analog"]
  IN IF ~Aligned(body, widths) THEN Garbage
     ELSE [stat |-> v[1],
           phasors |-> [i \in 1..c.count["phasor"] |->
                         Phasor(c, i, <<v[2 * i], v[2 * i + 1]>>)],
           freq |-> v[ph + 1], rocof |-> v[ph + 2],
           analog |-> SubSeq(v, ph + 3, an),
           digital |-> SubSeq(v, an + 1, an + c.count["digital"])]

AddData(body, acc, c) ==
  [pmus |-> Append(acc.pmus, ParsePmuData(Rest(body, acc.used), c)),
   used |-> acc.used + Len(PmuDataWidths(c))]

\* the data of each PMU, one behind the other
ParseData(body, pmus) ==
  LET add(acc, c) == AddData(body, acc, c)
  IN FoldLeft(add, [pmus |-> << >>, used |-> 0], pmus)

\* mutant: the length is not compared with what the configuration makes of it
ParseDataFrame_AnyLength(p, dataSize, config) ==
  LET common == ParseCommon(p, dataSize)
  IN IF common # "parse_complete" THEN [result |-> common]
     ELSE IF p.type # "data" THEN [result |-> "incorrect_type"]
     ELSE [result |-> IF p.id = config.idcode THEN "parse_complete" ELSE "id_mismatch",
           idcode |-> p.id, soc |-> p.soc,
           quality |-> p.fracSec.quality,
           frac |-> <<p.fracSec.ticks, config.timeBase>>,
           pmus |-> ParseData(p.body, config.pmus).pmus]

\* An id other than the configured one is reported, but the frame is read.
ParseDataFrame(p, dataSize, config) ==
  LET common == ParseCommon(p, dataSize)
  IN IF common # "parse_complete" THEN [result |-> common]
     ELSE IF p.type # "data" THEN [result |-> "incorrect_type"]
     ELSE IF GetExpectedDataPacketLength(config) > dataSize THEN [result |-> "config_mismatch"]
     ELSE [result |-> IF p.id = config.idcode THEN "parse_complete" ELSE "id_mismatch",
           idcode |-> p.id, soc |-> p.soc,
           quality |-> p.fracSec.quality,
           frac |-> <<p.fracSec.ticks, config.timeBase>>,
           pmus |-> ParseData(p.body, config.pmus).pmus]

-----------------------------------------------------------------------------
(* Commands and headers                                                    *)

\* no test of the size of the buffer, other than that of the common frame
GenerateCommand(dataSize, command, id) ==
  Common(dataSize, "command", id, Stale, Stale, <<F(2, command)>>)

ParseCommand(p, dataSize) ==
  IF ParseCommon(p, dataSize) # "parse_complete" \/ p.type # "command" THEN "unknown"
  ELSE p.body[1].v

GenerateHeader(dataSize, header, id) ==
  Common(dataSize, "header", id, Stale, Stale, <<F(header.size, header)>>)

\* the type of the packet is not looked at
ParseHeader(p, dataSize) ==
  IF ParseCommon(p, dataSize) # "parse_complete" THEN << >> ELSE Values(p.body)

\* An extended frame is a command with data behind it.
GenerateExtendedFrame(dataSize, frameData, id) ==
  Common(dataSize, "command", id, Stale, Stale, <<F(2, "extended"), F(frameData.size, frameData)>>)

\* what is returned begins with the command itself
GetExtendedData(p, dataSize) ==
  IF ParseCommand(p, dataSize) # "extended" THEN << >> ELSE Values(p.body)
-----------------------------------------------------------------------------
(* Times                                                                   *)

\* Tolerances are powers of ten, by their exponents; FLT_MAX is the last.
TqArray == <<-12, -9, -8, -7, -6, -5, -4, -3, -2, -1, 0, 1, 2, 3, 4, 38>>

\* mutant: the last code whose tolerance is not above the one asked for
GetTimeQualityCode_Below(e) ==
  Cardinality({i \in DOMAIN TqArray : TqArray[i] <= e} \ {1})

\* the first code whose tolerance is not less
GetTimeQualityCode(e) == Cardinality({i \in DOMAIN TqArray : TqArray[i] < e})

\* the pair of seconds and packed fraction, of a time in units of 1 / Unit
GenerateTimeCodes(time, timeBase, e) ==
  [soc |-> time \div Unit,
   ticks |-> W24(((time % Unit) * timeBase) \div Unit),
   quality |-> GetTimeQualityCode(e)]

Bit(n, k) == (n \div (2^k)) % 2

ParseTimeQuality(tq) ==
  [reserved |-> Bit(tq, 7), direction |-> Bit(tq, 6), occurred |-> Bit(tq, 5),
   pending |-> Bit(tq, 4), code |-> tq % 16, tolerance |-> TqArray[(tq % 16) + 1]]
=============================================================================
