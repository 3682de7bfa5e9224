------------------------------ MODULE PmuLink ------------------------------
(***************************************************************************)
(* The two ends of a C37.118 link around the codec: a source whose         *)
(* configuration changes and a receiver that parses into one Config        *)
(* object.  A packet may arrive damaged, cut short or with more bytes      *)
(* behind it, as reads from a TCP stream deliver it.                       *)
(***************************************************************************)
EXTENDS C37118

CONSTANTS Configs,      \* what the source is configured with
          Frames,       \* the data it measures, for any of them
          Texts,        \* headers and data of extended frames, each with a size
          BufferSizes   \* sizes of the buffers packets are generated in

\* Of every kind of channel a PMU has as many names and infos as it counts.
IsPmu(c) ==
  LET kinds == {"phasor", "analog", "digital"} IN
  /\ c.count \in [kinds -> Nat]
  /\ c.names = [k \in kinds |-> [i \in 1..(NamesPer(k) * c.count[k]) |-> c.names[k][i]]]
  /\ c.info = [k \in kinds |-> [i \in 1..c.count[k] |-> c.info[k][i]]]

IsList(s) == Len(s) \in Nat /\ s = [i \in 1..Len(s) |-> s[i]]

LinkAssumption ==
  /\ \A c \in Configs : IsList(c.pmus) /\ \A i \in 1..Len(c.pmus) : IsPmu(c.pmus[i])
  /\ \A d \in Frames : "pmus" \in DOMAIN d /\ IsList(d.pmus)
  /\ \A text \in Texts : text.size \in Nat
  /\ BufferSizes \subseteq Nat
ASSUME LinkAssumption

VARIABLES config,   \* of the source
          wire,     \* the packet under way
          length,   \* how many bytes of it are delivered
          room,     \* the size of the buffer it was generated in
          sent,     \* what it was generated from
          rconfig,  \* the Config object of the receiver
          result,   \* of the last parse
          rframe,   \* the last PmuDataFrame or command
          reused    \* rconfig was used for an earlier packet

vars == <<config, wire, length, room, sent, rconfig, result, rframe, reused>>

Nothing == [type |-> "none"]
NewConfig == [idcode |-> 0, soc |-> Stale, fracSec |-> Stale, timeBase |-> 1000000,
              pmus |-> << >>, dataRate |-> 30]

Init ==
  /\ config \in Configs
  /\ wire = NoPacket /\ length = 0 /\ room = 0 /\ sent = Nothing
  /\ rconfig = NewConfig
  /\ result = "not_parsed" /\ rframe = Nothing
  /\ reused = FALSE

Configure(c) ==
  /\ config' = c
  /\ UNCHANGED <<wire, length, room, sent, rconfig, result, rframe, reused>>

\* A packet of the source: nothing is sent when the buffer is too small.
Send(packet, what, size) ==
  /\ packet # NoPacket
  /\ wire' = packet
  /\ length' = packet.byteCount
  /\ room' = size
  /\ sent' = what
  /\ result' = "not_parsed" /\ rframe' = Nothing
  /\ UNCHANGED <<config, rconfig, reused>>

SendConfig(type, size) ==
  Send(GenerateConfig(size, config, type), [type |-> type, config |-> config], size)

SendData(d, size) ==
  /\ Len(config.pmus) <= Len(d.pmus)
  /\ LET frame == [d EXCEPT !.pmus = SubSeq(d.pmus, 1, Len(config.pmus))]
     IN Send(GenerateDataFrame(size, config, frame),
             [type |-> "data", config |-> config, data |-> frame], size)

SendCommand(command, size) ==
  Send(GenerateCommand(size, command, config.idcode),
       [type |-> "command", command |-> command], size)

SendHeader(text, size) ==
  Send(GenerateHeader(size, text, config.idcode), [type |-> "header", text |-> text], size)

SendExtended(text, size) ==
  Send(GenerateExtendedFrame(size, text, config.idcode),
       [type |-> "command", command |-> "extended", text |-> text], size)

\* On the way: a wrong byte, a part of the packet, or more than the packet
Damage ==
  /\ wire # NoPacket /\ wire.crc
  /\ wire' = [wire EXCEPT !.crc = FALSE]
  /\ UNCHANGED <<config, length, room, sent, rconfig, result, rframe, reused>>

Deliver(n) ==
  /\ wire # NoPacket /\ length = wire.byteCount
  /\ length' = n
  /\ UNCHANGED <<config, wire, room, sent, rconfig, result, rframe, reused>>

ReceiveConfig ==
  /\ GetPacketType(wire, length) \in {"config1", "config2"}
  /\ LET r == ParseConfig1(wire, length, rconfig)
     IN rconfig' = r.config /\ result' = r.result
  /\ reused' = (rconfig # NewConfig)
  /\ UNCHANGED rframe

ReceiveData ==
  /\ GetPacketType(wire, length) = "data"
  /\ \A i \in DOMAIN rconfig.pmus : rconfig.pmus[i] # Garbage
  /\ LET frame == ParseDataFrame(wire, length, rconfig)
     IN result' = frame.result /\ rframe' = frame
  /\ UNCHANGED <<rconfig, reused>>

ReceiveCommand ==
  /\ GetPacketType(wire, length) = "command"
  /\ result' = ParseCommon(wire, length)
  /\ rframe' = [type |-> "command", command |-> ParseCommand(wire, length),
                extended |-> GetExtendedData(wire, length)]
  /\ UNCHANGED <<rconfig, reused>>

ReceiveHeader ==
  /\ GetPacketType(wire, length) = "header"
  /\ result' = ParseCommon(wire, length)
  /\ rframe' = [type |-> "header", texts |-> ParseHeader(wire, length)]
  /\ UNCHANGED <<rconfig, reused>>

ReceiveUnknown ==
  /\ GetPacketType(wire, length) = "unknown"
  /\ result' = ParseCommon(wire, length)
  /\ UNCHANGED <<rconfig, rframe, reused>>

Receive ==
  /\ wire # NoPacket /\ result = "not_parsed"
  /\ ReceiveConfig \/ ReceiveData \/ ReceiveCommand \/ ReceiveHeader \/ ReceiveUnknown
  /\ UNCHANGED <<config, wire, length, room, sent>>

\* The packet has been dealt with, or is lost.
Consume ==
  /\ wire # NoPacket
  /\ wire' = NoPacket /\ length' = 0 /\ room' = 0 /\ sent' = Nothing
  /\ result' = "not_parsed" /\ rframe' = Nothing
  /\ UNCHANGED <<config, rconfig, reused>>

SendAny(size) ==
  \/ \E type \in {"config1", "config2"} : SendConfig(type, size)
  \/ \E d \in Frames : SendData(d, size)
  \/ SendCommand("send_config2", size)
  \/ \E text \in Texts : SendHeader(text, size) \/ SendExtended(text, size)

\* one packet is under way at a time
Next ==
  \/ \E c \in Configs \ {config} : Configure(c)
  \/ wire = NoPacket /\ \E size \in BufferSizes : SendAny(size)
  \/ Damage
  \/ \E n \in {15, length - 1, length + 20} : Deliver(n)
  \/ Receive \/ Consume

Spec == Init /\ [][Next]_vars

-----------------------------------------------------------------------------
(* Properties                                                              *)

Parsed == wire # NoPacket /\ result # "not_parsed"
Intact == wire.crc /\ length >= wire.byteCount

\* A command that arrives whole is understood; the data of an extended frame
\* follow the command in what getExtendedData returns.
CommandsUnderstood ==
  Parsed /\ Intact /\ sent.type = "command" =>
    /\ rframe.type = "command" /\ rframe.command = sent.command
    /\ sent.command = "extended" => rframe.extended = <<"extended", sent.text>>

\* Every packet that arrives whole is accepted for what it is, also with more
\* bytes behind it.
WholeIsAccepted ==
  Parsed /\ Intact =>
    /\ CommandsUnderstood
    /\ sent.type = "header" => rframe.type = "header" /\ rframe.texts = <<sent.text>>
    /\ IF sent.type = "data"
       THEN result \in {"parse_complete", "config_mismatch", "id_mismatch"}
       ELSE result = "parse_complete"

\* A damaged or incomplete packet is rejected, and changes nothing at the
\* receiver.
DamagedIsRejected ==
  [][Parsed' /\ ~Parsed /\ ~(wire.crc /\ length >= wire.byteCount) =>
       result' # "parse_complete" /\ rconfig' = rconfig]_vars

AllActive(c) == \A i \in DOMAIN c.pmus : c.pmus[i].active

\* What of a configuration travels, its time base in 24 bits, the nominal
\* frequency of a PMU only into an object that is new.
Same(r, c) ==
  /\ r.idcode = c.idcode /\ r.soc = c.soc /\ r.fracSec = c.fracSec
  /\ r.timeBase = W24(c.timeBase) /\ r.dataRate = c.dataRate
  /\ Len(r.pmus) = Len(c.pmus)
  /\ \A i \in DOMAIN c.pmus :
       /\ PmuTravels(r.pmus[i], c.pmus[i])
       /\ ~reused => r.pmus[i].nominal = c.pmus[i].nominal

\* The receiver gets the configuration the source had: as configuration 1,
\* or as configuration 2 when all PMUs are active.  Of each name it gets the
\* first 16 characters with Nul up to that length, of a conversion and of the
\* time base 24 bits; everything else as it was.
ConfigArrives ==
  Parsed /\ Intact /\ sent.type \in {"config1", "config2"}
  /\ (sent.type = "config1" \/ AllActive(sent.config)) => Same(rconfig, sent.config)

\* The numbers of a phasor: exact in floating point; in integers to the next
\* unit, and of a rectangular phasor only the real part.
Close(c, i, got, z) ==
  LET unit == IF c.format.phasor = "float" THEN 1 ELSE Conversion(c, i)
      near(a, b, u) == a - b < u /\ b - a < u
  IN /\ near(got[1], z[1], unit)
     /\ c.format.phasor = "float" \/ c.format.coord = "polar" => near(got[2], z[2], 1)

\* The numbers that data are scaled with arrived whole: they fit 24 bits.
SameScale(r, c) ==
  /\ r.timeBase = c.timeBase
  /\ \A i \in DOMAIN c.pmus : \A k \in 1..c.pmus[i].count["phasor"] :
       Conversion(r.pmus[i], k) = Conversion(c.pmus[i], k)

\* A data frame that meets the configuration it was made with comes out as it
\* went in, its time to the next tick, if time base and phasor conversions fit
\* the 24 bits they were sent in.
DataArrives ==
  Parsed /\ Intact /\ sent.type = "data" /\ rconfig.pmus # << >>
  /\ Same(rconfig, sent.config) /\ SameScale(rconfig, sent.config) =>
    LET d == sent.data
        ticks == rframe.frac[1]
    IN /\ result = "parse_complete"
       /\ rframe.soc = d.soc /\ rframe.quality = d.quality
       /\ ticks * Unit <= d.frac * rframe.frac[2]
       /\ d.frac * rframe.frac[2] < (ticks + 1) * Unit
       /\ \A i \in DOMAIN rconfig.pmus :
            LET c == sent.config.pmus[i]
                got == rframe.pmus[i]
            IN /\ got # Garbage
               /\ \A k \in 1..c.count["phasor"] :
                    Close(c, k, got.phasors[k], d.pmus[i].phasors[k])
               /\ got.stat = d.pmus[i].stat
               /\ got.freq = d.pmus[i].freq /\ got.rocof = d.pmus[i].rocof
               /\ got.analog = SubSeq(d.pmus[i].analog, 1, c.count["analog"])
               /\ got.digital = SubSeq(d.pmus[i].digital, 1, c.count["digital"])

\* Writing and reading stay inside their buffers.  The size that is computed
\* for a configuration or a data frame and compared with the room beforehand
\* is never less than what is then written; and a data frame delivered by
\* itself is never read beyond its end, whatever configuration is still in use.
StaysInBounds ==
  /\ sent.type \in {"config1", "config2", "data"} => wire.byteCount <= room
  /\ Parsed /\ sent.type = "data" /\ length = wire.byteCount
     /\ result \in {"parse_complete", "id_mismatch"} =>
       Bytes(wire.body) >=
         FoldLeft(+, 0, [i \in DOMAIN rconfig.pmus |->
               FoldLeft(+, 0, PmuDataWidths(rconfig.pmus[i]))])
============================================================================
