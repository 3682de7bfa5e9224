----------------------------- MODULE PmuFiles -----------------------------
(***************************************************************************)
(* Files of configurations and data, the program that reads and writes     *)
(* them, and a StableSource that is set up from one and whose frames are   *)
(* sent with the time of a clock.  A file holds a JSON document, written by  *)
(* the program or by hand.  A call that throws has the outcome "throws".   *)
(***************************************************************************)
EXTENDS JsonConfig

CONSTANTS JsonNames,    \* file names with a JSON extension
          CsvNames,     \* with the extension csv
          OtherNames,   \* with any other
          Configs,      \* what the program writes
          FrameLists,   \* likewise
          Documents,    \* what is written by hand
          Tolerances,   \* of the clock, as exponents
          Moments,      \* of the clock, in units of 1 / Unit (bound)
          None

Names == JsonNames \cup CsvNames \cup OtherNames

VARIABLES files,    \* the document in each file, or None
          saved,    \* what the program wrote into it, or None
          source,   \* mConfig and mStableData
          last      \* the last call and its outcome

vars == <<files, saved, source, last>>

Idle == [op |-> "none"]
NewConfig == [idcode |-> 0, soc |-> Stale, fracSec |-> Stale, timeBase |-> 1000000,
              pmus |-> << >>, dataRate |-> 30]
NewFrame == [idcode |-> Stale, quality |-> Stale, soc |-> Stale, frac |-> Stale, pmus |-> << >>]
NewSource == [config |-> NewConfig, data |-> NewFrame]

Init ==
  /\ files = [n \in Names |-> None] /\ saved = [n \in Names |-> None]
  /\ source = NewSource
  /\ last = Idle

Call(op, name, outcome, value) ==
  last' = [op |-> op, name |-> name, outcome |-> outcome, value |-> value]

-----------------------------------------------------------------------------
(* Writing.  A file that cannot be opened is left alone without a word.    *)

Store(n, document, what, opened) ==
  LET done == opened /\ n \notin CsvNames
  IN /\ files' = IF done THEN [files EXCEPT ![n] = document] ELSE files
     /\ saved' = IF done THEN [saved EXCEPT ![n] = what] ELSE saved
     /\ UNCHANGED source

WriteConfig(n, config, opened) ==
  /\ Store(n, WriteConfigJson(config), [config |-> config], opened)
  /\ last' = Idle

WriteDataFile(n, frames, opened) ==
  /\ Store(n, WriteDataJson(frames), [frames |-> frames], opened)
  /\ last' = Idle

Edit(n, document) ==
  /\ files' = [files EXCEPT ![n] = document]
  /\ saved' = [saved EXCEPT ![n] = None]
  /\ last' = Idle
  /\ UNCHANGED source

-----------------------------------------------------------------------------
(* Reading                                                                 *)

\* Only JSON names are read; csv and others give an empty configuration.
LoadConfig(n) ==
  /\ IF n \notin JsonNames THEN Call("loadConfig", n, "done", NewConfig)
     ELSE IF files[n] = None THEN Call("loadConfig", n, "throws", Stale)
     ELSE Call("loadConfig", n, "done", LoadConfigJson(files[n]))
  /\ UNCHANGED <<files, saved, source>>

\* the frames of a document; without data one frame of nothing
DataOf(document) == IF "data" \in DOMAIN document THEN Elements(document.data) ELSE <<Null>>

LoadDataFile(n) ==
  LET frames == DataOf(files[n])
  IN /\ IF n \notin JsonNames THEN Call("loadDataFile", n, "done", << >>)
        ELSE IF files[n] = None \/ \E i \in DOMAIN frames : FrameThrows(frames[i])
        THEN Call("loadDataFile", n, "throws", Stale)
        ELSE Call("loadDataFile", n, "done", [i \in DOMAIN frames |-> LoadDataFrame(frames[i])])
     /\ UNCHANGED <<files, saved, source>>

-----------------------------------------------------------------------------
(* The stable source                                                       *)

HasFrame(document) == "default" \in DOMAIN document \/ "data" \in DOMAIN document

\* the frame of a document: the default, or the first of the data
FrameOf(document) ==
  IF "default" \in DOMAIN document THEN document.default
  ELSE IF Elements(document.data) = << >> THEN Null ELSE Elements(document.data)[1]

\* StableSource::loadConfig over what the source held before: the
\* configuration is replaced, then the data if there is any that can be read.
LoadSource(n, old) ==
  LET readable == HasFrame(files[n]) /\ ~FrameThrows(FrameOf(files[n]))
  IN [config |-> LoadConfigJson(files[n]),
      data |-> IF readable THEN LoadDataFrame(FrameOf(files[n])) ELSE old.data]

\* On a source that is there, a load that fails may have replaced the configuration.
Reload(n) ==
  /\ source' = IF files[n] = None THEN source ELSE LoadSource(n, source)
  /\ last' = Idle
  /\ UNCHANGED <<files, saved>>

\* generateSource("stable", file) makes a new one, or none at all.
GenerateSource(n) ==
  LET ok == files[n] # None /\ ~(HasFrame(files[n]) /\ FrameThrows(FrameOf(files[n])))
  IN /\ source' = IF ok THEN LoadSource(n, NewSource) ELSE source
     /\ last' = Idle
     /\ UNCHANGED <<files, saved>>

\* setConfig and setData with values that belong together
SetBoth(config, frame) ==
  /\ source' = [config |-> config, data |-> frame]
  /\ last' = Idle
  /\ UNCHANGED <<files, saved>>

\* Each PMU of the frame has a configuration and what that configuration counts.
Fits(config, frame) ==
  /\ Len(frame.pmus) <= Len(config.pmus)
  /\ \A i \in DOMAIN frame.pmus :
       LET count == config.pmus[i].count IN
       /\ count["phasor"] <= Len(frame.pmus[i].phasors)
       /\ count["analog"] <= Len(frame.pmus[i].analog)
       /\ count["digital"] <= Len(frame.pmus[i].digital)

\* mutant: the fraction of the time is taken for the seconds
FillDataFrame_Swapped(data, config, time) ==
  LET tc == GenerateTimeCodes(time, config.timeBase, -99)
  IN [data EXCEPT !.soc = tc.ticks, !.frac = Unit * tc.soc]

\* StableSource::loadDataFrame: fracSec, a fraction, is set to the ticks
FillDataFrame(data, config, time) ==
  LET tc == GenerateTimeCodes(time, config.timeBase, -99)
  IN [data EXCEPT !.soc = tc.soc, !.frac = Unit * (tc.ticks + tc.quality * 2^24)]

\* A frame is filled, generated and parsed by a receiver that has the
\* configuration; one that does not fit is read beyond its vectors.
SendFrame(time) ==
  LET frame == FillDataFrame(source.data, source.config, time)
      packet == GenerateDataFrame(65535, source.config, frame)
  IN /\ source.data # NewFrame
     /\ last' = [op |-> "sendFrame", at |-> time,
                 got |-> IF Fits(source.config, frame)
                         THEN ParseDataFrame(packet, packet.byteCount, source.config)
                         ELSE [result |-> "undefined"]]
     /\ UNCHANGED <<files, saved, source>>

\* The time codes of a clock with a tolerance, and what their receiver makes
\* of the quality
SendTime(time, e) ==
  LET base == source.config.timeBase
      tc == GenerateTimeCodes(time, base, e)
  IN /\ last' = [op |-> "sendTime", at |-> time, base |-> base, tolerance |-> e, codes |-> tc,
                 quality |-> ParseTimeQuality(tc.quality)]
     /\ UNCHANGED <<files, saved, source>>

\* The caller is done with what a call returned, or writes it.
UseResult ==
  \/ last' = Idle /\ UNCHANGED <<files, saved, source>>
  \/ /\ last.op = "loadConfig" /\ last.outcome = "done"
     /\ \E n \in Names : \E opened \in BOOLEAN : WriteConfig(n, last.value, opened)

CallFile(n) ==
  \/ \E opened \in BOOLEAN :
       \/ \E c \in Configs : WriteConfig(n, c, opened)
       \/ \E frames \in FrameLists : WriteDataFile(n, frames, opened)
  \/ \E d \in Documents : Edit(n, d)
  \/ LoadConfig(n) \/ LoadDataFile(n) \/ Reload(n) \/ GenerateSource(n)

CallSource ==
  \/ \E c \in Configs : \E frames \in FrameLists :
       frames # << >> /\ Fits(c, frames[1]) /\ SetBoth(c, frames[1])
  \/ \E time \in Moments :
       \/ SendFrame(time)
       \/ \E e \in Tolerances : SendTime(time, e)

Next ==
  \/ last = Idle /\ (CallSource \/ \E n \in Names : CallFile(n))
  \/ last # Idle /\ UseResult

Spec == Init /\ [][Next]_vars

-----------------------------------------------------------------------------
(* Properties                                                              *)

Loaded(op) == last.op = op /\ last.name \in JsonNames /\ files[last.name] # None

\* What is kept of a channel: all of it, but for analog values the type only
\* when it is one that has no name.
SameChannel(kind, read, written) ==
  IF kind # "analog" \/ written[1] > 2 THEN read = written ELSE read[2] = written[2]

\* Where a PMU is does not come back: it is read, but never written.
SamePmu(r, w) ==
  /\ \A x \in DOMAIN r.position : r.position[x] = Stale
  /\ \A field \in {"station", "id", "change", "format", "nominal", "count", "names"} :
       r[field] = w[field]
  /\ \A kind \in DOMAIN w.info : Len(r.info[kind]) = Len(w.info[kind])
  /\ \A kind \in DOMAIN w.info : \A i \in DOMAIN w.info[kind] :
       SameChannel(kind, r.info[kind][i], w.info[kind][i])

\* A configuration that was written into a JSON file is read back as it was,
\* also one that had been read from a document written by hand.  What does not
\* come back: latitude, longitude and elevation of a PMU, which are left without
\* a value; the types of analog values; whether a PMU is active; a list of none.
ConfigComesBack ==
  Loaded("loadConfig") /\ saved[last.name] # None /\ "config" \in DOMAIN saved[last.name]
  /\ saved[last.name].config.pmus # << >> =>
    LET w == saved[last.name].config
        r == last.value
    IN /\ last.outcome = "done"
       /\ r.idcode = w.idcode /\ r.dataRate = w.dataRate /\ r.timeBase = w.timeBase
       /\ Len(r.pmus) = Len(w.pmus)
       /\ \A i \in DOMAIN w.pmus : SamePmu(r.pmus[i], w.pmus[i])

\* Data frames that were written into a JSON file are read back as they were; a
\* file with a frame whose seconds are beyond an int cannot be read at all.
FramesComeBack ==
  Loaded("loadDataFile") /\ saved[last.name] # None /\ "frames" \in DOMAIN saved[last.name] =>
    LET w == saved[last.name].frames
    IN /\ last.outcome = IF \A i \in DOMAIN w : w[i].soc <= IntMax THEN "done" ELSE "throws"
       /\ last.outcome = "done" =>
            /\ Len(last.value) = Len(w)
            /\ \A i \in DOMAIN w : w[i].pmus # << >> => last.value[i] = w[i]

\* A configuration that was loaded can be sent: its counts agree with its
\* lists, and a receiver gets the PMUs that were loaded, their names cut to 16
\* characters (which may be those a group's names have in common) and their
\* conversions to 24 bits.
LoadedTravels ==
  Loaded("loadConfig") /\ last.outcome = "done" =>
    LET packet == GenerateConfig(65535, last.value, "config1")
        r == ParseConfig1(packet, packet.byteCount, NewConfig)
    IN /\ packet # NoPacket /\ r.result = "parse_complete"
       /\ Len(r.config.pmus) = Len(last.value.pmus)
       /\ \A i \in DOMAIN last.value.pmus : PmuTravels(r.config.pmus[i], last.value.pmus[i])

\* Data of fewer PMUs than there are in the configuration, as a load that fails
\* half way leaves them, are never taken for a whole frame.
MissingIsRefused ==
  last.op = "sendFrame" /\ Fits(source.config, source.data)
  /\ Len(source.data.pmus) < Len(source.config.pmus) => last.got.result = "config_mismatch"

\* The frame of a source arrives with the data of the source and the second of
\* the clock; with its fraction, too, when that is zero.
SourceArrives ==
  last.op = "sendFrame" /\ Fits(source.config, source.data)
  /\ Len(source.config.pmus) = Len(source.data.pmus) =>
    /\ last.got.result = "parse_complete"
    /\ last.got.soc = last.at \div Unit
    /\ last.got.quality = source.data.quality
    /\ last.at % Unit = 0 => last.got.frac[1] = 0
    /\ \A i \in DOMAIN source.data.pmus :
         /\ last.got.pmus[i].stat = source.data.pmus[i].stat
         /\ source.config.pmus[i].format.phasor = "float" =>
              last.got.pmus[i].phasors =
                SubSeq(source.data.pmus[i].phasors, 1, source.config.pmus[i].count["phasor"])

\* Time codes mean the time they were made from, to the tick, and never claim
\* a better time than the clock has.
TimeCodesMeanTime ==
  last.op = "sendTime" =>
    /\ last.codes.soc = last.at \div Unit
    /\ last.codes.ticks * Unit <= (last.at % Unit) * last.base
    /\ (last.at % Unit) * last.base < (last.codes.ticks + 1) * Unit
    /\ last.quality.tolerance >= last.tolerance
    /\ {last.quality[flag] : flag \in {"reserved", "direction", "occurred", "pending"}} = {0}
============================================================================
