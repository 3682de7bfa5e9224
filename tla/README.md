# HELICS-PMU in TLA+

HELICS-PMU connects phasor measurement units (PMUs) that speak IEEE C37.118.2
over TCP with HELICS co-simulations.  This directory holds TLA+ models of its
implementation (`src/src/pmu/`) and of the date library that is compiled into it
(`src/ThirdParty/date/`), TLC configurations that check them on small instances,
and TLAPS proofs of what matters most.

## 1. Inventory

| Component | Source (`src/src/pmu/`) | State | Operations | Hard behaviour |
|---|---|---|---|---|
| io_context loop | `AsioContextManager` | request counter, loop mode, terminate flag, work guard, future, lock | start, halt (handle destructor), close, the loop itself | atomics and a lock mixed; start against halt against close |
| context registry | `AsioContextManager` | static map of named contexts | get, get existing, close, leak | destruction with a loop running |
| TCP connection | `TcpHelperClasses` | `ConnectionStates`, four trigger variables, receive buffer and residual, socket | connect, startReceive, read handler, close, send, receive, wait | callbacks on the loop thread against user threads |
| TCP acceptor | `TcpHelperClasses` | `AcceptingStates`, `accepting` trigger | connect, start, accept handler, close | the handler re-arms while another thread closes |
| TCP server | `TcpHelperClasses` | acceptors, connections, `halted`, lock | initial connect, start, handle accept, find socket, reconnect, close | accepts against close |
| C37.118 codec | `c37118` | none | parse and generate six frame types | lengths and counts in 16 bits, formats, scaling |
| JSON configuration | `configure`, `JsonProcessingFunctions` | none | load and write `Config` and `PmuDataFrame` | defaults, duplicated type names, counts |
| data source | `Source`, `StableSource` | `Config`, frame, clock | load, fill frame | time codes |
| receiver | `Receiver` | buffer, connection | connect, get configuration | partial frames |
| PMU facade | `Pmu`, `TcpPmu` | context and loop handle, configuration, socket | mostly declared, few defined | - |
| executable, library shell | `main`, `helicsPMU` | none | empty | - |
| date library: calendar | `ThirdParty/date/date.h` | none | calendar types, their arithmetic and day counts, time of day | divisions and widths below zero and at the ends of a range |
| date library: time zones | `ThirdParty/date/tz.cpp`, `tz.h` | rules, zonelets, leap seconds | split rules, find a rule, local time, clocks | overlapping rules, hours that come twice or never |

The date library is part of the target (`Pmu.cpp:13` includes it, CMake compiles
`tz.cpp` with the text database); no function of the repository calls it so far, so
that it is modelled for itself.

Interactions: user threads call the classes; a class that does asynchronous I/O
is given an `io_context`, whose handlers run on the single loop thread of the
context manager.  User threads and handlers meet in `std::atomic` members,
in `gmlc::concurrency::TriggerVariable`s (a latch with active and triggered
flags) and in the mutexes of the context manager and of the server.  Sources
and receivers use the codec on byte buffers, the configuration as a structure.

What makes each part correct:

- loop: one thread in `io_context::run()`; no `reset()` under it; a handle means
  a running loop; handles and counter agree; every call returns.
- connection: one user of the receive buffer; nothing left over when `close`
  has returned; `isConnected()` tells the truth; every `close` returns; the bytes
  of the peer reach `dataCall` in order, once each, and whole frames get through.
- acceptor and server: no connection is added while `close` empties the vector;
  one accept per acceptor; a closed server is quiet; a started one accepts.
- codec: what is generated fits the buffer; whole packets are understood,
  damaged ones rejected without effect; configurations and data arrive as sent;
  no read beyond a packet.
- JSON configuration: what is written is what is read back; every setting goes
  to its own field.
- receiver, sources: every request ends; what is reported as sent has gone out
  whole; time codes mean the time they were made from.
- date library: a day has one date in every era; months can be added and taken
  away again; a zone has the offsets its lines say, and a local time resolves to
  the moments that have it; no clock but UTC sees a leap second.

## 2. Modules and plan

| Module | Models | Composed with |
|---|---|---|
| `LoopLifecycle` | abstract: what the manager promises about its loop thread | refined by `AsioContextLoop` |
| `AsioContextLoop` | one `AsioContextManager`, its user threads, the loop thread | |
| `AsioContextLoop_proofs` | theorems | |
| `TriggerVariable` | the latch of `gmlc::concurrency`, as operators | used by the next two |
| `TcpConnection` | receive loop and close of one connection | |
| `TcpConnection_proofs` | theorems | |
| `ByteStream` | abstract: the stream handed to `dataCall` | refined by `ReceiveBuffer` |
| `ReceiveBuffer` | the bytes in the receive buffer | relies on `BufferExclusive` of `TcpConnection` |
| `ReceiveBuffer_proofs` | theorems | |
| `TcpServer` | server, acceptors, and what they see of a connection | |
| `TcpServer_proofs` | theorems | |
| `C37118` | the codec, as operators on packets | used by `PmuLink`, `JsonConfig` |
| `PmuLink` | a source and a receiver around the codec and a wire | |
| `PmuLink_proofs` | theorems | |
| `JsonConfig` | `configure.cpp`, as operators on documents | used by `PmuFiles` |
| `PmuFiles` | files of configurations and data, a `StableSource` and its frames | codec, `JsonConfig` |
| `Receiver` | a `Receiver` on the blocking calls of its connection | |
| `Receiver_proofs` | theorems | |
| `Calendar` | `date.h`, as operators | used by the next three |
| `LeapClocks` | leap seconds, UTC, TAI and GPS time, `clock_cast` | used by `ZoneRules` |
| `LeapClocks_proofs` | theorems | |
| `ZoneRules` | rules, zonelets and the answers of a zone, as operators | used by `WorldClock` |
| `WorldClock` | a clock that loads a zone and walks through time, beside a reference | |
| `WorldClock_proofs` | theorems | |
| `MC_*` | small sets, zones and usage histories for TLC | |

Still to come, in this order:

1. Proofs: that what `PmuFiles` loads and sends arrives, on the theorems of
   `PmuLink_proofs`; the time line of a zone.
2. An abstract connection that `TcpConnection`, the connections of `TcpServer` and
   the one `Receiver` uses are shown to implement, so that those views are justified.
3. The registry of contexts, once it does more than look up a name under one lock.

## 3. How modules correspond to the code

**AsioContextLoop.** One action is one access to an atomic (`runCounter`,
`running`, `terminateLoop`) or one stretch under `runningLoopLock` that does not
wait.  `Start*` are the steps of `startContextLoop`, `Halt*` of
`haltContextLoop` (called by `~Servicer`), `Close*` of `closeContext`, `Loop*` of
`contextProcessingLoop`; `HandlerThrows` is an exception out of `run()`.  A *task*
is a `packaged_task` with the thread that runs it, and `loopRet` the future of the
latest one.  Task names are reused once a task is finished.

**TcpConnection.** `Start*` are the steps of `startReceive`, by a user thread or at the
end of a handler; `Close*` those of `close`, `closeNoWait` and `waitOnClose`;
`Handle*` those of `handle_read`, `Connect*` of `connect_handler`.  `ReadEnds` and
`ConnectEnds` are completions by the operating system.  A timed wait of the code
is modelled by what it waits for: it goes on when the variable is triggered, or
repeats.  Two user threads may not be in `startReceive` at once (`BeginStart`):
the only caller in the repository is the server, which holds its lock.

**ReceiveBuffer.** A step is a completed read together with `handle_read`'s
treatment of it; bytes are numbered as they arrive.  `dataCall` is the reader of
C37.118 packets the class is used for: it takes whole frames only.

**TcpServer.** The owner's thread does `initialConnect`, `start`, `reConnect` and
`close`, the loop thread the accept handlers and the ends of reads.  `AccStart` is
`TcpAcceptor::start`, run by either.  Destroying an acceptor waits as its
destructor does (`DtorWait`).  `listen()` is taken to fail on a closed acceptor
only.

**C37118, PmuLink.** A packet is a record: the common frame, the body as a list of
fields with their width in bytes, and whether the checksum is right.  Byte
counts, 16 and 24 bit wraps, counts and offsets are computed as in the code.  A name
is a sequence of characters: it is written into 16 bytes, cut or filled up with
`Nul`, and read back as all 16 (`Padded`).  Conversions are written in 24 bits and read
back as they stand, or with a sign if they are those of analog values (`InfoWritten`,
`InfoRead`).  The flags of a format word are a record, and floating point numbers exact.
Reading with another layout than was written gives `Garbage`; bytes that are
never written are `Stale`.  Phasors are pairs in the coordinates of their PMU in
units of 1e-5, frequencies are in mHz, fractions of a second in hundredths.  In
`PmuLink` a source is reconfigured at will; packets lie on the wire, get
damaged, are delivered short or with bytes behind them, are parsed into one
`Config` object that is never renewed, or are lost.

**JsonConfig, PmuFiles.** A JSON object is a record of the members it has, so that
a missing member is a member that is not in the domain.  Defaults, spellings of
the same member (`id`, `idcode`), arrays given as one element, the types that are
tested and the exceptions of `asInt` are those of the code; names are sequences of
characters, because the code composes them and the codec cuts them.  Where a PMU is
(`lat`, `lon`, `elev`) is read but not written, as in the code.  In `PmuFiles` one action is one call:
`WriteConfig`, `WriteDataFile`, `LoadConfig`, `LoadDataFile`, `GenerateSource`, `Reload`
(`StableSource::loadConfig` on a source that is there), `SetBoth`, `SendFrame`
(`fillDataFrame`, `generateDataFrame`, then `parseDataFrame` at the other end) and
`SendTime` (`generateTimeCodes`).  `Edit` is a person who writes a document.

**Receiver.** `Connect` to `Connected` is `connect`; a `Command` goes through the waits
of `TcpConnection::send` (`WaitConnected`) and its writes, each of which takes any
part of what is left; `Read` is the one parsed read of `getConfig`, `ReadMore` its
loop.  A packet of the peer has two units and can be cut between or beside them.

**Calendar, LeapClocks, ZoneRules.** Days, months and years are integers that go
through their 8 and 16 bit conversions (`UChar`, `Short`), a division is the one
of C++ (`CDiv`); compound types are records.  A time point is an integer: half
seconds for the clocks, tenths of a second for the time of day, minutes for the
zones, as the library is a template over the tick.  A pointer to a rule with its
year is a pair, and loops over rules are recursive functions.

**WorldClock.** `SplitPair` and `NextRule` are the turns of the loops of
`split_overlaps`, `EndSplit` what follows it when a zone is first used (the rules of
single years are made canonical, `adjust_infos`).  `Tick` moves the clock on.  The
reference beside it is not the library's algorithm: dates advance by the lengths
of the months, weekdays by one, and the time line of a zone sorts every year of
every line by its date.

## 4. Runs

| Run | Instance | Shows |
|---|---|---|
| `loop_open` | 3 threads, 2 tasks, no close | types, one loop, safe reset, valid future, counter bounded, calls return; as long as starts and halts do not overlap, a handle means a loop, the counter counts handles and no loop is orphaned |
| `loop_close` | 2 threads that also close | refinement of `LoopLifecycle`, and calls return once handles are given back |
| `loop_lost_start` | 2 threads | **violated** `HandleMeansLoop` |
| `conn_use` | 2 user threads and the loop | types, exclusive buffer, `close` returns; quiet after close and truthful `isConnected` under proper use |
| `buffer` | 4 bytes of buffer, 10 of stream, frames of 1 to 4 | the stream is intact and gets through, refinement of `ByteStream` |
| `server` | 3 acceptors, 2 connections, 1 or 2 endpoints | no push while closing, one accept, quiet after close, what a start that succeeds has bound, and close returns when it does not begin inside a handler |
| `server_close_hangs` | same | **violated** `CloseReturns` |
| `link` | 7 configurations, 2 data frames, buffers of 40, 400, 1024 | the codec properties |
| `link_receiver` | a buffer of 65536 | **violated** `CommandsUnderstood` |
| `files` | 2 configurations, 3 lists of frames, 4 documents, 4 moments | what is written comes back, what is loaded can be sent, a frame of fewer PMUs than its configuration has is refused, the frames and time codes of a source arrive |
| `receiver` | packets of 2 units, a command in 6 pieces, 2 configurations | what is reported as sent is whole, a configuration that is accepted is whole, `getConfig` ends when its first read was whole |
| `dates` | 6 zones and 6 stretches of years | dates, weekdays and months; the time line of a zone; local times; the clocks |

Why the bounds are enough.  Three threads give a start, a halt and a third call
that meets both; two tasks are the loop that leaves and the one that follows, and
`SingleLoop` is just that there are never two.  A connection needs one thread in
`startReceive` and one in `close`.  A buffer of four holds every case of
residual and new bytes (none, some, full), and ten bytes let it go round twice.
Three acceptors let a server with one endpoint fail and be replaced, and one with
two endpoints lose one; two connections let one be read while another is
accepted.  The configurations of `link` have each format, zero to two channels of
a kind, an inactive PMU, one and two PMUs, and pairs that differ in a single
respect, so that a frame meets a configuration that almost fits; buffer sizes
lie below, between and above the packets.  Names have 0, 1, 15, 16 and 17 characters, and
one configuration has a time base and conversions just beyond 24 bits, on both sides
of zero.  The documents of `files` use each
spelling, groups of every size, one with names that lose what tells them apart, a
scale beyond 24 bits, digital words of 16 bits and others, a position, a time in
one number, data without configuration and the reverse; `IntMax` is 20, so that
seconds can be beyond an `int`.  Six pieces of a command are one more than the
writes `send` allows, and the stream of a receiver holds three packets.

The zones of `dates` are lines of the IANA database with what is intricate in
them: New York 1974 (long lines cut up by single years), a zone that leaves the
European rules in the middle of summer for a fixed saving, New South Wales 1971
(standard time, a zone that begins in the middle of a summer, the first leap
seconds), Jerusalem 2005 (a weekday on or before a date, in another month), Samoa
2011 (a day that is left out), and war time 1945 (two savings in a row).  The plain
stretches are those at -32767 and 32767, year 0, 1900, 1970 and 2000.  `YearMax`
(2020), `SysMin` and `SysMax` stand for the last year and the ends of time; they are
beyond every zone's window.

Deadlock is not checked for `buffer` (the stream ends at `MaxBytes`), `dates` (the
clock stops at the end of its window) and the server (an acceptor may be left unarmed for good after an error, and a
connection halted: then nothing has to happen any more; where something has to,
`CalmClose` says so).

**Fairness.** Threads inside a call and the loop thread are scheduled (weak
fairness of their steps); nobody has to begin a call, no handler has to throw.
Operations that were cancelled, or whose socket was closed, complete, and an
`async_connect` ends: asio promises to call every handler.  In the server that is
strong fairness, because the one loop thread takes completions in turn.  In
`ReceiveBuffer` the peer goes on sending.  In `Receiver` the thread runs, and a read
takes what there is.  None of this assumes that a peer
connects or answers.

`conn_use` and `server` keep history variables: `proper` says that the caller has
so far used the class as the repository does (a receive is started once, when
the connection is up; a server is started when nothing is being accepted), `calm`
that no call began while a handler was running, `cleared` that a server of several
endpoints has been closed.  `loop_open` keeps `phased`: no start
has overlapped a halt.

## 5. What the violated runs show

- *Lost start.* A thread halts just after it has started the loop, and its decrement
  makes `runCounter` 0.  The loop thread, not yet in its loop, reads that 0
  (`AsioContextManager.cpp:231`) and is on its way out; then another thread starts and
  increments to 1.  The halting thread reads 1 under the lock and returns (202).  The
  starting thread fails its compare-exchange, as `running` is still `starting` (156),
  finds the context not stopped (171) and returns a handle; the loop thread stores
  `stopped` and ends.
- *Server close that hangs.* A handler that re-arms its acceptor activates
  `accepting`, then `listen()` fails because `close` came in between; `close` waits
  for a trigger nobody pulls.  The header says the destructor throws nothing and
  waits for handlers; it waits for ever.
- *Commands of the receiver.* A size of 65536 is 0 in 16 bits, so that the common
  frame is left out.

Found along the way and kept out of the passing properties by name:
`runCounter.store(0)` after a stale test may strand a loop or take the counter
below the handles (`PhasedUse` says when not); `closeContext` waits for a loop that
goes on as long as a handle exists (`CallsReturnOnceReleased`); a start on a closed
context spins; a `startReceive` before the connect has finished makes `isConnected()`
true too early; a handler that meets a halted server closes a connection on the
loop thread and waits for itself; a second `start` on a running server lets `close`
return while an accept is outstanding; `close` clears the acceptors, so that a
second `start` of a server with several endpoints binds none and reports success, and so
does every later one (`SuccessfulStart` says that this happens, and only then);
configuration 2 with an inactive PMU announces
more blocks than it has; the imaginary part of integer rectangular phasors is not
written; a reused `Config` keeps a nominal frequency of 50.  Names come back with their
`Nul`s, cut to 16 characters, so that the phases of a group with a long name are called the
same; conversions and the time base lose what is above 24 bits, and data are then scaled
differently at both ends (`SameScale`).

In the files: `lat`, `lon` and `elev` of a PMU are read (`configure.cpp:385-387`) and never
written, so that a configuration that is loaded and saved loses them and has no value
there when it is read again (`ConfigComesBack` says so); analog type names are compared the wrong way round
(`configure.cpp:114`), so that types are not kept; a missing time quality takes the
id's low byte (247); a Boolean `nominal` lands in `active` (317); digital groups other
than 16 are dropped (326); `StableSource` stores packed time codes as a fraction
(`StableSource.cpp:42`), so that only a fraction of zero arrives; a load that fails half
way, or a file without data, leaves a new configuration with the old data: nothing
compares them, and data with fewer values than the configuration counts are read
beyond their vectors.  With fewer PMUs the frame is too short and is refused
(`MissingIsRefused`).  In the
receiver: `getConfig` never leaves its loop after a short read except by an exception
(`Receiver.cpp:25`), and `send` fails at the fifth write even when that one completes.
The models keep all of this, and the properties say what holds beside it.

## 6. Proofs

All theorems hold for every value of the constants under the named assumptions.
A module of proofs extends the `MC_` module of its component where a theorem speaks
of the history variable that is kept there (`phased`, `proper`): the specification
it is about is then the one the run checks.

`AsioContextLoop_proofs` (assuming `LoopAssumption`: closers are threads, the
"none" values are no threads or tasks, threads are finite):

- `TypeCorrect`: types, and who holds a packaged task.
- `Invariant`: the inductive invariant `LoopInv`.  `SingleLoop` is not inductive: that
  nobody else claims the loop depends on `running`, and that a halted loop is gone
  depends on whose future is waited for.  `Token` says there is one permission
  to run the loop, held by the value "stopped" of `running`, by a claiming thread,
  or by a loop thread; `Latest` that `loopRet` is the future of whichever loop lives;
  `Locked` that the lock's owner is the thread in a critical section.
- `AtMostOneLoop`, `ResetIsSafe`: `SingleLoop` and `ResetOnlyWhenQuiet` from it.
- `ImplementsLifecycle`: every step is one of `LoopLifecycle` or leaves its variables
  alone, and so `LifecycleSpec` holds.
- `CounterBounded`: increments and decrements match threads entering and leaving
  the set of requests; needs only that a thread in a call owns no handle.
- `HaltFutureValid`: without closers, the work guard seen under the lock means a
  valid future.
- `PhasedUseIsSafe`: `PhasedUse`, without closers.  While starts and halts have not
  overlapped, `runCounter` is the handles and the calls that have counted
  themselves (`Exact`), so that only the last halt ends the loop; the loop is up for
  whoever has found it up and leaves for nobody else (`Served`), and one thread at a
  time stops it, when no request is left (`Stopped`).

`TcpConnection_proofs` (assuming only that the loop thread is not a user thread):

- `TypeCorrect`: types, and which thread runs which code.
- `OneBufferUser`: `BufferExclusive`, from `BufferInv`: while a read is posted, about
  to be posted or being handled, `state` is neither `waiting` nor `prestart`, so that
  no compare-exchange can win the buffer, and the first start, which does not
  compare, runs alone.
- `ClosesProperly`: `ProperUse`.  Four facts are added to `BufferInv`: the start that
  posts the first read is alone up to then (`StartsAlone`), `receivingHalt` is armed
  before anything of the receive loop happens (`ArmedFirst`), a connection whose receive loop
  is over has neither a read nor a handler (`OverMeansCalm`), and being connected is the
  last that `connect_handler` says (`ConnectedLast`).

`ReceiveBuffer_proofs`, for any capacity above 0, any stream and any frames (`BufferAssumption`):

- `StreamKept`: `StreamIntact`.  The invariant says of each residual byte which byte of
  the stream it is, because a read is put behind them and `dataCall` takes from the
  front.
- `ImplementsStream`: every step is one of `ByteStream` or leaves its variables alone.

`TcpServer_proofs`, for any acceptors, connections and endpoints (`ServerAssumption`:
finitely many of both, enough acceptors for the endpoints, and "none" is none of them):

- `Invariant`: the inductive invariant `ServerInv`.  `Token` says that who has activated an
  acceptor has the right to its next accept until the handler of that accept gives
  it back; `Dead` that an acceptor which is destroyed has no handler to come; `Locked`
  who holds the lock and that `halted` stays while `close` runs; `Started` and `Counted` what
  a start has done so far.
- `AcceptsOnce`, `VectorIsCloses`, `ClosedIsEmpty`: `OneAccept`, `NoPushWhileClosing` and
  `CloseEmpties` from it, whatever the use.
- `StartBinds`: `SuccessfulStart`, of a server that its owner reconnects only while it is
  halted.  It rests on one more invariant, `Kept`: as long as no server of several
  endpoints has been closed, the vector has an acceptor for each endpoint, and afterwards
  none, except while a call is filling it.
- `ClosesProperly`: `ProperClose`, of a server that is started only while it accepts
  nothing.  Then a start meets no handler of an acceptor it has not armed (`StartsIdle`), an
  acceptor of a running server is bound or nobody has armed it (`Bound`), only the
  handler of an accept disarms it (`Disarmed`), so that `close` does wait for that handler;
  and an acceptor `close` has been through stays settled (`ClosesAll`).

`PmuLink_proofs`, for any configurations, frames, texts and buffers (`LinkAssumption`:
lists of PMUs are lists, with as many names as they count):

- `Rejection`: `DamagedIsRejected`: a packet that was damaged or is delivered short is
  not accepted by any parser, and the receiver's configuration stays.
- `Acceptance`: `WholeIsAccepted`, where `Fits` holds: buffers have 18 to 65535 bytes and a
  text leaves room for its frame in 64 KiB.  Without it the property fails, and
  `link_receiver` shows how.  The invariant `LinkInv` says that what lies on the wire still
  describes what was sent, and that its size, which has been through 16 bits, is the
  size of its fields.

- `Bounds`: `StaysInBounds`, where also the size that is computed for each configuration
  fits the 16 bits that count it (`ConfigsFit`).  `InBounds` is inductive together with
  `LinkInv`: a packet on the wire counts its bytes exactly, these fit the buffer
  (`SizedPacket`), and a frame that was read met the configuration it was read with
  (`Met`).  It rests on two sums over the PMUs: the size computed in advance is what is
  then written (`PmuBytes`, `DataBytes`), and the length expected of a frame is what is
  then read (`ExpectedInt`).
- `Arrival`: `ConfigArrives`, of configurations whose nominal frequencies are 50 or 60 and
  whose analog conversions are integers (`ConfigsTravel`; `parsePmuConfig` assigns one of
  these two frequencies).  Names may have any length, and conversions and the time base
  any size.  A PMU is written as one whose names and conversions fit their places
  (`AsWritten`, which is a PMU: `WrittenIsPmu`).  What is written is parted into its lists of
  names and infos (`PmuParted`), each of which `parsePmuConfig` finds where it was written
  (`PartReads`), so that it reads a copy of that PMU (`ParsedPmu`), and `CopyTravels` says what
  this copy has of the PMU the source has.  Reading then follows writing PMU by PMU
  (`ReadsAlong`): after each, what was read are copies of what was written so far, and the
  next place to read is where the next PMU was put.
- `FrameArrival`: `DataArrives`, where the receiver has the scales of the source
  (`SameScale`, part of the property: they fit the 24 bits they are sent in), of frames whose numbers the formats of the
  configuration can tell (`FramesTravel`: 16 bits for what is sent in integers, a
  conversion that is not 0, and a fraction of a second of less than 2^24 ticks).  The
  code converts anything else to whatever the bits say.  A fraction is cut off to a
  tick (`TicksAre`; nothing overflows 32 bits, `NoOverflow`) and a phasor in integers to the next unit of its conversion (`QuotNear`,
  `PhasorRead`), everything else is kept.  The data of a PMU are five lists in a row
  (`ValuesParted`), read back whatever comes behind (`DataRead`), and the frame PMU by PMU
  (`ReadsFrame`).  `DataInv` says that the packet on the wire carries the frame.

`Garbage` is assumed to be none of the values it stands beside (`GarbageIsNoPmu`,
`GarbageIsNoData`: it has no field of a PMU or of data).  All other hypotheses
are conditions on the configurations, frames, texts and buffers, which those of
the run `link` meet.

What the codec writes is put together by folds over the PMUs and over their channels, and a
size is a fold over the fields, so that these proofs need induction over data.  They
take it from the least counterexample (`NatLessThanWellFounded`): a set of numbers that has 0
and with each its successor has all (`Induction`), and this lemma has no operator as a
parameter.  A fold is described by the list of its intermediate results (`OneTrace`:
there is one such list only), after which statements about the folds are
statements about lists.

`LeapClocks_proofs`, for every table of leap seconds that lie further apart than
there are seconds in the table plus one (`LeapTable`, a hypothesis of each theorem;
the real ones are half a year apart):

- `UtcGoesOn`: UTC goes on with system time and never more slowly.
- `SysComesBack`: system time taken to UTC and back is the same.  `is_leap_second`
  counts the leap seconds up to a time that still has them in, and corrects that
  count by one at most.  `FindsNone` and `FindsOneTooMany` say that the count is right
  or one too high, because a leap second and the next are too far apart to be
  counted together; the counting itself rests on lemmas about `Passed`.
- `SysStandsStill`: in every tick of a leap second, system time is the last tick
  before it.
- `UtcTicks`: between two ticks of system time UTC goes through every tick; all but the
  first are of a leap second, and system time is the first of the two in all of them.
- `CastsComeBack`: `clock_cast` to UTC, TAI or GPS and back is the same.

`WorldClock_proofs`, for a clock set to any year and running to the end of the years
that `Year` can hold (`ClockAssumption`: a case begins in a valid year, ends before
`YearEnd`, and its ticks are minutes of a day) and whose table of leap seconds has them
far enough apart (`LeapAssumption`: `LeapTable`, of every case):

- `Invariant`: `ClockInv`, that the reference's date is a date (`IsDate`), the count of
  days is that of the date and the weekday that of the day.  A day more is the next
  date, also over the end of a month and a year (`TomorrowIsNext`).
- `DaysAgree`: `DaysAddUp`.  The reference counts days from January and knows the lengths
  of months; the library counts eras of 400 years that begin in March.  `EraOfYear` and
  `ToDays` show the two counts equal; `YearOfDay`, that the divisions which find the
  year of an era find it from every day of the era, by centuries, four years and years;
  `FromDays`, that the date comes back.  Weekdays, the fifth and the last of a month
  (`FifthIs`, `LastIs`) and the time of the day (`TimeOfDay`) follow.
- `MonthsComeBack`: `MonthsRoundTrip`.  The lemmas speak of any number of months, the
  property of those in `Shifts`.  `YearWraps` is why the date comes back even when
  `Year` overflows between; the rest is claimed only for years within its range
  (`ShiftInside`).
- `RulesNameDays`: the day that `MonthDayTime::to_sys_days` takes a rule to mean is the
  one it names, for every kind of rule and also over the end of a month.
- `AllClocksAgree`: `ClocksAgree`.  The reference counts the leap seconds that were
  announced up to its date, the library looks for the time in a table: the days of
  announcements and the entries of the table are in one-to-one correspondence, so that
  the two counts are equal, which makes the clocks differ by it.  A cast between any two
  clocks goes through UTC, so that one pair of theorems on UTC (`LeapClocks_proofs`)
  settles all of them.

`Receiver_proofs`, for packets and commands of any length and any number of
configurations (assuming `ReceiverAssumption`: neither length is 0):

- `SendCorrect`: `SendIsWhole`, which is inductive: each write adds the next pieces to
  a beginning of the command (`LongerBeginning`), and `send` succeeds only with
  nothing left.
- `ConfigCorrect`: `ConfigIsWhole`, which is not inductive.  `ReceiverInv` adds `Packets`,
  that in the unread stream the beginning of a packet is followed by the rest of it,
  which a packet added at one end (`PacketAppended`) and a read at the other
  (`RestOfStream`) keep; and `NoResultYet`, that `getConfig` has no result while it
  reads, so that a later read does not disturb a configuration that was accepted.

Only model-checked: liveness, which is out of the prover's reach; files and documents
(`PmuFiles`), where each member of a document may be missing or spelled in several
ways, and lists of groups of channels are flattened before the codec sees them; the
time line of a zone (`ZoneTimeline`) and local times (`LocalTimesResolve`), whose walks
over rules are recursive functions over data with no measure that goes down by one.

## 7. Not modelled

Asynchronous sending and single library calls; object lifetimes and destructors,
except of acceptors; the registry's map, under one lock; `findSocket` and the
setters of callbacks; the PMU facade, which is declared more than defined;
configuration 3, not implemented; csv files, which the code names but does not
read or write; checksum arithmetic (a checksum is right or wrong) and the conversion
of floating point numbers, taken to be exact.  The first command of a receiver is
meant by `link_receiver`: later ones overwrite the packet last received in the same
buffer.

Of the date library: reading and writing dates as text, download, reload and
parsing of the database, abbreviations, the names of zones and links, `zoned_time`,
the rounding of durations, and the binary database of an operating system, which
the build does not use.  The other vendored libraries (asio, gmlc, jsoncpp, fmt,
googletest) are what the code needs of them: trigger variables, futures, handlers
that are called once.
