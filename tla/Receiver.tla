----------------------------- MODULE Receiver -----------------------------
(***************************************************************************)
(* A Receiver on the blocking calls of its TcpConnection: connect, the     *)
(* request of a configuration, start and stop of the data.  The stream of  *)
(* the peer is cut into reads anywhere; a unit of it holds at least the    *)
(* common frame of a packet or lies within one.  What the peer makes of a  *)
(* command is its own affair: it sends configurations and data at will.    *)
(***************************************************************************)
EXTENDS Naturals, Sequences

CONSTANTS PacketLength,   \* units of a packet of the peer
          CommandLength,  \* pieces a command can be written in
          MaxUnits,       \* bound: units under way to the receiver
          Versions,       \* configurations the peer may have
          None

ASSUME ReceiverAssumption == PacketLength \in Nat \ {0} /\ CommandLength \in Nat \ {0}

VARIABLES pc,       \* where the thread of the receiver is
          call,     \* the member function it is in, or None
          link,     \* of the socket: none, connecting, up, failed, gone
          left,     \* pieces of the command still to be written
          writes,   \* count in TcpConnection::send
          wire,     \* the pieces of this command that were written, as numbers
          sent,     \* what the last send returned was not 0
          stream,   \* units of the peer that were not read yet
          buffer,   \* units read by this call
          config,   \* the configuration the receiver holds, or None
          result,   \* of the last getConfig that returned
          short     \* its first read ended inside a packet

peer == <<link, stream>>
sending == <<left, writes, wire, sent>>
vars == <<pc, call, peer, sending, buffer, config, result, short>>

Calls == {"getConfig", "startData", "stopData"}

Init ==
  /\ pc = "idle" /\ call = None
  /\ link = "none"
  /\ left = CommandLength /\ writes = 0 /\ wire = << >> /\ sent = FALSE
  /\ stream = << >> /\ buffer = << >>
  /\ config = None /\ result = "none" /\ short = FALSE

\* an exception leaves the call
Throw ==
  /\ pc' = "idle" /\ call' = None

-----------------------------------------------------------------------------
(* Receiver::connect.  Its wait may end before the connection is up; what  *)
(* it found out is not passed on.                                          *)

Connect ==
  /\ pc = "idle" /\ link = "none"
  /\ link' = "connecting"
  /\ pc' = "connect"
  /\ UNCHANGED <<call, stream, sending, buffer, config, result, short>>

Connected ==
  /\ pc = "connect"
  /\ pc' = "idle"
  /\ UNCHANGED <<call, peer, sending, buffer, config, result, short>>

ConnectEnds(how) ==
  /\ link = "connecting"
  /\ link' = how
  /\ UNCHANGED <<pc, call, stream, sending, buffer, config, result, short>>

-----------------------------------------------------------------------------
(* A command, and TcpConnection::send                                      *)

IsConnected == link \in {"up", "gone"}

Command(c) ==
  /\ pc = "idle" /\ link # "none"
  /\ call' = c
  /\ pc' = IF IsConnected THEN "write" ELSE "wait1"
  /\ left' = CommandLength /\ writes' = 0
  /\ wire' = << >> /\ sent' = FALSE
  /\ buffer' = << >> /\ short' = FALSE
  /\ result' = IF c = "getConfig" THEN "none" ELSE result
  /\ UNCHANGED <<peer, config>>

\* what follows the send: only getConfig has more to do
AfterSend ==
  IF call = "getConfig" THEN pc' = "read" /\ UNCHANGED call
  ELSE pc' = "idle" /\ call' = None

\* Either wait ends with the connection or with its time; after the second
\* nothing is sent.
WaitConnected ==
  /\ pc \in {"wait1", "wait2"}
  /\ IF ~IsConnected /\ pc = "wait2" THEN AfterSend
     ELSE pc' = (IF IsConnected THEN "write" ELSE "wait2") /\ UNCHANGED call
  /\ UNCHANGED <<peer, sending, buffer, config, result, short>>

\* mutant: the rest is sent from the beginning of the buffer
Write_FromStart(n) ==
  /\ pc = "write" /\ link = "up"
  /\ n \in 1..left
  /\ wire' = wire \o [i \in 1..n |-> i]
  /\ left' = left - n
  /\ writes' = writes + 1
  /\ IF left' = 0 \/ writes' = 5
     THEN sent' = (writes' < 5) /\ AfterSend
     ELSE UNCHANGED <<sent, pc, call>>
  /\ UNCHANGED <<peer, buffer, config, result, short>>

\* One write takes n pieces.  The loop ends with the fifth, and whoever gets
\* there has failed, also when nothing is left.
Write(n) ==
  /\ pc = "write" /\ link = "up"
  /\ n \in 1..left
  /\ wire' = wire \o [i \in 1..n |-> CommandLength - left + i]
  /\ left' = left - n
  /\ writes' = writes + 1
  /\ IF left' = 0 \/ writes' = 5
     THEN sent' = (writes' < 5) /\ AfterSend
     ELSE UNCHANGED <<sent, pc, call>>
  /\ UNCHANGED <<peer, buffer, config, result, short>>

WriteThrows ==
  /\ pc = "write" /\ link = "gone"
  /\ Throw
  /\ UNCHANGED <<peer, sending, buffer, config, result, short>>

-----------------------------------------------------------------------------
(* Receiver::getConfig.  The receiver does not look at what send returned. *)

\* mutant: a packet that has not arrived whole is taken as well
ParseConfig2_Partial(units) ==
  IF units[1].pos # 1 THEN "invalid_sync"
  ELSE IF units[1].kind = "data" THEN "incorrect_type"
  ELSE "parse_complete"

\* mutant: a packet of another type is waited out, like one that is not whole
ParseConfig2_Waits(units) ==
  IF units[1].pos # 1 THEN "invalid_sync"
  ELSE IF Len(units) < PacketLength \/ units[1].kind = "data" THEN "length_mismatch"
  ELSE "parse_complete"

ParseConfig2(units) ==
  IF units[1].pos # 1 THEN "invalid_sync"
  ELSE IF Len(units) < PacketLength THEN "length_mismatch"
  ELSE IF units[1].kind = "data" THEN "incorrect_type"
  ELSE "parse_complete"

\* the first read, and the only time the buffer is parsed
Read(n) ==
  /\ pc = "read" /\ link \in {"up", "gone"}
  /\ n \in 1..Len(stream)
  /\ LET units == SubSeq(stream, 1, n)
         pr == ParseConfig2(units)
     IN /\ buffer' = units
        /\ stream' = SubSeq(stream, n + 1, Len(stream))
        /\ short' = (n < PacketLength \/ units[1].pos # 1)
        /\ config' = IF pr = "parse_complete" THEN units[1].version ELSE config
        /\ IF pr = "length_mismatch" THEN pc' = "more" /\ UNCHANGED <<call, result>>
           ELSE pc' = "idle" /\ call' = None /\ result' = pr
  /\ UNCHANGED <<link, sending>>

\* The loop that waits for the rest: it appends to the buffer for ever.
ReadMore(n) ==
  /\ pc = "more"
  /\ n \in 1..Len(stream)
  /\ buffer' = buffer \o SubSeq(stream, 1, n)
  /\ stream' = SubSeq(stream, n + 1, Len(stream))
  /\ UNCHANGED <<pc, call, link, sending, config, result, short>>

\* receive throws at the end of the stream, and on a socket that is not up
ReadThrows ==
  /\ \/ pc \in {"read", "more"} /\ link = "gone" /\ stream = << >>
     \/ pc = "read" /\ link \notin {"up", "gone"}
  /\ Throw
  /\ UNCHANGED <<peer, sending, buffer, config, result, short>>

-----------------------------------------------------------------------------
(* The peer                                                                *)

Units(kind, v) == [i \in 1..PacketLength |-> [kind |-> kind, version |-> v, pos |-> i]]

PeerSends(kind, v) ==
  /\ link = "up" /\ Len(stream) + Len(buffer) + PacketLength <= MaxUnits
  /\ stream' = stream \o Units(kind, v)
  /\ UNCHANGED <<pc, call, link, sending, buffer, config, result, short>>

PeerCloses ==
  /\ link = "up"
  /\ link' = "gone"
  /\ UNCHANGED <<pc, call, stream, sending, buffer, config, result, short>>

-----------------------------------------------------------------------------

ReceiverStep ==
  \/ Connected \/ WaitConnected \/ WriteThrows \/ ReadThrows
  \/ \E n \in 1..CommandLength : Write(n)
  \/ \E n \in 1..MaxUnits : Read(n) \/ ReadMore(n)

Next ==
  \/ Connect \/ ReceiverStep \/ PeerCloses
  \/ \E how \in {"up", "failed"} : ConnectEnds(how)
  \/ \E c \in Calls : Command(c)
  \/ \E kind \in {"config", "data"} : \E v \in Versions : PeerSends(kind, v)

\* the thread runs; a read takes what there is
Spec == Init /\ [][Next]_vars /\ WF_vars(ReceiverStep)

-----------------------------------------------------------------------------
(* Properties                                                              *)

TypeOK ==
  /\ pc \in {"idle", "connect", "wait1", "wait2", "write", "read", "more"}
  /\ call # None <=> pc \in {"wait1", "wait2", "write", "read", "more"}
  /\ link \in {"none", "connecting", "up", "failed", "gone"}
  /\ left \in 0..CommandLength /\ writes \in 0..5
  /\ pc = "write" => left > 0 /\ writes < 5

\* What send reports as sent has gone out whole; what it does not report is,
\* once and in order, a beginning of the command.
SendIsWhole ==
  /\ wire = [i \in 1..(CommandLength - left) |-> i]
  /\ sent => left = 0

\* getConfig says yes only to a configuration of the peer that came in one
\* read, and it is the one in use.
ConfigIsWhole ==
  result = "parse_complete" /\ buffer # << >> =>
    /\ Len(buffer) >= PacketLength
    /\ SubSeq(buffer, 1, PacketLength) = Units("config", buffer[1].version)
    /\ config = buffer[1].version

\* A call of getConfig in which the first packet came whole ends once it can
\* read; one that has to go on reading ends with the connection.
GetConfigEnds ==
  /\ pc = "read" /\ stream # << >> ~> pc = "idle" \/ short
  /\ link = "gone" /\ call # None ~> call = None
============================================================================
