--------------------------- MODULE Receiver_proofs ---------------------------
(***************************************************************************)
(* Theorems about Receiver, for packets and commands of any length and any *)
(* number of configurations.                                               *)
(***************************************************************************)
EXTENDS Receiver, TLAPS

Unit == [kind : {"config", "data"}, version : Versions, pos : Nat]

Types ==
  /\ pc \in {"idle", "connect", "wait1", "wait2", "write", "read", "more"}
  /\ left \in 0..CommandLength
  /\ writes \in Nat
  /\ wire \in Seq(Nat)
  /\ stream \in Seq(Unit)
  /\ buffer \in Seq(Unit)

\* a unit that begins a packet is followed by the rest of it
WholeFrom(s, i) ==
  /\ i + PacketLength - 1 <= Len(s)
  /\ \A j \in 1..PacketLength :
       s[i + j - 1] = [kind |-> s[i].kind, version |-> s[i].version, pos |-> j]

Packets(s) == \A i \in 1..Len(s) : s[i].pos = 1 => WholeFrom(s, i)

\* while getConfig has not returned, it has no result
NoResultYet ==
  /\ pc \in {"read", "more"} => call = "getConfig"
  /\ pc \in {"wait1", "wait2", "write", "read", "more"} /\ call = "getConfig" => result = "none"

ReceiverInv == Types /\ SendIsWhole /\ Packets(stream) /\ NoResultYet /\ ConfigIsWhole

-----------------------------------------------------------------------------
(* What is written, and how the stream is taken apart. *)

\* The pieces written so far and the next n of them are a longer beginning.
LEMMA LongerBeginning ==
  ASSUME NEW m \in Nat, NEW n \in Nat, NEW w,
         w = [i \in 1..m |-> i]
  PROVE  /\ w \o [i \in 1..n |-> m + i] = [i \in 1..(m + n) |-> i]
         /\ w \o [i \in 1..n |-> m + i] \in Seq(Nat)
<1> DEFINE v == [i \in 1..n |-> m + i]
           u == [i \in 1..(m + n) |-> i]
<1>1. w \in Seq(Nat) /\ Len(w) = m
  OBVIOUS
<1>2. v \in Seq(Nat) /\ Len(v) = n
  OBVIOUS
<1>3. u \in Seq(Nat) /\ Len(u) = m + n
  OBVIOUS
<1>4. w \o v \in Seq(Nat) /\ Len(w \o v) = m + n
  BY <1>1, <1>2
<1>5. \A i \in 1..(m + n) : (w \o v)[i] = u[i]
  BY <1>1, <1>2
<1>6. w \o v = u
  BY <1>3, <1>4, <1>5
<1>7. QED BY <1>4, <1>6

LEMMA NewPacket ==
  ASSUME ReceiverAssumption, NEW kind \in {"config", "data"}, NEW v \in Versions
  PROVE  /\ Units(kind, v) \in Seq(Unit)
         /\ Len(Units(kind, v)) = PacketLength
         /\ \A j \in 1..PacketLength :
              Units(kind, v)[j] = [kind |-> kind, version |-> v, pos |-> j]
<1> PacketLength \in Nat
  BY DEF ReceiverAssumption
<1>1. \A j \in 1..PacketLength : [kind |-> kind, version |-> v, pos |-> j] \in Unit
  BY DEF Unit
<1>2. QED BY <1>1 DEF Units

LEMMA PacketAppended ==
  ASSUME ReceiverAssumption, NEW s \in Seq(Unit), Packets(s),
         NEW kind \in {"config", "data"}, NEW v \in Versions
  PROVE  /\ s \o Units(kind, v) \in Seq(Unit)
         /\ Packets(s \o Units(kind, v))
<1> DEFINE u == Units(kind, v)
           t == s \o u
<1>0. PacketLength \in Nat /\ PacketLength > 0
  BY DEF ReceiverAssumption
<1>1. /\ u \in Seq(Unit) /\ Len(u) = PacketLength
      /\ \A j \in 1..PacketLength : u[j] = [kind |-> kind, version |-> v, pos |-> j]
  BY NewPacket
<1> HIDE DEF u
<1>2. /\ t \in Seq(Unit) /\ Len(t) = Len(s) + PacketLength
      /\ \A i \in 1..Len(s) : t[i] = s[i]
      /\ \A j \in 1..PacketLength : t[Len(s) + j] = u[j]
  <2>1. t \in Seq(Unit) /\ Len(t) = Len(s) + PacketLength
    <3>1. s \in Seq(Unit) /\ u \in Seq(Unit) /\ Len(u) = PacketLength
      BY <1>1
    <3>2. s \o u \in Seq(Unit) /\ Len(s \o u) = Len(s) + Len(u)
      <4> HIDE DEF t
      <4>1. QED BY <3>1
    <3>3. QED BY <3>1, <3>2
  <2>2. \A i \in 1..Len(s) : t[i] = s[i]
    BY <1>0, <1>1
  <2>3. ASSUME NEW j \in 1..PacketLength PROVE t[Len(s) + j] = u[j]
    <3>1. Len(s) + j \in 1..(Len(s) + Len(u)) /\ Len(s) + j > Len(s)
      BY <1>0, <1>1
    <3>2. QED BY <1>0, <1>1, <3>1
  <2>4. QED BY <2>1, <2>2, <2>3
<1> HIDE DEF t
<1>3. ASSUME NEW i \in 1..Len(t), t[i].pos = 1
      PROVE  WholeFrom(t, i)
  <2>1. CASE i <= Len(s)
    <3>1. i \in 1..Len(s) /\ t[i] = s[i]
      BY <1>2, <2>1
    <3>2. WholeFrom(s, i)
      BY <1>3, <3>1 DEF Packets
    <3>3. \A j \in 1..PacketLength : t[i + j - 1] = s[i + j - 1]
      <4>1. i + PacketLength - 1 <= Len(s)
        BY <3>2, Zenon DEF WholeFrom
      <4>2. ASSUME NEW j \in 1..PacketLength PROVE i + j - 1 \in 1..Len(s)
        BY <1>0, <3>1, <4>1
      <4>3. QED BY <1>2, <4>2, Zenon
    <3>4. i + PacketLength - 1 <= Len(t)
      BY <1>0, <1>2, <3>1, <3>2 DEF WholeFrom
    <3>5. \A j \in 1..PacketLength :
            t[i + j - 1] = [kind |-> t[i].kind, version |-> t[i].version, pos |-> j]
      BY <3>1, <3>2, <3>3, Zenon DEF WholeFrom
    <3>6. QED BY <3>4, <3>5, Zenon DEF WholeFrom
  <2>2. CASE i > Len(s)
    <3>1. i - Len(s) \in 1..PacketLength /\ t[i] = u[i - Len(s)]
      BY <1>0, <1>2, <2>2
    <3>2. i = Len(s) + 1
      BY <1>1, <1>3, <3>1
    <3>3. t[i].kind = kind /\ t[i].version = v
      BY <1>0, <1>1, <3>1, <3>2
    <3>4. \A j \in 1..PacketLength : t[i + j - 1] = u[j]
      BY <1>0, <1>2, <3>2
    <3>5. i + PacketLength - 1 <= Len(t)
      BY <1>0, <1>2, <3>2
    <3>6. \A j \in 1..PacketLength :
            t[i + j - 1] = [kind |-> t[i].kind, version |-> t[i].version, pos |-> j]
      BY <1>1, <3>3, <3>4
    <3>7. QED BY <3>5, <3>6 DEF WholeFrom
  <2>3. QED BY <1>2, <2>1, <2>2
<1>4. Packets(t)
  BY <1>3 DEF Packets
<1>5. QED BY <1>2, <1>4 DEF t, u

LEMMA RestOfStream ==
  ASSUME ReceiverAssumption, NEW s \in Seq(Unit), Packets(s), NEW n \in 1..Len(s)
  PROVE  /\ SubSeq(s, 1, n) \in Seq(Unit) /\ Len(SubSeq(s, 1, n)) = n
         /\ \A i \in 1..n : SubSeq(s, 1, n)[i] = s[i]
         /\ SubSeq(s, n + 1, Len(s)) \in Seq(Unit)
         /\ Packets(SubSeq(s, n + 1, Len(s)))
<1> DEFINE r == SubSeq(s, n + 1, Len(s))
<1>0. PacketLength \in Nat /\ PacketLength > 0
  BY DEF ReceiverAssumption
<1>1. /\ SubSeq(s, 1, n) \in Seq(Unit) /\ Len(SubSeq(s, 1, n)) = n
      /\ \A i \in 1..n : SubSeq(s, 1, n)[i] = s[i]
  OBVIOUS
<1>2. /\ r \in Seq(Unit) /\ Len(r) = Len(s) - n
      /\ \A i \in 1..Len(r) : r[i] = s[n + i]
  OBVIOUS
<1> HIDE DEF r
<1>3. ASSUME NEW i \in 1..Len(r), r[i].pos = 1
      PROVE  WholeFrom(r, i)
  <2>1. n + i \in 1..Len(s) /\ s[n + i] = r[i]
    BY <1>2
  <2>2. WholeFrom(s, n + i)
    BY <1>3, <2>1 DEF Packets
  <2>3. i + PacketLength - 1 <= Len(r)
    BY <1>0, <1>2, <2>2 DEF WholeFrom
  <2>4. \A j \in 1..PacketLength : r[i + j - 1] = s[n + i + j - 1]
    BY <1>0, <1>2, <2>3
  <2>5. QED BY <1>0, <2>1, <2>2, <2>3, <2>4 DEF WholeFrom
<1>4. QED BY <1>1, <1>2, <1>3 DEF Packets, r

\* What the first read of getConfig takes for a configuration is one.
LEMMA TakenIsWhole ==
  ASSUME ReceiverAssumption, NEW s \in Seq(Unit), Packets(s), NEW n \in 1..Len(s),
         ParseConfig2(SubSeq(s, 1, n)) = "parse_complete"
  PROVE  LET b == SubSeq(s, 1, n)
         IN  /\ Len(b) >= PacketLength
             /\ SubSeq(b, 1, PacketLength) = Units("config", b[1].version)
<1> DEFINE b == SubSeq(s, 1, n)
           p == SubSeq(b, 1, PacketLength)
<1>0. PacketLength \in Nat /\ PacketLength > 0
  BY DEF ReceiverAssumption
<1>1. b \in Seq(Unit) /\ Len(b) = n /\ \A i \in 1..n : b[i] = s[i]
  BY RestOfStream
<1> HIDE DEF b
<1>2. b[1].pos = 1 /\ Len(b) >= PacketLength /\ b[1].kind # "data"
  BY <1>0, <1>1 DEF ParseConfig2, b
<1>3. b[1] \in Unit /\ b[1] = s[1] /\ n >= PacketLength
  BY <1>0, <1>1, <1>2
<1>4. b[1].kind = "config" /\ b[1].version \in Versions
  BY <1>2, <1>3 DEF Unit
<1>5. WholeFrom(s, 1)
  BY <1>2, <1>3 DEF Packets
<1>6. \A j \in 1..PacketLength :
        b[j] = [kind |-> "config", version |-> b[1].version, pos |-> j]
  <2>1. ASSUME NEW j \in 1..PacketLength
        PROVE  b[j] = [kind |-> "config", version |-> b[1].version, pos |-> j]
    <3>1. j \in 1..n /\ 1 + j - 1 = j
      BY <1>0, <1>3
    <3>2. s[1 + j - 1] = [kind |-> s[1].kind, version |-> s[1].version, pos |-> j]
      BY <1>5 DEF WholeFrom
    <3>3. QED BY <1>1, <1>3, <1>4, <3>1, <3>2
  <2>2. QED BY <2>1
<1>7. p = Units("config", b[1].version)
  <2> DEFINE q == Units("config", b[1].version)
  <2>1. p \in Seq(Unit) /\ Len(p) = PacketLength /\ \A j \in 1..PacketLength : p[j] = b[j]
    BY <1>0, <1>1, <1>2
  <2>2. /\ q \in Seq(Unit) /\ Len(q) = PacketLength
        /\ \A j \in 1..PacketLength :
             q[j] = [kind |-> "config", version |-> b[1].version, pos |-> j]
    BY <1>4, NewPacket
  <2> HIDE DEF p, q
  <2>3. \A j \in 1..PacketLength : p[j] = q[j]
    BY <1>6, <2>1, <2>2, Zenon
  <2>4. p = q
    BY <1>0, <2>1, <2>2, <2>3
  <2>5. QED BY <2>4 DEF q
<1>8. QED BY <1>2, <1>7 DEF b

-----------------------------------------------------------------------------
(* The invariant holds initially and each step keeps it. *)

LEMMA InitHolds ==
  ASSUME ReceiverAssumption, Init
  PROVE  ReceiverInv
<1> USE DEF Init
<1>1. CommandLength \in Nat
  BY DEF ReceiverAssumption
<1>2. Types
  <2>1. wire \in Seq(Nat) /\ stream \in Seq(Unit) /\ buffer \in Seq(Unit)
    OBVIOUS
  <2>2. left \in 0..CommandLength /\ writes \in Nat
    BY <1>1
  <2>3. QED BY <2>1, <2>2 DEF Types
<1>3. SendIsWhole
  <2>1. CommandLength - left = 0
    BY <1>1
  <2>2. << >> = [i \in 1..0 |-> i]
    OBVIOUS
  <2>3. QED BY <2>1, <2>2 DEF SendIsWhole
<1>4. Packets(stream)
  BY DEF Packets
<1>5. NoResultYet /\ ConfigIsWhole
  BY DEF NoResultYet, ConfigIsWhole
<1>6. QED BY <1>2, <1>3, <1>4, <1>5 DEF ReceiverInv

\* The steps that neither write nor read.
LEMMA QuietStep ==
  ASSUME ReceiverInv, ReceiverAssumption,
         \/ Connect \/ Connected \/ WaitConnected \/ WriteThrows \/ ReadThrows
         \/ PeerCloses \/ \E how \in {"up", "failed"} : ConnectEnds(how)
  PROVE  ReceiverInv'
<1>1. UNCHANGED <<stream, sending, buffer, config, result>>
  BY DEF Connect, Connected, WaitConnected, WriteThrows, ReadThrows, PeerCloses, ConnectEnds,
         peer
<1>2. Types'
  BY <1>1 DEF ReceiverInv, Types, sending, Connect, Connected, WaitConnected, WriteThrows,
              ReadThrows, PeerCloses, ConnectEnds, Throw, AfterSend
<1>3. SendIsWhole' /\ Packets(stream)'
  BY <1>1 DEF ReceiverInv, SendIsWhole, Packets, WholeFrom, sending
<1>4. NoResultYet'
  BY <1>1 DEF ReceiverInv, NoResultYet, Connect, Connected, WaitConnected, WriteThrows,
              ReadThrows, PeerCloses, ConnectEnds, Throw, AfterSend
<1>5. ConfigIsWhole'
  BY <1>1 DEF ReceiverInv, ConfigIsWhole, Units
<1>6. QED BY <1>2, <1>3, <1>4, <1>5 DEF ReceiverInv

LEMMA CommandStep ==
  ASSUME ReceiverInv, ReceiverAssumption, NEW c \in Calls, Command(c)
  PROVE  ReceiverInv'
<1>0. CommandLength \in Nat
  BY DEF ReceiverAssumption
<1>1. /\ left' = CommandLength /\ writes' = 0 /\ wire' = << >> /\ sent' = FALSE
      /\ buffer' = << >> /\ stream' = stream
      /\ pc' \in {"write", "wait1"} /\ call' = c
      /\ c = "getConfig" => result' = "none"
  BY DEF Command, peer
<1>2. Types'
  <2>1. wire' \in Seq(Nat) /\ buffer' \in Seq(Unit)
    BY <1>1
  <2>2. left' \in 0..CommandLength /\ writes' \in Nat
    BY <1>0, <1>1
  <2>3. QED BY <1>1, <2>1, <2>2 DEF ReceiverInv, Types
<1>3. SendIsWhole'
  <2>1. CommandLength - left' = 0
    BY <1>0, <1>1
  <2>2. << >> = [i \in 1..0 |-> i]
    OBVIOUS
  <2>3. QED BY <1>1, <2>1, <2>2 DEF SendIsWhole
<1>4. Packets(stream)'
  BY <1>1 DEF ReceiverInv, Packets, WholeFrom
<1>5. NoResultYet' /\ ConfigIsWhole'
  BY <1>1 DEF NoResultYet, ConfigIsWhole
<1>6. QED BY <1>2, <1>3, <1>4, <1>5 DEF ReceiverInv

LEMMA WriteStep ==
  ASSUME ReceiverInv, ReceiverAssumption, NEW n \in 1..CommandLength, Write(n)
  PROVE  ReceiverInv'
<1> DEFINE m == CommandLength - left
<1>0. /\ CommandLength \in Nat /\ left \in 0..CommandLength /\ writes \in Nat
      /\ n \in 1..left /\ m \in Nat /\ n \in Nat
  BY DEF ReceiverAssumption, ReceiverInv, Types, Write
<1>1. /\ left' = left - n /\ writes' = writes + 1
      /\ stream' = stream /\ buffer' = buffer /\ config' = config /\ result' = result
      /\ pc = "write"
  BY DEF Write, peer
<1>2. wire = [i \in 1..m |-> i]
  BY DEF ReceiverInv, SendIsWhole
<1>3. wire' = wire \o [i \in 1..n |-> m + i]
  BY DEF Write
<1>4. wire' = [i \in 1..(m + n) |-> i] /\ wire' \in Seq(Nat)
  BY <1>0, <1>2, <1>3, LongerBeginning
<1>5. CommandLength - left' = m + n /\ left' \in 0..CommandLength /\ writes' \in Nat
  BY <1>0, <1>1
<1>6. \/ sent' = (writes' < 5) /\ (left' = 0 \/ writes' = 5) /\ AfterSend
      \/ left' # 0 /\ sent' = sent /\ pc' = pc /\ call' = call
  BY DEF Write
<1>7. SendIsWhole'
  <2>1. sent' => left' = 0
    <3>1. sent => left = 0
      BY DEF ReceiverInv, SendIsWhole
    <3>2. left # 0
      BY <1>0
    <3>3. writes' = 5 => ~(writes' < 5)
      OBVIOUS
    <3>4. CASE sent' = (writes' < 5) /\ (left' = 0 \/ writes' = 5)
      BY <3>3, <3>4, Zenon
    <3>5. CASE sent' = sent
      BY <3>1, <3>2, <3>5, Zenon
    <3>6. QED BY <1>6, <3>4, <3>5, Zenon
  <2>2. QED BY <1>4, <1>5, <2>1 DEF SendIsWhole
<1>8. Types'
  <2>1. pc' \in {"write", "read", "idle"}
    BY <1>1, <1>6 DEF AfterSend
  <2>2. QED BY <1>1, <1>4, <1>5, <2>1 DEF ReceiverInv, Types
<1>9. Packets(stream)'
  BY <1>1 DEF ReceiverInv, Packets, WholeFrom
<1>10. NoResultYet'
  BY <1>1, <1>6 DEF ReceiverInv, NoResultYet, AfterSend
<1>11. ConfigIsWhole'
  BY <1>1 DEF ReceiverInv, ConfigIsWhole, Units
<1>12. QED BY <1>7, <1>8, <1>9, <1>10, <1>11 DEF ReceiverInv

LEMMA ReadStep ==
  ASSUME ReceiverInv, ReceiverAssumption, NEW n \in 1..MaxUnits, Read(n)
  PROVE  ReceiverInv'
<1> DEFINE units == SubSeq(stream, 1, n)
           pr == ParseConfig2(units)
<1>0. stream \in Seq(Unit) /\ Packets(stream) /\ n \in 1..Len(stream) /\ pc = "read"
  BY DEF Read, ReceiverInv, Types
<1>1. /\ buffer' = units /\ stream' = SubSeq(stream, n + 1, Len(stream))
      /\ left' = left /\ writes' = writes /\ wire' = wire /\ sent' = sent
      /\ config' = IF pr = "parse_complete" THEN units[1].version ELSE config
      /\ \/ pr = "length_mismatch" /\ pc' = "more" /\ call' = call /\ result' = result
         \/ pr # "length_mismatch" /\ pc' = "idle" /\ result' = pr
  BY DEF Read, sending
<1>2. /\ units \in Seq(Unit)
      /\ stream' \in Seq(Unit) /\ Packets(stream')
  BY <1>0, <1>1, RestOfStream
<1>3. Types'
  BY <1>1, <1>2 DEF ReceiverInv, Types
<1>4. SendIsWhole'
  BY <1>1 DEF ReceiverInv, SendIsWhole
<1>5. Packets(stream)'
  BY <1>2 DEF Packets, WholeFrom
<1>6. call = "getConfig" /\ result = "none"
  BY <1>0 DEF ReceiverInv, NoResultYet
<1>7. NoResultYet'
  BY <1>1, <1>6 DEF NoResultYet
<1>8. ConfigIsWhole'
  <2>1. SUFFICES ASSUME result' = "parse_complete"
                 PROVE  /\ Len(buffer') >= PacketLength
                        /\ SubSeq(buffer', 1, PacketLength) = Units("config", buffer'[1].version)
                        /\ config' = buffer'[1].version
    BY DEF ConfigIsWhole, Units
  <2>2. pr = "parse_complete"
    BY <1>1, <1>6, <2>1
  <2>3. QED BY <1>0, <1>1, <2>2, TakenIsWhole
<1>9. QED BY <1>3, <1>4, <1>5, <1>7, <1>8 DEF ReceiverInv

LEMMA ReadMoreStep ==
  ASSUME ReceiverInv, ReceiverAssumption, NEW n \in 1..MaxUnits, ReadMore(n)
  PROVE  ReceiverInv'
<1>0. /\ stream \in Seq(Unit) /\ Packets(stream) /\ n \in 1..Len(stream) /\ pc = "more"
      /\ buffer \in Seq(Unit)
  BY DEF ReadMore, ReceiverInv, Types
<1>1. /\ buffer' = buffer \o SubSeq(stream, 1, n)
      /\ stream' = SubSeq(stream, n + 1, Len(stream))
      /\ UNCHANGED <<pc, call, left, writes, wire, sent, config, result>>
  BY DEF ReadMore, sending
<1>2. buffer' \in Seq(Unit) /\ stream' \in Seq(Unit) /\ Packets(stream')
  <2>1. SubSeq(stream, 1, n) \in Seq(Unit) /\ stream' \in Seq(Unit) /\ Packets(stream')
    BY <1>0, <1>1, RestOfStream
  <2>2. QED BY <1>0, <1>1, <2>1
<1>3. Types'
  BY <1>1, <1>2 DEF ReceiverInv, Types
<1>4. SendIsWhole'
  BY <1>1 DEF ReceiverInv, SendIsWhole
<1>5. Packets(stream)'
  BY <1>2 DEF Packets, WholeFrom
<1>6. call = "getConfig" /\ result = "none"
  BY <1>0 DEF ReceiverInv, NoResultYet
<1>7. NoResultYet' /\ ConfigIsWhole'
  BY <1>1, <1>6 DEF ReceiverInv, NoResultYet, ConfigIsWhole
<1>8. QED BY <1>3, <1>4, <1>5, <1>7 DEF ReceiverInv

LEMMA PeerStep ==
  ASSUME ReceiverInv, ReceiverAssumption, NEW kind \in {"config", "data"},
         NEW v \in Versions, PeerSends(kind, v)
  PROVE  ReceiverInv'
<1>1. /\ stream' = stream \o Units(kind, v)
      /\ UNCHANGED <<pc, call, left, writes, wire, sent, buffer, config, result>>
  BY DEF PeerSends, sending
<1>2. stream' \in Seq(Unit) /\ Packets(stream')
  BY <1>1, PacketAppended DEF ReceiverInv, Types
<1>3. Types'
  BY <1>1, <1>2 DEF ReceiverInv, Types
<1>4. SendIsWhole'
  BY <1>1 DEF ReceiverInv, SendIsWhole
<1>5. Packets(stream)'
  BY <1>2 DEF Packets, WholeFrom
<1>6. NoResultYet' /\ ConfigIsWhole'
  BY <1>1 DEF ReceiverInv, NoResultYet, ConfigIsWhole, Units
<1>7. QED BY <1>3, <1>4, <1>5, <1>6 DEF ReceiverInv

-----------------------------------------------------------------------------
(***************************************************************************)
(* The inductive invariant.  ConfigIsWhole needs to know that the units of  *)
(* the peer are those of whole packets, wherever a read has cut them, and   *)
(* that getConfig has no result while it is reading.                        *)
(***************************************************************************)
THEOREM Invariant == Spec => []ReceiverInv
<1>1. Init => ReceiverInv
  BY InitHolds, ReceiverAssumption
<1>2. ReceiverInv /\ [Next]_vars => ReceiverInv'
  <2> SUFFICES ASSUME ReceiverInv, [Next]_vars
               PROVE  ReceiverInv'
    OBVIOUS
  <2> USE ReceiverAssumption
  <2>1. ASSUME NEW c \in Calls, Command(c) PROVE ReceiverInv'
    BY <2>1, CommandStep
  <2>2. ASSUME NEW n \in 1..CommandLength, Write(n) PROVE ReceiverInv'
    BY <2>2, WriteStep
  <2>3. ASSUME NEW n \in 1..MaxUnits, Read(n) PROVE ReceiverInv'
    BY <2>3, ReadStep
  <2>4. ASSUME NEW n \in 1..MaxUnits, ReadMore(n) PROVE ReceiverInv'
    BY <2>4, ReadMoreStep
  <2>5. ASSUME NEW kind \in {"config", "data"}, NEW v \in Versions, PeerSends(kind, v)
        PROVE  ReceiverInv'
    BY <2>5, PeerStep
  <2>6. CASE \/ Connect \/ Connected \/ WaitConnected \/ WriteThrows \/ ReadThrows
             \/ PeerCloses \/ \E how \in {"up", "failed"} : ConnectEnds(how)
    BY <2>6, QuietStep
  <2>7. CASE UNCHANGED vars
    BY <2>7 DEF vars, peer, sending, ReceiverInv, Types, SendIsWhole, Packets, WholeFrom,
                NoResultYet, ConfigIsWhole, Units
  <2>8. QED BY <2>1, <2>2, <2>3, <2>4, <2>5, <2>6, <2>7 DEF Next, ReceiverStep
<1>3. QED BY <1>1, <1>2, PTL DEF Spec

(***************************************************************************)
(* What send reports as sent is the whole command, and what was written is  *)
(* a beginning of it, however the writes are cut.  (TcpConnection::send)    *)
(***************************************************************************)
THEOREM SendCorrect == Spec => []SendIsWhole
<1>1. ReceiverInv => SendIsWhole
  BY DEF ReceiverInv
<1>2. QED BY <1>1, Invariant, PTL

(***************************************************************************)
(* A configuration that getConfig accepts came whole from the peer, and is  *)
(* the one in use, however the stream is cut.  (Receiver::getConfig)        *)
(***************************************************************************)
THEOREM ConfigCorrect == Spec => []ConfigIsWhole
<1>1. ReceiverInv => ConfigIsWhole
  BY DEF ReceiverInv
<1>2. QED BY <1>1, Invariant, PTL
=============================================================================
