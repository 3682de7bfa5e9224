------------------------- MODULE ReceiveBuffer_proofs -------------------------
(***************************************************************************)
(* Theorems about ReceiveBuffer, for a buffer and frames of any size and   *)
(* any way the reads and dataCall cut the stream.                          *)
(***************************************************************************)
EXTENDS ReceiveBuffer, TLAPS

\* the first n bytes of the peer
Upto(n) == [i \in 1..n |-> i]

Types ==
  /\ residBufferSize \in 0..Capacity
  /\ data \in [1..Capacity -> Nat]

\* What has arrived and what was delivered are beginnings of the stream, and the
\* residual bytes are those between the two.
Contents ==
  \E a, d \in Nat :
    /\ arrived = Upto(a) /\ delivered = Upto(d)
    /\ a = d + residBufferSize
    /\ \A i \in 1..residBufferSize : data[i] = d + i

BufferInv == Types /\ Contents

-----------------------------------------------------------------------------
(* Beginnings of the stream                                                *)

LEMMA UptoSeq ==
  ASSUME NEW n \in Nat
  PROVE  Upto(n) \in Seq(Nat) /\ Len(Upto(n)) = n /\ \A i \in 1..n : Upto(n)[i] = i
BY DEF Upto

LEMMA ConcatLength ==
  ASSUME NEW u \in Seq(Nat), NEW s \in Seq(Nat)
  PROVE  u \o s \in Seq(Nat) /\ Len(u \o s) = Len(u) + Len(s)
OBVIOUS

LEMMA UptoPrefix ==
  ASSUME NEW m \in Nat, NEW n \in Nat, m <= n
  PROVE  SubSeq(Upto(n), 1, m) = Upto(m)
<1> DEFINE u == Upto(n)
           s == SubSeq(u, 1, m)
           v == Upto(m)
<1>1. u \in Seq(Nat) /\ Len(u) = n /\ \A i \in 1..n : u[i] = i
  BY UptoSeq
<1>2. v \in Seq(Nat) /\ Len(v) = m /\ \A i \in 1..m : v[i] = i
  BY UptoSeq
<1> HIDE DEF u, v
<1>3. s \in Seq(Nat) /\ Len(s) = m /\ \A i \in 1..m : s[i] = i
  BY <1>1
<1> HIDE DEF s
<1>4. s = v
  BY <1>2, <1>3
<1>5. QED BY <1>4 DEF s, u, v

\* The first bytes of a buffer that goes on where a beginning ends make it longer.
LEMMA UptoExtended ==
  ASSUME NEW d \in Nat, NEW n \in 0..Capacity, BufferAssumption,
         NEW f \in [1..Capacity -> Nat], \A i \in 1..n : f[i] = d + i
  PROVE  Upto(d) \o SubSeq(f, 1, n) = Upto(d + n)
<1> DEFINE u == Upto(d)
           s == SubSeq(f, 1, n)
           v == Upto(d + n)
<1>0. Capacity \in Nat /\ n \in Nat /\ n <= Capacity /\ d + n \in Nat
  BY DEF BufferAssumption
<1>1. u \in Seq(Nat) /\ Len(u) = d /\ \A i \in 1..d : u[i] = i
  BY UptoSeq
<1>2. v \in Seq(Nat) /\ Len(v) = d + n /\ \A i \in 1..(d + n) : v[i] = i
  BY <1>0, UptoSeq
<1>3. f \in Seq(Nat) /\ Len(f) = Capacity
  BY <1>0
<1>4. s \in Seq(Nat) /\ Len(s) = n /\ \A i \in 1..n : s[i] = d + i
  BY <1>0, <1>3
<1> HIDE DEF u, s, v
<1>5. u \o s \in Seq(Nat) /\ Len(u \o s) = d + n
  BY <1>1, <1>4, ConcatLength
<1>6. \A i \in 1..(d + n) : (u \o s)[i] = i
  <2>1. ASSUME NEW i \in 1..(d + n), i <= d PROVE (u \o s)[i] = i
    <3>1. i \in 1..d
      BY <1>0, <2>1
    <3> QED  BY <1>1, <1>4, <3>1
  <2>2. ASSUME NEW i \in 1..(d + n), i > d PROVE (u \o s)[i] = i
    <3>1. i - d \in 1..n /\ d + (i - d) = i
      BY <1>0, <2>2
    <3> QED  BY <1>1, <1>4, <2>2, <3>1
  <2>3. \A i \in 1..(d + n) : i <= d \/ i > d
    BY <1>0
  <2> QED  BY <2>1, <2>2, <2>3, Zenon
<1>7. u \o s = v
  <2> DEFINE w == u \o s
  <2>1. w \in Seq(Nat) /\ Len(w) = d + n /\ \A i \in 1..(d + n) : w[i] = i
    BY <1>5, <1>6
  <2> HIDE DEF w
  <2>2. w = v
    BY <1>0, <1>2, <2>1
  <2>3. QED BY <2>2 DEF w
<1>8. QED BY <1>7 DEF u, s, v

-----------------------------------------------------------------------------
(* The invariant                                                           *)

\* Once a read is complete the whole of the buffer goes on where dataCall stopped.
LEMMA FilledGoesOn ==
  ASSUME BufferAssumption, Types, NEW a \in Nat, NEW d \in Nat,
         arrived = Upto(a), a = d + residBufferSize,
         \A i \in 1..residBufferSize : data[i] = d + i,
         NEW n \in Nat, n <= Room
  PROVE  /\ Filled(n) \in [1..Capacity -> Nat]
         /\ \A i \in 1..(n + residBufferSize) : Filled(n)[i] = d + i
<1>0. Capacity \in Nat /\ residBufferSize \in Nat /\ n + residBufferSize <= Capacity
  BY DEF BufferAssumption, Types, Room
<1>1. Len(arrived) = a
  BY UptoSeq
<1>2. \A i \in 1..Capacity : i \in residBufferSize + 1 .. residBufferSize + n =>
        a + i - residBufferSize = d + i /\ d + i \in Nat
  BY <1>0
<1>3. \A i \in 1..Capacity : data[i] \in Nat
  BY DEF Types
<1>4. Filled(n) \in [1..Capacity -> Nat]
  BY <1>1, <1>2, <1>3 DEF Filled
<1>5. ASSUME NEW i \in 1..(n + residBufferSize) PROVE Filled(n)[i] = d + i
  <2>1. i \in 1..Capacity
    BY <1>0
  <2>2. CASE i \in residBufferSize + 1 .. residBufferSize + n
    BY <1>1, <1>2, <2>1, <2>2 DEF Filled
  <2>3. CASE i \notin residBufferSize + 1 .. residBufferSize + n
    <3>1. i \in 1..residBufferSize
      BY <1>0, <2>3
    <3>2. QED BY <2>1, <2>3, <3>1 DEF Filled
  <2>4. QED BY <2>2, <2>3
<1>6. QED BY <1>4, <1>5

\* a read of n bytes of which, with those before, dataCall takes some
Handled(n, used) == Handle(n, used, TRUE) \/ Handle(n, used, FALSE)

\* What a read leaves, as the two beginnings it leads to
LEMMA HandleStep ==
  ASSUME BufferAssumption, Types, NEW a \in Nat, NEW d \in Nat,
         arrived = Upto(a), delivered = Upto(d), a = d + residBufferSize,
         \A i \in 1..residBufferSize : data[i] = d + i,
         NEW n \in Nat, n <= Room, NEW used \in Nat,
         frameSize \in Nat, Handled(n, used)
  PROVE  /\ BufferInv'
         /\ arrived' = Upto(a + n) /\ delivered' = Upto(d + used) /\ d + used <= a + n
<1> DEFINE total == n + residBufferSize
           f == Filled(n)
<1>0. /\ Capacity \in Nat /\ residBufferSize \in Nat /\ total \in Nat /\ total <= Capacity
  BY DEF BufferAssumption, Types, Room
<1>1. used <= total
  BY <1>0 DEF Handled, Handle, Takes
<1>2. f \in [1..Capacity -> Nat] /\ \A i \in 1..total : f[i] = d + i
  BY FilledGoesOn
<1>3. /\ arrived' = [i \in 1..Len(arrived) + n |-> i]
      /\ delivered' = delivered \o SubSeq(f, 1, used)
      /\ residBufferSize' = Rest(used, total)
      /\ used < total => data' = Moved(f, used, total)
      /\ ~(used < total) => data' = [i \in 1..Capacity |-> 0] \/ data' = f
  BY DEF Handled, Handle
<1> HIDE DEF f
<1>4. arrived' = Upto(a + n)
  BY <1>3, UptoSeq DEF Upto
<1>5. delivered' = Upto(d + used)
  <2>1. used \in 0..Capacity /\ \A i \in 1..used : f[i] = d + i
    BY <1>0, <1>1, <1>2
  <2>2. QED BY <1>2, <1>3, <2>1, UptoExtended
<1>6. residBufferSize' = total - used /\ residBufferSize' \in 0..Capacity
  BY <1>0, <1>1, <1>3 DEF Rest
<1>7. a + n = (d + used) + residBufferSize' /\ d + used <= a + n
  BY <1>0, <1>1, <1>6
<1>8. data' \in [1..Capacity -> Nat] /\ \A i \in 1..residBufferSize' : data'[i] = d + used + i
  <2>1. CASE used < total
    <3>1. data' = [i \in 1..Capacity |-> IF i + used <= total THEN f[i + used] ELSE f[i]]
      BY <1>3, <2>1 DEF Moved
    <3>2. \A i \in 1..Capacity : i + used <= total => i + used \in 1..total /\ i + used \in 1..Capacity
      BY <1>0
    <3>3. data' \in [1..Capacity -> Nat]
      BY <1>2, <3>1, <3>2
    <3>4. ASSUME NEW i \in 1..residBufferSize' PROVE data'[i] = d + used + i
      <4>1. i \in 1..Capacity /\ i + used <= total
        BY <1>0, <1>1, <1>6
      <4>2. data'[i] = f[i + used]
        BY <3>1, <4>1
      <4>3. f[i + used] = d + (i + used)
        BY <1>2, <3>2, <4>1
      <4>4. QED BY <4>2, <4>3
    <3>5. QED BY <3>3, <3>4
  <2>2. CASE ~(used < total)
    <3>1. residBufferSize' = 0
      BY <1>0, <1>1, <1>6, <2>2
    <3>2. data' \in [1..Capacity -> Nat]
      BY <1>2, <1>3, <2>2
    <3>3. QED BY <3>1, <3>2
  <2>3. QED BY <2>1, <2>2
<1>9. Contents'
  <2>1. a + n \in Nat /\ d + used \in Nat
    OBVIOUS
  <2>2. QED BY <1>4, <1>5, <1>7, <1>8, <2>1 DEF Contents
<1>10. QED BY <1>4, <1>5, <1>6, <1>7, <1>8, <1>9 DEF BufferInv, Types

\* the same for every step, whichever read it is
LEMMA NextStep ==
  ASSUME BufferAssumption, Types, frameSize \in Nat, NEW a \in Nat, NEW d \in Nat,
         arrived = Upto(a), delivered = Upto(d), a = d + residBufferSize,
         \A i \in 1..residBufferSize : data[i] = d + i, [Next]_vars
  PROVE  /\ BufferInv' /\ frameSize' = frameSize
         /\ \E n, used \in Nat : /\ arrived' = Upto(a + n) /\ delivered' = Upto(d + used)
                                 /\ d + used <= a + n
<1>0. Capacity \in Nat /\ residBufferSize \in Nat
  BY DEF BufferAssumption, Types
<1>1. CASE UNCHANGED <<frameSize, data, residBufferSize, arrived, delivered>>
  <2>1. BufferInv' /\ frameSize' = frameSize
    BY <1>1 DEF BufferInv, Types, Contents
  <2>2. arrived' = Upto(a + 0) /\ delivered' = Upto(d + 0) /\ d + 0 <= a + 0
    BY <1>0, <1>1
  <2>3. QED BY <2>1, <2>2
<1>2. ASSUME NEW n \in 0..Capacity, NEW used \in 0..Capacity, Read(n, used) \/ ReadError(n, used),
             ~ UNCHANGED <<frameSize, data, residBufferSize, arrived, delivered>>
      PROVE  /\ BufferInv' /\ frameSize' = frameSize
             /\ arrived' = Upto(a + n) /\ delivered' = Upto(d + used) /\ d + used <= a + n
  <2>1. n \in Nat /\ used \in Nat /\ n <= Room
    <3>1. n <= Room
      BY <1>2, Zenon DEF Read, ReadError
    <3>2. QED BY <1>0, <3>1
  <2>2. Handled(n, used)
    BY <1>2 DEF Read, ReadError, Handled
  <2>3. frameSize' = frameSize
    BY <2>2 DEF Handled, Handle
  <2>4. QED BY <2>1, <2>2, <2>3, HandleStep
<1>3. CASE UNCHANGED vars
  BY <1>1, <1>3 DEF vars
<1>4. CASE Next
  <2>1. PICK n \in 0..Capacity, used \in 0..Capacity : Read(n, used) \/ ReadError(n, used)
    BY <1>4 DEF Next
  <2>2. n \in Nat /\ used \in Nat
    BY <1>0
  <2>3. QED BY <1>1, <1>2, <2>1, <2>2
<1>5. QED BY <1>3, <1>4

(***************************************************************************)
(* The inductive invariant.  That the residual bytes are the next of the    *)
(* stream has to be said of each of them: StreamIntact only speaks of them  *)
(* together, and a read fills the buffer behind them.                       *)
(***************************************************************************)
THEOREM Invariant == Spec => [](BufferInv /\ frameSize \in Nat)
<1>1. Init => BufferInv /\ frameSize \in Nat
  <2> SUFFICES ASSUME Init PROVE BufferInv /\ frameSize \in Nat
    OBVIOUS
  <2>1. Capacity \in Nat
    BY BufferAssumption DEF BufferAssumption
  <2>2. Types /\ frameSize \in Nat
    BY <2>1 DEF Init, Types
  <2>3. << >> = Upto(0)
    BY DEF Upto
  <2>4. Contents
    BY <2>3 DEF Init, Contents
  <2>5. QED BY <2>2, <2>4 DEF BufferInv
<1>2. BufferInv /\ frameSize \in Nat /\ [Next]_vars => (BufferInv /\ frameSize \in Nat)'
  <2> SUFFICES ASSUME BufferInv, frameSize \in Nat, [Next]_vars
               PROVE  BufferInv' /\ frameSize' \in Nat
    OBVIOUS
  <2>1. PICK a \in Nat, d \in Nat :
          /\ arrived = Upto(a) /\ delivered = Upto(d)
          /\ a = d + residBufferSize
          /\ \A i \in 1..residBufferSize : data[i] = d + i
    BY DEF BufferInv, Contents
  <2>2. BufferInv' /\ frameSize' = frameSize
    BY <2>1, NextStep, BufferAssumption DEF BufferInv
  <2>3. QED BY <2>2
<1>3. QED BY <1>1, <1>2, PTL DEF Spec

(***************************************************************************)
(* What dataCall has taken and the residual bytes together are what has     *)
(* arrived: nothing is lost, repeated or moved.  (handle_read, async_receive)*)
(***************************************************************************)
THEOREM StreamKept == Spec => []StreamIntact
<1>1. BufferInv => StreamIntact
  <2> SUFFICES ASSUME BufferInv PROVE StreamIntact
    OBVIOUS
  <2>1. PICK a \in Nat, d \in Nat :
          /\ arrived = Upto(a) /\ delivered = Upto(d)
          /\ a = d + residBufferSize
          /\ \A i \in 1..residBufferSize : data[i] = d + i
    BY DEF BufferInv, Contents
  <2>2. residBufferSize \in 0..Capacity /\ data \in [1..Capacity -> Nat]
    BY DEF BufferInv, Types
  <2>3. Upto(d) \o SubSeq(data, 1, residBufferSize) = Upto(d + residBufferSize)
    BY <2>1, <2>2, UptoExtended, BufferAssumption
  <2>4. QED BY <2>1, <2>3 DEF StreamIntact
<1>2. QED BY <1>1, Invariant, PTL

(***************************************************************************)
(* The buffer implements ByteStream: every step appends to what has arrived *)
(* and to what was delivered, and what is delivered is a beginning of what  *)
(* has arrived.  (handle_read)                                              *)
(***************************************************************************)
THEOREM ImplementsStream == Spec => StreamSpec
<1>1. Init => Stream!Init
  BY DEF Init, Stream!Init
<1>2. BufferInv /\ frameSize \in Nat /\ [Next]_vars => [Stream!Next]_<<arrived, delivered>>
  <2> SUFFICES ASSUME BufferInv, frameSize \in Nat, [Next]_vars
               PROVE  Stream!Next
    OBVIOUS
  <2>1. PICK a \in Nat, d \in Nat :
          /\ arrived = Upto(a) /\ delivered = Upto(d)
          /\ a = d + residBufferSize
          /\ \A i \in 1..residBufferSize : data[i] = d + i
    BY DEF BufferInv, Contents
  <2>2. PICK n \in Nat, used \in Nat :
          /\ arrived' = Upto(a + n) /\ delivered' = Upto(d + used)
          /\ d + used <= a + n
    BY <2>1, NextStep, BufferAssumption DEF BufferInv
  <2>3. a + n \in Nat /\ d + used \in Nat /\ a <= a + n /\ d <= d + used
    OBVIOUS
  <2>4. Len(arrived) = a /\ Len(delivered) = d /\ Len(delivered') = d + used
    BY <2>1, <2>2, <2>3, UptoSeq
  <2>5. SubSeq(arrived', 1, Len(arrived)) = arrived
    BY <2>1, <2>2, <2>3, <2>4, UptoPrefix
  <2>6. SubSeq(delivered', 1, Len(delivered)) = delivered
    BY <2>1, <2>2, <2>3, <2>4, UptoPrefix
  <2>7. SubSeq(arrived', 1, Len(delivered')) = delivered'
    BY <2>2, <2>3, <2>4, UptoPrefix
  <2>8. QED BY <2>5, <2>6, <2>7 DEF Stream!Next
<1>3. QED BY <1>1, <1>2, Invariant, PTL DEF Spec, StreamSpec, Stream!Spec
=============================================================================
