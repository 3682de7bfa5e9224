--------------------------- MODULE ReceiveBuffer ---------------------------
(***************************************************************************)
(* The receive buffer of TcpConnection: async_receive writes behind the    *)
(* residual bytes, handle_read offers all of them to dataCall and moves    *)
(* what it has not taken to the front.  One step is one completed read,    *)
(* which has the buffer to itself (BufferExclusive of TcpConnection).      *)
(* dataCall takes whole frames, like a reader of C37.118 packets; their    *)
(* size is that of the data frames of one peer.                            *)
(***************************************************************************)
EXTENDS Naturals, Sequences

CONSTANTS Capacity,   \* data.size()
          MaxBytes    \* bound: how many bytes the peer sends

ASSUME BufferAssumption ==
  /\ Capacity \in Nat \ {0}
  /\ MaxBytes \in Nat

VARIABLES frameSize,        \* bytes of one frame, at most the buffer
          data,             \* the vector
          residBufferSize,
          receiving,        \* state is operating, and not halted
          arrived,          \* bytes read from the socket: 1, 2, 3 and so on
          delivered         \* bytes dataCall has taken

vars == <<frameSize, data, residBufferSize, receiving, arrived, delivered>>

Init ==
  /\ frameSize \in 1..Capacity
  /\ data = [i \in 1..Capacity |-> 0]
  /\ residBufferSize = 0
  /\ receiving = TRUE
  /\ arrived = << >> /\ delivered = << >>

\* The vector once async_receive has put n bytes behind the residual ones.
Filled(n) ==
  [i \in 1..Capacity |->
    IF i \in residBufferSize + 1 .. residBufferSize + n
    THEN Len(arrived) + i - residBufferSize ELSE data[i]]

\* What dataCall may return for `total` bytes.
Takes(total) ==
  IF total < frameSize THEN {0}
  ELSE {used \in 1..total : used % frameSize = 0}

\* mutant: the rest is not moved to the front
Moved_NotAtAll(d, used, total) == d

\* std::copy(data + used, data + total, data)
Moved(d, used, total) ==
  [i \in 1..Capacity |-> IF i + used <= total THEN d[i + used] ELSE d[i]]

\* mutant: the residual size counts the bytes that were taken
Rest_Taken(used, total) == used

Rest(used, total) == IF used < total THEN total - used ELSE 0

\* n bytes arrive and dataCall takes the first `used` of the buffer
Handle(n, used, cleared) ==
  LET total == n + residBufferSize
      d == Filled(n)
  IN /\ used \in Takes(total)
     /\ arrived' = [i \in 1..Len(arrived) + n |-> i]
     /\ delivered' = delivered \o SubSeq(d, 1, used)
     /\ residBufferSize' = Rest(used, total)
     /\ UNCHANGED frameSize
     /\ data' = IF used < total THEN Moved(d, used, total)
                ELSE IF cleared THEN [i \in 1..Capacity |-> 0] ELSE d

\* mutant: one byte is kept free, as if for a terminator
Room_Less == IF residBufferSize < Capacity THEN Capacity - residBufferSize - 1 ELSE 0

\* data.size() - residBufferSize
Room == Capacity - residBufferSize

\* A read without error: at least one byte, or none into a full buffer.
Read(n, used) ==
  /\ receiving
  /\ n > 0 <=> Room > 0
  /\ n <= Room /\ Len(arrived) + n <= MaxBytes
  /\ Handle(n, used, TRUE)
  /\ UNCHANGED receiving

\* A read with an error: the bytes that came with it are handled, then
\* errorCall says whether to go on.
ReadError(n, used) ==
  /\ receiving
  /\ n <= Room /\ Len(arrived) + n <= MaxBytes
  /\ IF n > 0 THEN Handle(n, used, FALSE)
     ELSE used = 0 /\ UNCHANGED <<frameSize, data, residBufferSize, arrived, delivered>>
  /\ receiving' \in BOOLEAN

Next == \E n, used \in 0..Capacity : Read(n, used) \/ ReadError(n, used)

Spec == Init /\ [][Next]_vars

\* The peer goes on sending.
FairSpec == Spec /\ WF_vars(\E n, used \in 0..Capacity : Read(n, used))

-----------------------------------------------------------------------------
(* Properties                                                              *)

\* What dataCall has taken, followed by the residual bytes at the front of the
\* buffer, is what arrived: nothing is lost, repeated or moved.
StreamIntact ==
  delivered \o SubSeq(data, 1, residBufferSize) = arrived

\* The buffer implements a stream of bytes.
Stream == INSTANCE ByteStream
StreamSpec == Stream!Spec

\* Whole frames get through: unless the connection halts, a byte that has
\* arrived is delivered once the peer has sent a buffer of bytes more, for any
\* frame size up to that of the buffer.
FramesDelivered ==
  \A k \in 1..(MaxBytes - Capacity) :
    Len(arrived) >= k ~> (Len(delivered) >= k \/ ~receiving)
============================================================================
