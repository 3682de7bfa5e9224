---------------------------- MODULE ByteStream ----------------------------
(***************************************************************************)
(* What TcpConnection promises to the user of setDataCall: the bytes the    *)
(* peer sent are handed over in order, each exactly once.                   *)
(***************************************************************************)
EXTENDS Sequences

VARIABLES arrived,   \* the bytes read from the socket so far
          delivered  \* the bytes dataCall has taken

Init == arrived = << >> /\ delivered = << >>

\* A read appends to what has arrived; dataCall takes some of what is there.
Next ==
  /\ SubSeq(arrived', 1, Len(arrived)) = arrived
  /\ SubSeq(delivered', 1, Len(delivered)) = delivered
  /\ SubSeq(arrived', 1, Len(delivered')) = delivered'

Spec == Init /\ [][Next]_<<arrived, delivered>>
===========================================================================
