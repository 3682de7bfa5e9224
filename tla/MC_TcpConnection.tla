------------------------- MODULE MC_TcpConnection -------------------------
(* TcpConnection with two user threads, for TLC. *)
EXTENDS TcpConnection

VARIABLE proper  \* no startReceive so far broke the usage of TcpServer

\* TcpServer leaves a receiving connection alone, and a client calls
\* waitUntilConnected first: a connection is started once, when it is up.
StartsProperly ==
  \A u \in Users :
    BeginStart(u) => ~receivingHalt.active /\ (connecting => connected.active)

UseInit == Init /\ proper = TRUE
UseNext == Next /\ proper' = (proper /\ StartsProperly)
UseSpec == UseInit /\ [][UseNext]_<<vars, proper>> /\ Fairness

\* Used properly, close leaves nothing of the connection behind, and
\* isConnected() speaks the truth about connect_handler.
ProperUse == proper => QuietAfterClose /\ ConnectedMeansUp
===========================================================================
