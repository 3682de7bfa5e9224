--------------------------- MODULE MC_TcpServer ---------------------------
(* TcpServer with how its owner uses it, for TLC: it reconnects by itself  *)
(* only a server that is halted.                                           *)
EXTENDS TcpServer

VARIABLES proper,   \* start was only called while nothing was being accepted
          calm,     \* no call began while the io_context thread was in a handler
          cleared   \* a server of several endpoints has been closed

Idle == At("loop", "idle") /\ \A a \in Acceptors : pending[a] = 0

history == <<proper, calm, cleared>>

UseInit == Init /\ proper = TRUE /\ calm = TRUE /\ cleared = FALSE
UseNext ==
  /\ Next
  /\ ReConnect => halted
  /\ proper' = (proper /\ (Start => Idle))
  /\ calm' = (calm /\ (At("owner", "idle") /\ ~At("owner", "idle")' => At("loop", "idle")))
  /\ cleared' = (cleared \/ (Close /\ Cardinality(acceptors) > 1))
UseSpec == UseInit /\ [][UseNext]_<<vars, history>> /\ Fairness

\* Used properly, a server that has been closed is quiet.
ProperClose == proper => ClosedMeansQuiet

\* A start that reports success has bound an acceptor to each endpoint, whatever
\* failed before, until a server of several endpoints is closed: close empties
\* its vector (TcpHelperClasses.cpp:737), reConnect succeeds on none (596-617), so
\* that each later start reports success and nothing is ever bound again.
SuccessfulStart ==
  done = "start" /\ At("owner", "idle") =>
    IF cleared THEN acceptors = {}
    ELSE /\ Cardinality(acceptors) = endpoints
         /\ \A a \in acceptors : accState[a] = "connected"

\* When no handler runs as it begins, every call of close returns.
CalmClose == pc["owner"] \in CloseLabels ~> (At("owner", "idle") \/ ~calm)
============================================================================
