-------------------------- MODULE TcpConnection --------------------------
(***************************************************************************)
(* TcpConnection: the receive loop of one socket between the io_context    *)
(* thread (connect_handler, handle_read) and user threads (startReceive,   *)
(* close, cancel).  One step is one access to an atomic, a trigger         *)
(* variable or the socket.  What the bytes are is left to ReceiveBuffer.   *)
(***************************************************************************)
EXTENDS Naturals, TriggerVariable

CONSTANTS Users,  \* user threads
          Loop    \* the thread that runs the io_context

ASSUME ConnectionAssumption == Loop \notin Users

VARIABLES triggerhalt,      \* atomic<bool>
          state,            \* atomic<connection_state_t>
          receivingHalt,    \* TriggerVariable: armed while a receive loop is on
          connected,        \* TriggerVariable
          connectionError,  \* atomic<bool>
          link,             \* the async_connect: "none", "pending", "up", "failed"
          open,             \* socket_.is_open()
          reads,            \* outstanding async_receive operations
          cut,              \* they were cancelled, or the socket closed
          got,              \* how the read being handled has ended
          returned,         \* some call of close has returned
          pc                \* where each thread is

sock == <<link, open, reads, cut>>
flags == <<connected, connectionError>>
vars == <<triggerhalt, state, receivingHalt, flags, sock, got, returned, pc>>

Threads == Users \cup {Loop}
States == {"prestart", "waiting", "operating", "halted", "closed"}
StartLabels == {"s.halt", "s.state", "s.active", "s.connected", "s.waiting",
                "s.cas", "s.ensure", "s.check", "s.post", "s.recheck",
                "s.halted", "s.trigger"}
CloseLabels == {"c.halt", "c.state", "c.trigger", "c.socket", "c.connected",
                "c.wait", "c.closed"}
LoopLabels == {"h.check", "h.data", "h.error", "h.waiting", "h.halted",
               "h.trigger", "k.error", "k.connected"}
Labels == {"idle"} \cup StartLabels \cup CloseLabels \cup LoopLabels

Init ==
  /\ triggerhalt = FALSE
  /\ state = "prestart"
  /\ receivingHalt = Inactive /\ connected = Inactive
  /\ connectionError = FALSE
  /\ link \in {"none", "pending"}
  /\ open = TRUE
  /\ reads = 0 /\ cut = FALSE
  /\ got = "none"
  /\ returned = FALSE
  /\ pc = [t \in Threads |-> "idle"]

\* Created with an address to connect to, not by an acceptor.
connecting == link # "none"

At(t, l) == pc[t] = l
Goto(t, l) == pc' = [pc EXCEPT ![t] = l]
Step(t, from, to) == At(t, from) /\ Goto(t, to)

-----------------------------------------------------------------------------
(* startReceive, by a user thread or at the end of handle_read             *)

\* mutant: two threads start the connection at once
BeginStart_Shared(u) ==
  /\ Step(u, "idle", "s.halt")
  /\ UNCHANGED <<triggerhalt, state, receivingHalt, flags, sock, got, returned>>

\* By one user thread at a time, as TcpServer::start calls it under its mutex.
BeginStart(u) ==
  /\ Step(u, "idle", "s.halt")
  /\ \A w \in Users : pc[w] \notin StartLabels
  /\ UNCHANGED <<triggerhalt, state, receivingHalt, flags, sock, got, returned>>

StartHalt(t) ==
  /\ Step(t, "s.halt", IF triggerhalt THEN "s.trigger" ELSE "s.state")
  /\ UNCHANGED <<triggerhalt, state, receivingHalt, flags, sock, got, returned>>

StartState(t) ==
  /\ Step(t, "s.state", IF state = "prestart" THEN "s.active" ELSE "s.cas")
  /\ UNCHANGED <<triggerhalt, state, receivingHalt, flags, sock, got, returned>>

StartActivate(t) ==
  /\ \/ Step(t, "s.active", "s.connected")
     \/ Step(t, "s.ensure", "s.check")
  /\ receivingHalt' = Activated(receivingHalt)
  /\ UNCHANGED <<triggerhalt, state, flags, sock, got, returned>>

StartConnected(t) ==
  /\ Step(t, "s.connected", "s.waiting")
  /\ connected' = Activated(connected)
  /\ UNCHANGED <<triggerhalt, state, receivingHalt, connectionError, sock, got,
                 returned>>

StartWaiting(t) ==
  /\ Step(t, "s.waiting", "s.cas")
  /\ state' = "waiting"
  /\ UNCHANGED <<triggerhalt, receivingHalt, flags, sock, got, returned>>

\* mutant: a receive is started whatever the state
StartCas_Unchecked(t) ==
  /\ Step(t, "s.cas", "s.ensure")
  /\ state' = "operating"
  /\ UNCHANGED <<triggerhalt, receivingHalt, flags, sock, got, returned>>

StartCas(t) ==
  /\ \/ /\ state = "waiting"
        /\ state' = "operating"
        /\ Step(t, "s.cas", "s.ensure")
     \/ /\ state # "waiting"
        /\ Step(t, "s.cas", IF state = "operating" THEN "idle" ELSE "s.trigger")
        /\ UNCHANGED state
  /\ UNCHANGED <<triggerhalt, receivingHalt, flags, sock, got, returned>>

StartCheck(t) ==
  /\ Step(t, "s.check", IF triggerhalt THEN "s.halted" ELSE "s.post")
  /\ UNCHANGED <<triggerhalt, state, receivingHalt, flags, sock, got, returned>>

\* async_receive; on a closed socket it completes at once with an error
StartPost(t) ==
  /\ Step(t, "s.post", "s.recheck")
  /\ reads' = reads + 1
  /\ cut' = (cut \/ ~open)
  /\ UNCHANGED <<triggerhalt, state, receivingHalt, flags, link, open, got,
                 returned>>

\* cancel() of a socket that was closed meanwhile throws, which ends the call
StartRecheck(t) ==
  /\ Step(t, "s.recheck", "idle")
  /\ cut' = (cut \/ (triggerhalt /\ open /\ reads > 0))
  /\ UNCHANGED <<triggerhalt, state, receivingHalt, flags, link, open, reads,
                 got, returned>>

StartHalted(t) ==
  /\ Step(t, "s.halted", "s.trigger")
  /\ state' = "halted"
  /\ UNCHANGED <<triggerhalt, receivingHalt, flags, sock, got, returned>>

StartTrigger(t) ==
  /\ Step(t, "s.trigger", "idle")
  /\ receivingHalt' = Triggered(receivingHalt)
  /\ UNCHANGED <<triggerhalt, state, flags, sock, got, returned>>

StartStep(t) ==
  \/ StartHalt(t) \/ StartState(t) \/ StartActivate(t) \/ StartConnected(t)
  \/ StartWaiting(t) \/ StartCas(t) \/ StartCheck(t) \/ StartPost(t)
  \/ StartRecheck(t) \/ StartHalted(t) \/ StartTrigger(t)

-----------------------------------------------------------------------------
(* close = closeNoWait; waitOnClose                                        *)

BeginClose(u) ==
  /\ Step(u, "idle", "c.halt")
  /\ UNCHANGED <<triggerhalt, state, receivingHalt, flags, sock, got, returned>>

CloseHalt(u) ==
  /\ Step(u, "c.halt", "c.state")
  /\ triggerhalt' = TRUE
  /\ UNCHANGED <<state, receivingHalt, flags, sock, got, returned>>

\* the switch: nobody else will trigger receivingHalt in these three states
CloseState(u) ==
  /\ Step(u, "c.state", IF state \in {"prestart", "halted", "closed"}
                        THEN "c.trigger" ELSE "c.socket")
  /\ UNCHANGED <<triggerhalt, state, receivingHalt, flags, sock, got, returned>>

CloseTrigger(u) ==
  /\ Step(u, "c.trigger", "c.socket")
  /\ receivingHalt' = Triggered(receivingHalt)
  /\ UNCHANGED <<triggerhalt, state, flags, sock, got, returned>>

\* mutant: the socket is shut down but not closed, the read not cancelled
CloseSocket_Leaves(u) ==
  /\ Step(u, "c.socket", IF connecting THEN "c.connected" ELSE "c.wait")
  /\ UNCHANGED <<triggerhalt, state, receivingHalt, flags, sock, got, returned>>

CloseSocket(u) ==
  /\ Step(u, "c.socket", IF connecting THEN "c.connected" ELSE "c.wait")
  /\ open' = FALSE
  /\ cut' = (cut \/ reads > 0)
  /\ UNCHANGED <<triggerhalt, state, receivingHalt, flags, link, reads, got,
                 returned>>

CloseConnected(u) ==
  /\ connected.active
  /\ Step(u, "c.connected", "c.wait")
  /\ UNCHANGED <<triggerhalt, state, receivingHalt, flags, sock, got, returned>>

\* mutant: close does not wait for the receive loop
CloseWait_Skipped(u) ==
  /\ Step(u, "c.wait", "c.closed")
  /\ UNCHANGED <<triggerhalt, state, receivingHalt, flags, sock, got, returned>>

\* wait_for(200 ms) again and again
CloseWait(u) ==
  /\ WaitOver(receivingHalt)
  /\ Step(u, "c.wait", "c.closed")
  /\ UNCHANGED <<triggerhalt, state, receivingHalt, flags, sock, got, returned>>

CloseClosed(u) ==
  /\ Step(u, "c.closed", "idle")
  /\ state' = "closed"
  /\ returned' = TRUE
  /\ UNCHANGED <<triggerhalt, receivingHalt, flags, sock, got>>

CloseStep(u) ==
  \/ CloseHalt(u) \/ CloseState(u) \/ CloseTrigger(u) \/ CloseSocket(u)
  \/ CloseConnected(u) \/ CloseWait(u) \/ CloseClosed(u)

\* cancel(): outstanding reads end with operation_aborted
Cancel(u) ==
  /\ At(u, "idle")
  /\ open /\ reads > 0 /\ ~cut
  /\ cut' = TRUE
  /\ UNCHANGED <<triggerhalt, state, receivingHalt, flags, link, open, reads,
                 got, returned, pc>>

-----------------------------------------------------------------------------
(* The io_context thread                                                   *)

\* A read ends: with bytes or an error if it was not cut, aborted if it was.
ReadEnds(how) ==
  /\ reads > 0
  /\ how = "aborted" <=> cut
  /\ Step(Loop, "idle", "h.check")
  /\ reads' = reads - 1
  /\ cut' = (cut /\ reads > 1)
  /\ got' = how
  /\ UNCHANGED <<triggerhalt, state, receivingHalt, flags, link, open, returned>>

HandleCheck ==
  /\ Step(Loop, "h.check",
          IF triggerhalt \/ got = "aborted" THEN "h.halted"
          ELSE IF got = "data" THEN "h.data" ELSE "h.error")
  /\ UNCHANGED <<triggerhalt, state, receivingHalt, flags, sock, got, returned>>

\* dataCall and the residual bytes; on an error what came with it, if anything
HandleData ==
  /\ Step(Loop, "h.data", "h.waiting")
  /\ UNCHANGED <<triggerhalt, state, receivingHalt, flags, sock, got, returned>>

\* errorCall decides whether to go on; without one the loop halts
HandleError ==
  /\ \E next \in {"h.waiting", "h.halted"} : Step(Loop, "h.error", next)
  /\ UNCHANGED <<triggerhalt, state, receivingHalt, flags, sock, got, returned>>

HandleWaiting ==
  /\ Step(Loop, "h.waiting", "s.halt")
  /\ state' = "waiting"
  /\ UNCHANGED <<triggerhalt, receivingHalt, flags, sock, got, returned>>

HandleHalted ==
  /\ Step(Loop, "h.halted", "h.trigger")
  /\ state' = "halted"
  /\ UNCHANGED <<triggerhalt, receivingHalt, flags, sock, got, returned>>

HandleTrigger ==
  /\ Step(Loop, "h.trigger", "idle")
  /\ receivingHalt' = Triggered(receivingHalt)
  /\ UNCHANGED <<triggerhalt, state, flags, sock, got, returned>>

\* connect_handler is called with or without an error
ConnectEnds(how) ==
  /\ link = "pending"
  /\ link' = how
  /\ Step(Loop, "idle", IF how = "up" THEN "k.connected" ELSE "k.error")
  /\ UNCHANGED <<triggerhalt, state, receivingHalt, flags, open, reads, cut,
                 got, returned>>

ConnectError ==
  /\ Step(Loop, "k.error", "k.connected")
  /\ connectionError' = TRUE
  /\ UNCHANGED <<triggerhalt, state, receivingHalt, connected, sock, got,
                 returned>>

ConnectActivate ==
  /\ Step(Loop, "k.connected", "idle")
  /\ connected' = Activated(connected)
  /\ UNCHANGED <<triggerhalt, state, receivingHalt, connectionError, sock, got,
                 returned>>

HandlerStep ==
  \/ HandleCheck \/ HandleData \/ HandleError \/ HandleWaiting
  \/ HandleHalted \/ HandleTrigger \/ ConnectError \/ ConnectActivate
  \/ StartStep(Loop)

-----------------------------------------------------------------------------

Next ==
  \/ \E u \in Users :
       BeginStart(u) \/ BeginClose(u) \/ Cancel(u) \/ StartStep(u) \/ CloseStep(u)
  \/ \E how \in {"data", "error", "aborted"} : ReadEnds(how)
  \/ \E how \in {"up", "failed"} : ConnectEnds(how)
  \/ HandlerStep

Spec == Init /\ [][Next]_vars

\* Threads are scheduled, a cancelled read completes, and so does an
\* async_connect, at the latest when the socket is closed.
Fairness ==
  /\ \A u \in Users : WF_vars(StartStep(u) \/ CloseStep(u))
  /\ WF_vars(HandlerStep)
  /\ WF_vars(ReadEnds("aborted"))
  /\ WF_vars(\E how \in {"up", "failed"} : ConnectEnds(how))

FairSpec == Spec /\ Fairness

-----------------------------------------------------------------------------
(* Properties                                                              *)

\* The variables keep their types; the io_context thread runs handlers, user
\* threads run close, and at most one of them startReceive.
TypeOK ==
  /\ triggerhalt \in BOOLEAN /\ connectionError \in BOOLEAN
  /\ state \in States
  /\ receivingHalt \in TriggerType /\ connected \in TriggerType
  /\ link \in {"none", "pending", "up", "failed"}
  /\ open \in BOOLEAN /\ cut \in BOOLEAN /\ returned \in BOOLEAN
  /\ reads \in Nat
  /\ got \in {"none", "data", "error", "aborted"}
  /\ pc \in [Threads -> Labels]
  /\ pc[Loop] \notin CloseLabels
  /\ \A u \in Users : pc[u] \notin LoopLabels
  /\ \A u, w \in Users : pc[u] \in StartLabels /\ pc[w] \in StartLabels => u = w

\* The thread that may touch the receive buffer: it won the compare-exchange
\* in startReceive and has not yet posted the read.
Posting(t) == pc[t] \in {"s.ensure", "s.check", "s.post"}
InHandler == pc[Loop] \in {"h.check", "h.data", "h.error", "h.waiting", "h.halted"}

\* One receive operation at a time, and none while handle_read works on the
\* buffer: a startReceive of a user thread that overlaps the handler never
\* lets the socket write into the data that dataCall is given.
BufferExclusive ==
  /\ reads <= 1
  /\ \A t \in Threads : Posting(t) =>
       /\ reads = 0 /\ ~InHandler
       /\ \A w \in Threads : Posting(w) => w = t
  /\ InHandler => reads = 0

\* When close has returned, no read is outstanding and none will be posted,
\* and dataCall and errorCall are not running: the owner may let go of what
\* they use.
QuietAfterClose ==
  returned => /\ reads = 0
              /\ pc[Loop] \notin {"h.data", "h.error"}
              /\ \A t \in Threads : ~At(t, "s.post")

\* isConnected() does not say yes before the connection is up.
ConnectedMeansUp ==
  connecting /\ connected.active /\ ~connectionError => link = "up"

\* Every call of close returns.
CloseReturns == \A u \in Users : pc[u] \in CloseLabels ~> At(u, "idle")
==========================================================================
