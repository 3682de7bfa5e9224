----------------------------- MODULE TcpServer -----------------------------
(***************************************************************************)
(* TcpServer and its TcpAcceptors: the owner's thread (start, close) and   *)
(* the io_context thread (handle_accept, the end of reads).  A connection  *)
(* is what TcpConnection leaves of it: before startReceive, reading, cut   *)
(* (closed, its read not yet ended) or halted; it has a name once a peer   *)
(* is accepted.  listen() fails only on a closed acceptor.                 *)
(***************************************************************************)
EXTENDS Naturals, FiniteSets, TriggerVariable

CONSTANTS Acceptors,     \* acceptor objects, reused once destroyed
          Conns,         \* accepted connections, likewise (bound)
          MaxEndpoints,  \* bound: endpoints a name resolves to
          None

ASSUME ServerAssumption ==
  /\ IsFiniteSet(Acceptors) /\ IsFiniteSet(Conns)
  /\ MaxEndpoints \in 1..Cardinality(Acceptors)
  /\ None \notin Acceptors \cup Conns \cup {"owner", "loop"}

VARIABLES endpoints,    \* endpoints.size()
          halted,       \* atomic<bool>
          lock,         \* the mutex `accepting` of the server: its holder
          acceptors,    \* the vector, as a set
          connections,  \* the vector, as a set
          accState,     \* accepting_state_t of each acceptor
          accOpen,      \* acceptor_.is_open()
          accepting,    \* TriggerVariable of each acceptor
          pending,      \* outstanding async_accept operations
          cancelled,    \* they were cancelled
          conn,         \* what is going on with each connection
          pc, cur,      \* where each thread is, and on which acceptor
          hand,         \* the connection handle_accept was given
          todo,         \* acceptors the owner's loop has not reached
          attempt,      \* reConnect: of start, once more, or by itself
          done          \* the owner's last call, if it was successful so far

acc == <<accState, accOpen, accepting, pending, cancelled>>
srv == <<endpoints, halted, lock, acceptors, connections>>
own == <<todo, attempt, done>>
vars == <<srv, acc, conn, pc, cur, hand, own>>

Threads == {"owner", "loop"}
StartLabels == {"r.begin", "r.acc", "r.end", "s.clear", "s.dtor", "s.store",
                "s.initial", "s.lock", "s.each", "s.acc"}
CloseLabels == {"c.acc", "c.socket", "c.wait", "c.clear", "c.dtor", "c.size",
                "c.conns", "c.waitconns", "c.erase"}
AccLabels == {"a.check", "a.activate", "a.listen", "a.accept"}
LoopLabels == {"h.accept", "h.halted", "h.receive", "h.lock", "h.recheck",
               "h.push", "h.close", "h.wait", "h.end", "h.dtor"}

\* n acceptors out of those that do not exist
Fresh(n, free) == CHOOSE new \in SUBSET free : Cardinality(new) = n

\* initialConnect: a new acceptor for each endpoint, bound to it or not
Create(bound) ==
  LET free == {a \in Acceptors : accState[a] = "none"}
      new == Fresh(endpoints, free)
  IN /\ Cardinality(free) >= endpoints
     /\ bound \in SUBSET new
     /\ acceptors' = new
     /\ accState' = [a \in Acceptors |->
                      IF a \in bound THEN "connected"
                      ELSE IF a \in new THEN "opened" ELSE accState[a]]
     /\ accOpen' = [a \in Acceptors |-> a \in new \/ accOpen[a]]
     /\ accepting' = [a \in Acceptors |-> IF a \in new THEN Inactive ELSE accepting[a]]
     /\ halted' = (bound = {})

Init ==
  /\ endpoints \in 1..MaxEndpoints
  /\ acceptors = Fresh(endpoints, Acceptors)
  /\ \E bound \in SUBSET acceptors :
       /\ accState = [a \in Acceptors |-> IF a \in bound THEN "connected"
                                          ELSE IF a \in acceptors THEN "opened" ELSE "none"]
       /\ halted = (bound = {})
  /\ accOpen = [a \in Acceptors |-> a \in acceptors]
  /\ lock = None
  /\ connections = {}
  /\ accepting = [a \in Acceptors |-> Inactive]
  /\ pending = [a \in Acceptors |-> 0]
  /\ cancelled = [a \in Acceptors |-> FALSE]
  /\ conn = [c \in Conns |-> "none"]
  /\ pc = [t \in Threads |-> "idle"]
  /\ cur = [t \in Threads |-> None]
  /\ hand = None
  /\ todo = {} /\ attempt = "first" /\ done = "none"

At(t, l) == pc[t] = l
Goto(t, l) == pc' = [pc EXCEPT ![t] = l]
Step(t, from, to) == At(t, from) /\ Goto(t, to)

\* handlers hold a reference to their acceptor
Referenced(a) == pending[a] > 0 \/ cur["loop"] = a

-----------------------------------------------------------------------------
(* TcpAcceptor::start, by the owner for each acceptor or by handle_accept  *)

\* mutant: only the last acceptor counts
Succeeds_Last(t, ok) ==
  done' = IF t # "owner" THEN done
          ELSE IF ok THEN "start" ELSE IF todo = {} THEN "none" ELSE done

\* what TcpServer::start makes of the result
Succeeds(t, ok) == done' = IF t = "owner" /\ ~ok THEN "none" ELSE done

AfterStart(t) == IF t = "loop" THEN "h.end" ELSE "s.acc"

\* not connected: whoever waits for the acceptor may go on
AccCheck(t) ==
  LET a == cur[t] IN
  /\ Step(t, "a.check", IF accState[a] = "connected" THEN "a.activate" ELSE AfterStart(t))
  /\ accepting' = IF accState[a] = "connected" THEN accepting
                  ELSE [accepting EXCEPT ![a] = Triggered(@)]
  /\ Succeeds(t, accState[a] = "connected")
  /\ UNCHANGED <<srv, accState, accOpen, pending, cancelled, conn, cur, hand, todo, attempt>>

\* mutant: the result of activate() is not looked at
AccActivate_Unchecked(t) ==
  LET a == cur[t] IN
  /\ Step(t, "a.activate", "a.listen")
  /\ accepting' = [accepting EXCEPT ![a] = Activated(@)]
  /\ UNCHANGED <<srv, accState, accOpen, pending, cancelled, conn, cur, hand, own>>

AccActivate(t) ==
  LET a == cur[t] IN
  /\ Step(t, "a.activate", IF accepting[a].active THEN AfterStart(t) ELSE "a.listen")
  /\ accepting' = [accepting EXCEPT ![a] = Activated(@)]
  /\ Succeeds(t, ~accepting[a].active)
  /\ UNCHANGED <<srv, accState, accOpen, pending, cancelled, conn, cur, hand, todo, attempt>>

\* listen() throws on a closed acceptor: out of start, or out of the handler
AccListen(t) ==
  /\ Step(t, "a.listen", IF accOpen[cur[t]] THEN "a.accept"
                         ELSE IF t = "loop" THEN "h.end" ELSE "idle")
  /\ Succeeds(t, accOpen[cur[t]])
  /\ UNCHANGED <<srv, acc, conn, cur, hand, todo, attempt>>

AccAccept(t) ==
  LET a == cur[t] IN
  /\ Step(t, "a.accept", AfterStart(t))
  /\ pending' = [pending EXCEPT ![a] = @ + 1]
  /\ cancelled' = [cancelled EXCEPT ![a] = @ \/ ~accOpen[a]]
  /\ UNCHANGED <<srv, accState, accOpen, accepting, conn, cur, hand, own>>

AccStart(t) == AccCheck(t) \/ AccActivate(t) \/ AccListen(t) \/ AccAccept(t)

-----------------------------------------------------------------------------
(* TcpServer::start and reConnect                                          *)

Start ==
  /\ Step("owner", "idle", IF halted THEN "r.begin" ELSE "s.lock")
  /\ attempt' = "first" /\ done' = "none"
  /\ UNCHANGED <<srv, acc, conn, cur, hand, todo>>

ReConnect ==
  /\ Step("owner", "idle", "r.begin")
  /\ attempt' = "only" /\ done' = "none"
  /\ UNCHANGED <<srv, acc, conn, cur, hand, todo>>

ReBegin ==
  /\ Step("owner", "r.begin", "r.acc")
  /\ halted' = FALSE
  /\ todo' = acceptors
  /\ UNCHANGED <<endpoints, lock, acceptors, connections, acc, conn, cur, hand, attempt, done>>

\* connect(timeOut): a halted acceptor counts as opened again, but a closed
\* one cannot be bound
ReAcceptor(a, ok) ==
  /\ At("owner", "r.acc") /\ a \in todo
  /\ todo' = todo \ {a}
  /\ IF accState[a] = "connected"
     THEN UNCHANGED <<halted, accState>>
     ELSE /\ ok => accOpen[a]
          /\ accState' = [accState EXCEPT ![a] = IF ok THEN "connected" ELSE "opened"]
          /\ halted' = (halted \/ ~ok)
  /\ UNCHANGED <<endpoints, lock, acceptors, connections, accOpen, accepting,
                 pending, cancelled, conn, pc, cur, hand, attempt, done>>

ReEnd ==
  LET next == CASE attempt = "only" -> "idle"
                [] attempt # "only" /\ ~halted -> "s.lock"
                [] attempt = "first" /\ halted -> "s.clear"
                [] attempt = "second" /\ halted -> "idle"
  IN /\ todo = {}
     /\ Step("owner", "r.acc", next)
     /\ todo' = IF next = "s.clear" THEN acceptors ELSE {}
     /\ attempt' = "first"
     /\ UNCHANGED <<srv, acc, conn, cur, hand, done>>

\* acceptors.clear(): the destructor of those no handler refers to
Clear(from, dtor, next) ==
  IF todo = {}
  THEN /\ Step("owner", from, next)
       /\ acceptors' = {}
       /\ UNCHANGED <<accState, accOpen, cur, todo, cancelled>>
  ELSE \E a \in todo :
       /\ todo' = todo \ {a}
       /\ IF Referenced(a)
          THEN UNCHANGED <<accState, accOpen, cancelled, pc, cur>>
          ELSE /\ accState' = [accState EXCEPT ![a] = "halted"]
               /\ accOpen' = [accOpen EXCEPT ![a] = FALSE]
               /\ cur' = [cur EXCEPT !["owner"] = a]
               /\ UNCHANGED cancelled
               /\ Step("owner", from, dtor)
       /\ acceptors' = acceptors \ {a}

ClearStep ==
  /\ \/ At("owner", "s.clear") /\ Clear("s.clear", "s.dtor", "s.store")
     \/ At("owner", "c.clear") /\ Clear("c.clear", "c.dtor", "c.size")
  /\ UNCHANGED <<endpoints, halted, lock, connections, accepting, pending, conn, hand, attempt, done>>

\* the end of ~TcpAcceptor: accepting.wait()
DtorWait(t) ==
  LET a == cur[t] IN
  /\ \/ Step(t, "s.dtor", "s.clear")
     \/ Step(t, "c.dtor", "c.clear")
     \/ Step(t, "h.dtor", "idle")
  /\ WaitOver(accepting[a])
  /\ accState' = [accState EXCEPT ![a] = "none"]
  /\ cur' = [cur EXCEPT ![t] = None]
  /\ UNCHANGED <<srv, accOpen, accepting, pending, cancelled, conn, hand, own>>

StartStore ==
  /\ Step("owner", "s.store", "s.initial")
  /\ halted' = FALSE
  /\ UNCHANGED <<endpoints, lock, acceptors, connections, acc, conn, cur, hand, own>>

\* initialConnect
StartInitial ==
  /\ \E bound \in SUBSET Acceptors :
       /\ Create(bound)
       /\ Step("owner", "s.initial", IF bound = {} THEN "r.begin" ELSE "s.lock")
       /\ attempt' = IF bound = {} THEN "second" ELSE "first"
  /\ UNCHANGED <<endpoints, lock, connections, pending, cancelled, conn, cur, hand, todo, done>>

StartLock ==
  /\ lock = None /\ lock' = "owner"
  /\ Step("owner", "s.lock", "s.each")
  /\ UNCHANGED <<endpoints, halted, acceptors, connections, acc, conn, cur, hand, own>>

\* startReceive does nothing for a connection that has been started
StartEach ==
  /\ Step("owner", "s.each", "s.acc")
  /\ lock' = None
  /\ todo' = acceptors
  /\ done' = "start"
  /\ UNCHANGED <<endpoints, halted, acceptors, connections, acc, conn, cur, hand, attempt>>

StartAcceptor(a) ==
  /\ a \in todo
  /\ Step("owner", "s.acc", "a.check")
  /\ todo' = todo \ {a}
  /\ cur' = [cur EXCEPT !["owner"] = a]
  /\ UNCHANGED <<srv, acc, conn, hand, attempt, done>>

StartEnd ==
  /\ todo = {}
  /\ Step("owner", "s.acc", "idle")
  /\ cur' = [cur EXCEPT !["owner"] = None]
  /\ UNCHANGED <<srv, acc, conn, hand, own>>

StartStep ==
  \/ ReBegin \/ ReEnd \/ StartStore \/ StartInitial \/ StartLock \/ StartEach \/ StartEnd
  \/ \E a \in Acceptors : StartAcceptor(a) \/ \E ok \in BOOLEAN : ReAcceptor(a, ok)

-----------------------------------------------------------------------------
(* TcpServer::close                                                        *)

\* with several acceptors, cancel() first
Close ==
  /\ Step("owner", "idle", IF acceptors = {} THEN "c.size" ELSE "c.acc")
  /\ halted' = TRUE
  /\ todo' = acceptors
  /\ cancelled' = IF Cardinality(acceptors) = 1 THEN cancelled
                  ELSE [a \in Acceptors |->
                         cancelled[a] \/ (a \in acceptors /\ pending[a] > 0)]
  /\ done' = "none"
  /\ UNCHANGED <<endpoints, lock, acceptors, connections, accState, accOpen,
                 accepting, pending, conn, cur, hand, attempt>>

CloseAcceptor(a) ==
  /\ a \in todo
  /\ Step("owner", "c.acc", "c.socket")
  /\ accState' = [accState EXCEPT ![a] = "halted"]
  /\ todo' = todo \ {a}
  /\ cur' = [cur EXCEPT !["owner"] = a]
  /\ UNCHANGED <<srv, accOpen, accepting, pending, cancelled, conn, hand, attempt, done>>

CloseSocket ==
  LET a == cur["owner"] IN
  /\ Step("owner", "c.socket", "c.wait")
  /\ accOpen' = [accOpen EXCEPT ![a] = FALSE]
  /\ cancelled' = [cancelled EXCEPT ![a] = @ \/ pending[a] > 0]
  /\ UNCHANGED <<srv, accState, accepting, pending, conn, cur, hand, own>>

\* mutant: close does not wait for the handler
CloseWait_Skipped ==
  /\ Step("owner", "c.wait", "c.acc")
  /\ cur' = [cur EXCEPT !["owner"] = None]
  /\ UNCHANGED <<srv, acc, conn, hand, own>>

CloseWait ==
  /\ Step("owner", "c.wait", "c.acc")
  /\ WaitOver(accepting[cur["owner"]])
  /\ cur' = [cur EXCEPT !["owner"] = None]
  /\ UNCHANGED <<srv, acc, conn, hand, own>>

CloseAcceptorsEnd ==
  /\ todo = {}
  /\ Step("owner", "c.acc", IF Cardinality(acceptors) = 1 THEN "c.size" ELSE "c.clear")
  /\ todo' = IF Cardinality(acceptors) = 1 THEN {} ELSE acceptors
  /\ UNCHANGED <<srv, acc, conn, cur, hand, attempt, done>>

\* connections.size() under the lock; what follows is not
CloseSize ==
  /\ lock = None
  /\ Step("owner", "c.size", IF connections = {} THEN "idle" ELSE "c.conns")
  /\ done' = IF connections = {} THEN "close" ELSE done
  /\ UNCHANGED <<srv, acc, conn, cur, hand, todo, attempt>>

\* closeNoWait of a connection
Cut(c) == IF conn[c] = "reading" THEN "cut" ELSE conn[c]

CloseConns ==
  /\ Step("owner", "c.conns", "c.waitconns")
  /\ conn' = [c \in Conns |-> IF c \in connections THEN Cut(c) ELSE conn[c]]
  /\ UNCHANGED <<srv, acc, cur, hand, own>>

CloseWaitConns ==
  /\ \A c \in connections : conn[c] = "halted"
  /\ Step("owner", "c.waitconns", "c.erase")
  /\ UNCHANGED <<srv, acc, conn, cur, hand, own>>

CloseErase ==
  /\ Step("owner", "c.erase", "idle")
  /\ conn' = [c \in Conns |-> IF c \in connections THEN "none" ELSE conn[c]]
  /\ connections' = {}
  /\ done' = "close"
  /\ UNCHANGED <<endpoints, halted, lock, acceptors, acc, cur, hand, todo, attempt>>

CloseStep ==
  \/ CloseSocket \/ CloseWait \/ CloseAcceptorsEnd \/ CloseSize \/ CloseConns
  \/ CloseWaitConns \/ CloseErase
  \/ \E a \in Acceptors : CloseAcceptor(a)

-----------------------------------------------------------------------------
(* The io_context thread                                                   *)

\* An accept ends with a peer, an error, or because it was cancelled.
AcceptEnds(a, c, how) ==
  /\ pending[a] > 0
  /\ how = "aborted" => cancelled[a]
  /\ Step("loop", "idle", "h.accept")
  /\ pending' = [pending EXCEPT ![a] = @ - 1]
  /\ cancelled' = [cancelled EXCEPT ![a] = @ /\ pending[a] > 1]
  /\ cur' = [cur EXCEPT !["loop"] = a]
  /\ IF how = "peer"
     THEN /\ ~cancelled[a] /\ conn[c] = "none"
          /\ conn' = [conn EXCEPT ![c] = "new"] /\ hand' = c
     ELSE UNCHANGED conn /\ hand' = None
  /\ UNCHANGED <<srv, accState, accOpen, accepting, own>>

\* mutant: accepting is only reset on the way to acceptCall
HandleAccept_NoReset ==
  LET a == cur["loop"]
      good == accState[a] = "connected" /\ hand # None
  IN /\ Step("loop", "h.accept", IF good THEN "h.halted" ELSE "h.end")
     /\ accepting' = IF good THEN [accepting EXCEPT ![a] = Reset(@)] ELSE accepting
     /\ conn' = [c \in Conns |-> IF c = hand /\ ~good THEN "none" ELSE conn[c]]
     /\ hand' = IF good THEN hand ELSE None
     /\ UNCHANGED <<srv, accState, accOpen, pending, cancelled, cur, own>>

\* TcpAcceptor::handle_accept: with a peer on to the server's handler
HandleAccept ==
  LET a == cur["loop"]
      good == accState[a] = "connected" /\ hand # None
  IN /\ Step("loop", "h.accept", IF good THEN "h.halted" ELSE "h.end")
     /\ accepting' = [accepting EXCEPT ![a] = Reset(@)]
     /\ conn' = [c \in Conns |-> IF c = hand /\ ~good THEN "none" ELSE conn[c]]
     /\ hand' = IF good THEN hand ELSE None
     /\ UNCHANGED <<srv, accState, accOpen, pending, cancelled, cur, own>>

HandleHalted ==
  /\ Step("loop", "h.halted", IF halted THEN "h.end" ELSE "h.receive")
  /\ conn' = IF halted THEN [conn EXCEPT ![hand] = "none"] ELSE conn
  /\ hand' = IF halted THEN None ELSE hand
  /\ UNCHANGED <<srv, acc, cur, own>>

HandleReceive ==
  /\ Step("loop", "h.receive", "h.lock")
  /\ conn' = [conn EXCEPT ![hand] = "reading"]
  /\ UNCHANGED <<srv, acc, cur, hand, own>>

HandleLock ==
  /\ lock = None /\ lock' = "loop"
  /\ Step("loop", "h.lock", "h.recheck")
  /\ UNCHANGED <<endpoints, halted, acceptors, connections, acc, conn, cur, hand, own>>

\* mutant: halted is not read again under the lock
HandleRecheck_Once ==
  /\ Step("loop", "h.recheck", "h.push")
  /\ UNCHANGED <<srv, acc, conn, cur, hand, own>>

HandleRecheck ==
  /\ Step("loop", "h.recheck", IF halted THEN "h.close" ELSE "h.push")
  /\ lock' = IF halted THEN None ELSE lock
  /\ UNCHANGED <<endpoints, halted, acceptors, connections, acc, conn, cur, hand, own>>

HandlePush ==
  /\ Step("loop", "h.push", "a.check")
  /\ connections' = connections \cup {hand}
  /\ hand' = None
  /\ lock' = None
  /\ UNCHANGED <<endpoints, halted, acceptors, acc, conn, cur, own>>

\* close() on the thread that would have to end the read it waits for
HandleClose ==
  /\ Step("loop", "h.close", "h.wait")
  /\ conn' = [conn EXCEPT ![hand] = Cut(hand)]
  /\ UNCHANGED <<srv, acc, cur, hand, own>>

HandleWait ==
  /\ Step("loop", "h.wait", "h.end")
  /\ conn[hand] = "halted"
  /\ conn' = [conn EXCEPT ![hand] = "none"]
  /\ hand' = None
  /\ UNCHANGED <<srv, acc, cur, own>>

\* The handler lets go of the acceptor; the last to do so destroys it.
HandleEnd ==
  LET a == cur["loop"]
      last == a \notin acceptors /\ pending[a] = 0
  IN /\ Step("loop", "h.end", IF last THEN "h.dtor" ELSE "idle")
     /\ accState' = IF last THEN [accState EXCEPT ![a] = "halted"] ELSE accState
     /\ accOpen' = [accOpen EXCEPT ![a] = @ /\ ~last]
     /\ cur' = IF last THEN cur ELSE [cur EXCEPT !["loop"] = None]
     /\ UNCHANGED <<srv, accepting, pending, cancelled, conn, hand, own>>

\* handle_read of a connection that is closed, or whose peer is gone
ReadEnds(c) ==
  /\ At("loop", "idle")
  /\ conn[c] \in {"reading", "cut"}
  /\ conn' = [conn EXCEPT ![c] = "halted"]
  /\ UNCHANGED <<srv, acc, pc, cur, hand, own>>

HandlerStep ==
  \/ HandleAccept \/ HandleHalted \/ HandleReceive \/ HandleLock \/ HandleRecheck
  \/ HandlePush \/ HandleClose \/ HandleWait \/ HandleEnd \/ AccStart("loop") \/ DtorWait("loop")

-----------------------------------------------------------------------------

OwnerStep == StartStep \/ CloseStep \/ ClearStep \/ AccStart("owner") \/ DtorWait("owner")

Next ==
  \/ Start \/ ReConnect \/ Close \/ OwnerStep \/ HandlerStep
  \/ \E a \in Acceptors : \E how \in {"peer", "error", "aborted"} :
       \E c \in Conns : AcceptEnds(a, c, how)
  \/ \E c \in Conns : ReadEnds(c)

Spec == Init /\ [][Next]_vars

\* Threads are scheduled; what was cancelled or closed completes.
Fairness ==
  /\ WF_vars(OwnerStep) /\ WF_vars(HandlerStep)
  /\ \A a \in Acceptors : SF_vars(\E c \in Conns : AcceptEnds(a, c, "aborted"))
  /\ \A c \in Conns : SF_vars(conn[c] = "cut" /\ ReadEnds(c))

FairSpec == Spec /\ Fairness

-----------------------------------------------------------------------------
(* Properties                                                              *)

\* close works on the vector of connections without the lock: no
\* handle_accept that passed its test of `halted` is still to add to it.
NoPushWhileClosing ==
  pc["owner"] \in {"c.conns", "c.waitconns", "c.erase"} => ~At("loop", "h.push")

\* Two accepts of one acceptor are never outstanding together, however the
\* owner's start meets the handler that re-arms it.
OneAccept == \A a \in Acceptors : pending[a] <= 1

\* Once close has returned no connection is left, no accept is outstanding,
\* and none of the data callbacks can run.
ClosedMeansQuiet ==
  done = "close" =>
    /\ connections = {}
    /\ \A a \in Acceptors : pending[a] = 0
    /\ \A c \in Conns : conn[c] \in {"reading", "cut"} => c = hand

\* Every call of close returns.
CloseReturns == pc["owner"] \in CloseLabels ~> At("owner", "idle")
============================================================================
