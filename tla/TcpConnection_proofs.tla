----------------------- MODULE TcpConnection_proofs -----------------------
(* Theorems about TcpConnection for any number of user threads. *)
EXTENDS MC_TcpConnection, TLAPS

USE ConnectionAssumption DEF ConnectionAssumption, Threads, At, Goto, Step,
    sock, flags

-----------------------------------------------------------------------------
(* Types                                                                   *)

LEMMA TriggerTypes ==
  /\ Inactive \in TriggerType
  /\ \A v \in TriggerType : Activated(v) \in TriggerType /\ Triggered(v) \in TriggerType
  BY DEF TriggerType, Inactive, Activated, Triggered

LEMMA InitType == Init => TypeOK
<1> SUFFICES ASSUME Init PROVE TypeOK
  OBVIOUS
<1>1. /\ triggerhalt \in BOOLEAN /\ connectionError \in BOOLEAN
      /\ open \in BOOLEAN /\ cut \in BOOLEAN /\ returned \in BOOLEAN
  BY Zenon DEF Init
<1>2. /\ state \in States /\ link \in {"none", "pending", "up", "failed"}
      /\ got \in {"none", "data", "error", "aborted"} /\ reads \in Nat
  BY DEF Init, States
<1>3. receivingHalt \in TriggerType /\ connected \in TriggerType
  BY TriggerTypes DEF Init
<1>4. pc \in [Threads -> Labels] /\ \A t \in Threads : pc[t] = "idle"
  BY DEF Init, Labels
<1>5. /\ pc[Loop] \notin CloseLabels
      /\ \A u \in Users : pc[u] \notin LoopLabels \cup StartLabels
  BY <1>4 DEF CloseLabels, LoopLabels, StartLabels
<1>6. QED BY <1>1, <1>2, <1>3, <1>4, <1>5, Zenon DEF TypeOK

LEMMA NextType == TypeOK /\ [Next]_vars => TypeOK'
<1> SUFFICES ASSUME TypeOK, [Next]_vars PROVE TypeOK'
  OBVIOUS
<1> USE TriggerTypes DEF TypeOK, States, Labels, StartLabels, CloseLabels, LoopLabels
<1>1. ASSUME NEW u \in Users, BeginStart(u) PROVE TypeOK'
  BY <1>1 DEF BeginStart
<1>2. ASSUME NEW t \in Threads, StartStep(t) PROVE TypeOK'
  <2>1. CASE StartHalt(t) BY <2>1 DEF StartHalt
  <2>2. CASE StartState(t) BY <2>2 DEF StartState
  <2>3. CASE StartActivate(t) BY <2>3 DEF StartActivate
  <2>4. CASE StartConnected(t) BY <2>4 DEF StartConnected
  <2>5. CASE StartWaiting(t) BY <2>5 DEF StartWaiting
  <2>6. CASE StartCas(t) BY <2>6 DEF StartCas
  <2>7. CASE StartCheck(t) BY <2>7 DEF StartCheck
  <2>8. CASE StartPost(t) BY <2>8 DEF StartPost
  <2>9. CASE StartRecheck(t) BY <2>9 DEF StartRecheck
  <2>10. CASE StartHalted(t) BY <2>10 DEF StartHalted
  <2>11. CASE StartTrigger(t) BY <2>11 DEF StartTrigger
  <2>12. QED
    BY <1>2, <2>1, <2>2, <2>3, <2>4, <2>5, <2>6, <2>7, <2>8, <2>9, <2>10, <2>11
    DEF StartStep
<1>3. ASSUME NEW u \in Users, BeginClose(u) \/ CloseStep(u) PROVE TypeOK'
  <2>1. CASE BeginClose(u) BY <2>1 DEF BeginClose
  <2>2. CASE CloseHalt(u) BY <2>2 DEF CloseHalt
  <2>3. CASE CloseState(u) BY <2>3 DEF CloseState
  <2>4. CASE CloseTrigger(u) BY <2>4 DEF CloseTrigger
  <2>5. CASE CloseSocket(u)
    <3>1. open' \in BOOLEAN /\ cut' \in BOOLEAN
      BY <2>5, Zenon DEF CloseSocket
    <3>2. QED BY <2>5, <3>1 DEF CloseSocket
  <2>6. CASE CloseConnected(u) BY <2>6 DEF CloseConnected
  <2>7. CASE CloseWait(u) BY <2>7 DEF CloseWait
  <2>8. CASE CloseClosed(u) BY <2>8 DEF CloseClosed
  <2>9. QED
    BY <1>3, <2>1, <2>2, <2>3, <2>4, <2>5, <2>6, <2>7, <2>8 DEF CloseStep
<1>4. ASSUME NEW u \in Users, Cancel(u) PROVE TypeOK'
  BY <1>4 DEF Cancel
<1>5. ASSUME NEW how \in {"data", "error", "aborted"}, ReadEnds(how) PROVE TypeOK'
  BY <1>5 DEF ReadEnds
<1>6. ASSUME NEW how \in {"up", "failed"}, ConnectEnds(how) PROVE TypeOK'
  BY <1>6 DEF ConnectEnds
<1>7. CASE HandlerStep
  <2>1. CASE HandleCheck BY <2>1 DEF HandleCheck
  <2>2. CASE HandleData BY <2>2 DEF HandleData
  <2>3. CASE HandleError BY <2>3 DEF HandleError
  <2>4. CASE HandleWaiting BY <2>4 DEF HandleWaiting
  <2>5. CASE HandleHalted BY <2>5 DEF HandleHalted
  <2>6. CASE HandleTrigger BY <2>6 DEF HandleTrigger
  <2>7. CASE ConnectError BY <2>7 DEF ConnectError
  <2>8. CASE ConnectActivate BY <2>8 DEF ConnectActivate
  <2>9. QED
    BY <1>2, <1>7, <2>1, <2>2, <2>3, <2>4, <2>5, <2>6, <2>7, <2>8
    DEF HandlerStep
<1>8. CASE UNCHANGED vars
  BY <1>8 DEF vars
<1>9. QED
  BY <1>1, <1>2, <1>3, <1>4, <1>5, <1>6, <1>7, <1>8 DEF Next

\* The variables keep their types and every thread runs only its own code.
THEOREM TypeCorrect == Spec => []TypeOK
  BY InitType, NextType, PTL DEF Spec

-----------------------------------------------------------------------------
(* Who may touch the receive buffer                                        *)

\* The receive operation, a thread about to post one, or the handler of the
\* last one: the buffer is in use.
Busy == reads > 0 \/ InHandler \/ \E t \in Threads : Posting(t)

\* No receive has been started.
Fresh == ~Busy /\ pc[Loop] \notin StartLabels

\* The buffer has at most one user, and nobody can acquire it through the
\* compare-exchange while it has one; the first start still runs alone.
BufferInv ==
  /\ TypeOK
  /\ BufferExclusive
  /\ state = "waiting" => ~Busy
  /\ state = "prestart" => Fresh
  /\ \A t \in Threads : pc[t] \in {"s.active", "s.connected", "s.waiting"} => Fresh

LEMMA InitBuffer == Init => BufferInv
<1> SUFFICES ASSUME Init PROVE BufferInv
  OBVIOUS
<1>1. TypeOK BY InitType
<1>2. reads = 0 /\ \A t \in Threads : pc[t] = "idle" BY DEF Init
<1>3. ~InHandler /\ (\A t \in Threads : ~Posting(t)) BY <1>2 DEF InHandler, Posting
<1>4. Fresh BY <1>2, <1>3 DEF Fresh, Busy, StartLabels
<1>5. BufferExclusive BY <1>2, <1>3 DEF BufferExclusive
<1>6. QED BY <1>1, <1>2, <1>3, <1>4, <1>5 DEF BufferInv, Fresh

LEMMA NextBuffer == BufferInv /\ [Next]_vars => BufferInv'
<1> SUFFICES ASSUME BufferInv, [Next]_vars PROVE BufferInv'
  OBVIOUS
<1>0. TypeOK' BY NextType DEF BufferInv
<1> USE <1>0 DEF BufferInv, BufferExclusive, Busy, Fresh, InHandler, Posting,
        StartLabels, TypeOK
<1>1. ASSUME NEW u \in Users, BeginStart(u) PROVE BufferInv'
  BY <1>1 DEF BeginStart
<1>2. ASSUME NEW t \in Threads, StartStep(t) PROVE BufferInv'
  <2>1. CASE StartHalt(t) BY <2>1 DEF StartHalt
  <2>2. CASE StartState(t) BY <2>2 DEF StartState
  <2>3. CASE StartActivate(t) BY <2>3 DEF StartActivate
  <2>4. CASE StartConnected(t) BY <2>4 DEF StartConnected
  <2>5. CASE StartWaiting(t) BY <2>5 DEF StartWaiting
  <2>6. CASE StartCas(t) BY <2>6 DEF StartCas
  <2>7. CASE StartCheck(t) BY <2>7 DEF StartCheck
  <2>8. CASE StartPost(t) BY <2>8 DEF StartPost
  <2>9. CASE StartRecheck(t) BY <2>9 DEF StartRecheck
  <2>10. CASE StartHalted(t) BY <2>10 DEF StartHalted
  <2>11. CASE StartTrigger(t) BY <2>11 DEF StartTrigger
  <2>12. QED
    BY <1>2, <2>1, <2>2, <2>3, <2>4, <2>5, <2>6, <2>7, <2>8, <2>9, <2>10, <2>11
    DEF StartStep
<1>3. ASSUME NEW u \in Users, BeginClose(u) \/ CloseStep(u) PROVE BufferInv'
  <2>1. CASE BeginClose(u) BY <2>1 DEF BeginClose
  <2>2. CASE CloseHalt(u) BY <2>2 DEF CloseHalt
  <2>3. CASE CloseState(u) BY <2>3 DEF CloseState
  <2>4. CASE CloseTrigger(u) BY <2>4 DEF CloseTrigger
  <2>5. CASE CloseSocket(u) BY <2>5 DEF CloseSocket
  <2>6. CASE CloseConnected(u) BY <2>6 DEF CloseConnected
  <2>7. CASE CloseWait(u) BY <2>7 DEF CloseWait
  <2>8. CASE CloseClosed(u) BY <2>8 DEF CloseClosed
  <2>9. QED
    BY <1>3, <2>1, <2>2, <2>3, <2>4, <2>5, <2>6, <2>7, <2>8 DEF CloseStep
<1>4. ASSUME NEW u \in Users, Cancel(u) PROVE BufferInv'
  BY <1>4 DEF Cancel
<1>5. ASSUME NEW how \in {"data", "error", "aborted"}, ReadEnds(how) PROVE BufferInv'
  BY <1>5 DEF ReadEnds
<1>6. ASSUME NEW how \in {"up", "failed"}, ConnectEnds(how) PROVE BufferInv'
  BY <1>6 DEF ConnectEnds
<1>7. CASE HandlerStep
  <2>1. CASE HandleCheck BY <2>1 DEF HandleCheck
  <2>2. CASE HandleData BY <2>2 DEF HandleData
  <2>3. CASE HandleError BY <2>3 DEF HandleError
  <2>4. CASE HandleWaiting BY <2>4 DEF HandleWaiting
  <2>5. CASE HandleHalted BY <2>5 DEF HandleHalted
  <2>6. CASE HandleTrigger BY <2>6 DEF HandleTrigger
  <2>7. CASE ConnectError BY <2>7 DEF ConnectError
  <2>8. CASE ConnectActivate BY <2>8 DEF ConnectActivate
  <2>9. QED
    BY <1>2, <1>7, <2>1, <2>2, <2>3, <2>4, <2>5, <2>6, <2>7, <2>8
    DEF HandlerStep
<1>8. CASE UNCHANGED vars
  BY <1>8 DEF vars
<1>9. QED
  BY <1>1, <1>2, <1>3, <1>4, <1>5, <1>6, <1>7, <1>8 DEF Next

\* At most one receive operation is outstanding, and none while handle_read
\* works on the buffer.
THEOREM OneBufferUser == Spec => []BufferExclusive
<1>1. BufferInv => BufferExclusive BY DEF BufferInv
<1>2. QED BY <1>1, InitBuffer, NextBuffer, PTL DEF Spec

-----------------------------------------------------------------------------
(* A connection that is started once: what close leaves behind             *)

\* The io_context thread has nothing of the receive loop before it.
LoopAside == pc[Loop] \in {"idle", "k.error", "k.connected"}

\* The receive loop is over, and no start under way will post a read.
Calm ==
  /\ reads = 0
  /\ LoopAside \/ pc[Loop] \in {"h.trigger", "s.trigger"}
  /\ \A u \in Users :
       /\ pc[u] # "s.post"
       /\ pc[u] \in StartLabels \ {"s.recheck", "s.halted", "s.trigger"} => triggerhalt

\* The start that posts the first read is alone up to then; the read and its
\* handler take turns.
StartsAlone ==
  /\ \A u \in Users : pc[u] \in StartLabels \ {"s.recheck"} => reads = 0 /\ LoopAside
  /\ ~LoopAside /\ pc[Loop] # "s.recheck" => reads = 0

\* receivingHalt is armed before anything of the receive loop happens.
ArmedFirst ==
  /\ receivingHalt.triggered => receivingHalt.active
  /\ \/ state \in {"waiting", "operating", "halted"}
     \/ reads > 0
     \/ ~LoopAside
     \/ \E u \in Users : pc[u] \in {"s.connected", "s.waiting", "s.check", "s.post", "s.recheck",
                                    "s.halted"}
     => receivingHalt.active

\* Whatever lets close go on means that the loop is over.
OverMeansCalm ==
  /\ receivingHalt.triggered => Calm
  /\ state = "halted" => Calm
  /\ state = "closed" => returned
  /\ returned => Calm /\ triggerhalt
  /\ \A u \in Users :
       /\ pc[u] \in CloseLabels \ {"c.halt"} => triggerhalt
       /\ pc[u] \in {"c.trigger", "c.closed"} => Calm

\* connected is armed by connect_handler alone.
ConnectedLast ==
  connecting =>
    /\ \A u \in Users : pc[u] \in StartLabels => connected.active
    /\ link = "pending" => ~connected.active
    /\ pc[Loop] \in {"k.error", "k.connected"} => link # "pending" /\ ~connected.active
    /\ pc[Loop] = "k.connected" => connectionError \/ link = "up"

ProperInv == StartsAlone /\ ArmedFirst /\ OverMeansCalm /\ ConnectedLast /\ ConnectedMeansUp

UseInv == BufferInv /\ (proper => ProperInv)

LEMMA TriggerFacts ==
  \A v \in TriggerType :
    /\ Activated(v).active
    /\ Activated(v).triggered => v.triggered
    /\ Triggered(v).active <=> v.active
    /\ Triggered(v).triggered => v.triggered \/ v.active
    /\ ~v.active => Triggered(v) = v
  BY DEF TriggerType, Activated, Triggered

LEMMA NextAlone ==
  ASSUME BufferInv, BufferInv', ProperInv, StartsProperly, [Next]_vars
  PROVE  (StartsAlone /\ ArmedFirst)'
<1> USE DEF ProperInv, StartsAlone, ArmedFirst, OverMeansCalm, LoopAside, Calm, BufferInv, BufferExclusive, Busy, Fresh, Posting, InHandler, TypeOK, StartLabels, CloseLabels, LoopLabels, Labels, States
<1>1. ASSUME NEW u \in Users, BeginStart(u) PROVE (StartsAlone /\ ArmedFirst)'
  <2>1. ~receivingHalt.active BY <1>1 DEF StartsProperly
  <2>2. reads = 0 /\ LoopAside BY <2>1
  <2>3. QED BY <1>1, <2>1, <2>2 DEF BeginStart
<1>2. ASSUME NEW t \in Threads, StartStep(t) PROVE (StartsAlone /\ ArmedFirst)'
  <2>1. CASE StartHalt(t) BY <2>1 DEF StartHalt
  <2>2. CASE StartState(t) BY <2>2 DEF StartState
  <2>3. CASE StartActivate(t) BY <2>3, TriggerFacts DEF StartActivate
  <2>4. CASE StartConnected(t) BY <2>4, TriggerFacts DEF StartConnected
  <2>5. CASE StartWaiting(t) BY <2>5 DEF StartWaiting
  <2>6. CASE StartCas(t) BY <2>6 DEF StartCas
  <2>7. CASE StartCheck(t) BY <2>7 DEF StartCheck
  <2>8. CASE StartPost(t) BY <2>8 DEF StartPost
  <2>9. CASE StartRecheck(t) BY <2>9 DEF StartRecheck
  <2>10. CASE StartHalted(t) BY <2>10 DEF StartHalted
  <2>11. CASE StartTrigger(t) BY <2>11, TriggerFacts DEF StartTrigger
  <2>12. QED
    BY <1>2, <2>1, <2>2, <2>3, <2>4, <2>5, <2>6, <2>7, <2>8, <2>9, <2>10, <2>11
    DEF StartStep
<1>3. ASSUME NEW u \in Users, BeginClose(u) \/ CloseStep(u) PROVE (StartsAlone /\ ArmedFirst)'
  <2>1. CASE BeginClose(u) BY <2>1 DEF BeginClose
  <2>2. CASE CloseHalt(u) BY <2>2 DEF CloseHalt
  <2>3. CASE CloseState(u) BY <2>3 DEF CloseState
  <2>4. CASE CloseTrigger(u) BY <2>4, TriggerFacts DEF CloseTrigger
  <2>5. CASE CloseSocket(u) BY <2>5 DEF CloseSocket
  <2>6. CASE CloseConnected(u) BY <2>6 DEF CloseConnected
  <2>7. CASE CloseWait(u) BY <2>7 DEF CloseWait
  <2>8. CASE CloseClosed(u) BY <2>8 DEF CloseClosed
  <2>9. QED
    BY <1>3, <2>1, <2>2, <2>3, <2>4, <2>5, <2>6, <2>7, <2>8 DEF CloseStep
<1>4. ASSUME NEW u \in Users, Cancel(u) PROVE (StartsAlone /\ ArmedFirst)'
  BY <1>4 DEF Cancel
<1>5. ASSUME NEW how \in {"data", "error", "aborted"}, ReadEnds(how) PROVE (StartsAlone /\ ArmedFirst)'
  BY <1>5 DEF ReadEnds
<1>6. ASSUME NEW how \in {"up", "failed"}, ConnectEnds(how) PROVE (StartsAlone /\ ArmedFirst)'
  BY <1>6 DEF ConnectEnds
<1>7. CASE HandlerStep
  <2>1. CASE HandleCheck BY <2>1 DEF HandleCheck
  <2>2. CASE HandleData BY <2>2 DEF HandleData
  <2>3. CASE HandleError BY <2>3 DEF HandleError
  <2>4. CASE HandleWaiting BY <2>4 DEF HandleWaiting
  <2>5. CASE HandleHalted BY <2>5 DEF HandleHalted
  <2>6. CASE HandleTrigger BY <2>6, TriggerFacts DEF HandleTrigger
  <2>7. CASE ConnectError BY <2>7 DEF ConnectError
  <2>8. CASE ConnectActivate BY <2>8, TriggerFacts DEF ConnectActivate
  <2>9. QED
    BY <1>2, <1>7, <2>1, <2>2, <2>3, <2>4, <2>5, <2>6, <2>7, <2>8 DEF HandlerStep
<1>8. CASE UNCHANGED vars
  BY <1>8 DEF vars
<1>9. QED
  BY <1>1, <1>2, <1>3, <1>4, <1>5, <1>6, <1>7, <1>8 DEF Next

LEMMA NextCalm ==
  ASSUME BufferInv, BufferInv', ProperInv, StartsProperly, [Next]_vars
  PROVE  OverMeansCalm'
<1> USE DEF ProperInv, StartsAlone, ArmedFirst, OverMeansCalm, LoopAside, Calm, BufferInv, BufferExclusive, Busy, Fresh, Posting, InHandler, TypeOK, StartLabels, CloseLabels, LoopLabels, Labels, States
<1>1. ASSUME NEW u \in Users, BeginStart(u) PROVE OverMeansCalm'
  <2>1. ~receivingHalt.active BY <1>1 DEF StartsProperly
  <2>2. QED BY <1>1, <2>1 DEF BeginStart
<1>2. ASSUME NEW t \in Threads, StartStep(t) PROVE OverMeansCalm'
  <2>1. CASE StartHalt(t) BY <2>1 DEF StartHalt
  <2>2. CASE StartState(t) BY <2>2 DEF StartState
  <2>3. CASE StartActivate(t) BY <2>3, TriggerFacts DEF StartActivate
  <2>4. CASE StartConnected(t) BY <2>4, TriggerFacts DEF StartConnected
  <2>5. CASE StartWaiting(t) BY <2>5 DEF StartWaiting
  <2>6. CASE StartCas(t) BY <2>6 DEF StartCas
  <2>7. CASE StartCheck(t) BY <2>7 DEF StartCheck
  <2>8. CASE StartPost(t) BY <2>8 DEF StartPost
  <2>9. CASE StartRecheck(t) BY <2>9 DEF StartRecheck
  <2>10. CASE StartHalted(t) BY <2>10 DEF StartHalted
  <2>11. CASE StartTrigger(t) BY <2>11, TriggerFacts DEF StartTrigger
  <2>12. QED
    BY <1>2, <2>1, <2>2, <2>3, <2>4, <2>5, <2>6, <2>7, <2>8, <2>9, <2>10, <2>11
    DEF StartStep
<1>3. ASSUME NEW u \in Users, BeginClose(u) \/ CloseStep(u) PROVE OverMeansCalm'
  <2>1. CASE BeginClose(u) BY <2>1 DEF BeginClose
  <2>2. CASE CloseHalt(u) BY <2>2 DEF CloseHalt
  <2>3. CASE CloseState(u) BY <2>3 DEF CloseState
  <2>4. CASE CloseTrigger(u) BY <2>4, TriggerFacts DEF CloseTrigger
  <2>5. CASE CloseSocket(u) BY <2>5 DEF CloseSocket
  <2>6. CASE CloseConnected(u) BY <2>6 DEF CloseConnected
  <2>7. CASE CloseWait(u)
    <3>1. CASE receivingHalt.active
      <4>1. Calm BY <2>7, <3>1 DEF CloseWait, WaitOver
      <4>2. QED BY <2>7, <4>1 DEF CloseWait
    <3>2. CASE ~receivingHalt.active
      <4>1. Calm BY <2>7, <3>2 DEF CloseWait
      <4>2. QED BY <2>7, <4>1 DEF CloseWait
    <3>3. QED BY <3>1, <3>2
  <2>8. CASE CloseClosed(u) BY <2>8 DEF CloseClosed
  <2>9. QED
    BY <1>3, <2>1, <2>2, <2>3, <2>4, <2>5, <2>6, <2>7, <2>8 DEF CloseStep
<1>4. ASSUME NEW u \in Users, Cancel(u) PROVE OverMeansCalm'
  BY <1>4 DEF Cancel
<1>5. ASSUME NEW how \in {"data", "error", "aborted"}, ReadEnds(how) PROVE OverMeansCalm'
  BY <1>5 DEF ReadEnds
<1>6. ASSUME NEW how \in {"up", "failed"}, ConnectEnds(how) PROVE OverMeansCalm'
  BY <1>6 DEF ConnectEnds
<1>7. CASE HandlerStep
  <2>1. CASE HandleCheck BY <2>1 DEF HandleCheck
  <2>2. CASE HandleData BY <2>2 DEF HandleData
  <2>3. CASE HandleError BY <2>3 DEF HandleError
  <2>4. CASE HandleWaiting BY <2>4 DEF HandleWaiting
  <2>5. CASE HandleHalted BY <2>5 DEF HandleHalted
  <2>6. CASE HandleTrigger BY <2>6, TriggerFacts DEF HandleTrigger
  <2>7. CASE ConnectError BY <2>7 DEF ConnectError
  <2>8. CASE ConnectActivate BY <2>8, TriggerFacts DEF ConnectActivate
  <2>9. QED
    BY <1>2, <1>7, <2>1, <2>2, <2>3, <2>4, <2>5, <2>6, <2>7, <2>8 DEF HandlerStep
<1>8. CASE UNCHANGED vars
  BY <1>8 DEF vars
<1>9. QED
  BY <1>1, <1>2, <1>3, <1>4, <1>5, <1>6, <1>7, <1>8 DEF Next

LEMMA NextConnected ==
  ASSUME BufferInv, BufferInv', ProperInv, StartsProperly, [Next]_vars
  PROVE  (ConnectedLast /\ ConnectedMeansUp)'
<1> USE DEF ProperInv, ConnectedLast, ConnectedMeansUp, connecting, BufferInv, Fresh, TypeOK, StartLabels, CloseLabels, LoopLabels, Labels, States
<1>1. ASSUME NEW u \in Users, BeginStart(u) PROVE (ConnectedLast /\ ConnectedMeansUp)'
  BY <1>1 DEF BeginStart, StartsProperly
<1>2. ASSUME NEW t \in Threads, StartStep(t) PROVE (ConnectedLast /\ ConnectedMeansUp)'
  <2>1. CASE StartHalt(t) BY <2>1 DEF StartHalt
  <2>2. CASE StartState(t) BY <2>2 DEF StartState
  <2>3. CASE StartActivate(t) BY <2>3, TriggerFacts DEF StartActivate
  <2>4. CASE StartConnected(t) BY <2>4, TriggerFacts DEF StartConnected
  <2>5. CASE StartWaiting(t) BY <2>5 DEF StartWaiting
  <2>6. CASE StartCas(t) BY <2>6 DEF StartCas
  <2>7. CASE StartCheck(t) BY <2>7 DEF StartCheck
  <2>8. CASE StartPost(t) BY <2>8 DEF StartPost
  <2>9. CASE StartRecheck(t) BY <2>9 DEF StartRecheck
  <2>10. CASE StartHalted(t) BY <2>10 DEF StartHalted
  <2>11. CASE StartTrigger(t) BY <2>11, TriggerFacts DEF StartTrigger
  <2>12. QED
    BY <1>2, <2>1, <2>2, <2>3, <2>4, <2>5, <2>6, <2>7, <2>8, <2>9, <2>10, <2>11
    DEF StartStep
<1>3. ASSUME NEW u \in Users, BeginClose(u) \/ CloseStep(u) PROVE (ConnectedLast /\ ConnectedMeansUp)'
  <2>1. CASE BeginClose(u) BY <2>1 DEF BeginClose
  <2>2. CASE CloseHalt(u) BY <2>2 DEF CloseHalt
  <2>3. CASE CloseState(u) BY <2>3 DEF CloseState
  <2>4. CASE CloseTrigger(u) BY <2>4, TriggerFacts DEF CloseTrigger
  <2>5. CASE CloseSocket(u) BY <2>5 DEF CloseSocket
  <2>6. CASE CloseConnected(u) BY <2>6 DEF CloseConnected
  <2>7. CASE CloseWait(u) BY <2>7 DEF CloseWait
  <2>8. CASE CloseClosed(u) BY <2>8 DEF CloseClosed
  <2>9. QED
    BY <1>3, <2>1, <2>2, <2>3, <2>4, <2>5, <2>6, <2>7, <2>8 DEF CloseStep
<1>4. ASSUME NEW u \in Users, Cancel(u) PROVE (ConnectedLast /\ ConnectedMeansUp)'
  BY <1>4 DEF Cancel
<1>5. ASSUME NEW how \in {"data", "error", "aborted"}, ReadEnds(how) PROVE (ConnectedLast /\ ConnectedMeansUp)'
  BY <1>5 DEF ReadEnds
<1>6. ASSUME NEW how \in {"up", "failed"}, ConnectEnds(how) PROVE (ConnectedLast /\ ConnectedMeansUp)'
  BY <1>6 DEF ConnectEnds
<1>7. CASE HandlerStep
  <2>1. CASE HandleCheck BY <2>1 DEF HandleCheck
  <2>2. CASE HandleData BY <2>2 DEF HandleData
  <2>3. CASE HandleError BY <2>3 DEF HandleError
  <2>4. CASE HandleWaiting BY <2>4 DEF HandleWaiting
  <2>5. CASE HandleHalted BY <2>5 DEF HandleHalted
  <2>6. CASE HandleTrigger BY <2>6, TriggerFacts DEF HandleTrigger
  <2>7. CASE ConnectError BY <2>7 DEF ConnectError
  <2>8. CASE ConnectActivate BY <2>8, TriggerFacts DEF ConnectActivate
  <2>9. QED
    BY <1>2, <1>7, <2>1, <2>2, <2>3, <2>4, <2>5, <2>6, <2>7, <2>8 DEF HandlerStep
<1>8. CASE UNCHANGED vars
  BY <1>8 DEF vars
<1>9. QED
  BY <1>1, <1>2, <1>3, <1>4, <1>5, <1>6, <1>7, <1>8 DEF Next

LEMMA InitUse == UseInit => UseInv
<1> SUFFICES ASSUME UseInit PROVE UseInv
  OBVIOUS
<1>1. BufferInv
  BY InitBuffer DEF UseInit
<1>2. /\ reads = 0 /\ state = "prestart" /\ returned = FALSE
      /\ receivingHalt = Inactive /\ connected = Inactive
      /\ \A t \in Threads : pc[t] = "idle"
  BY DEF UseInit, Init
<1>3. ~receivingHalt.triggered /\ ~connected.active
  BY <1>2 DEF Inactive
<1>4. StartsAlone /\ ArmedFirst
  BY <1>2, <1>3 DEF StartsAlone, ArmedFirst, LoopAside, StartLabels
<1>5. OverMeansCalm
  BY <1>2, <1>3 DEF OverMeansCalm, CloseLabels
<1>6. ConnectedLast /\ ConnectedMeansUp
  BY <1>2, <1>3 DEF ConnectedLast, ConnectedMeansUp, StartLabels
<1>7. QED
  BY <1>1, <1>4, <1>5, <1>6 DEF UseInv, ProperInv

LEMMA NextUse == UseInv /\ [UseNext]_<<vars, proper>> => UseInv'
<1> SUFFICES ASSUME UseInv, [UseNext]_<<vars, proper>> PROVE UseInv'
  OBVIOUS
<1>1. [Next]_vars
  BY DEF UseNext
<1>2. BufferInv /\ BufferInv'
  BY <1>1, NextBuffer DEF UseInv
<1>3. ASSUME proper' PROVE ProperInv'
  <2>1. CASE UseNext
    <3>1. StartsProperly /\ ProperInv
      BY <1>3, <2>1 DEF UseNext, UseInv
    <3>2. QED
      BY <1>1, <1>2, <3>1, NextAlone, NextCalm, NextConnected DEF ProperInv
  <2>2. CASE UNCHANGED <<vars, proper>>
    <3>1. StartsProperly
      BY <1>2, <2>2 DEF StartsProperly, BeginStart, vars, BufferInv, TypeOK
    <3>2. ProperInv
      BY <1>3, <2>2 DEF UseInv
    <3>3. QED
      BY <1>1, <1>2, <3>1, <3>2, NextAlone, NextCalm, NextConnected DEF ProperInv
  <2>3. QED
    BY <2>1, <2>2
<1>4. QED
  BY <1>2, <1>3 DEF UseInv

\* A connection that is started once, when it is up, has no read and no data
\* callback left when any call of close returns, whatever other threads do; and
\* isConnected() never runs ahead of connect_handler.
THEOREM ClosesProperly == UseSpec => []ProperUse
<1>1. UseInv => ProperUse
  BY DEF UseInv, ProperInv, OverMeansCalm, Calm, LoopAside, ProperUse, QuietAfterClose
<1>2. QED
  BY InitUse, NextUse, <1>1, PTL DEF UseSpec

===========================================================================
