--------------------------- MODULE TcpServer_proofs ---------------------------
(***************************************************************************)
(* Theorems about TcpServer, for any number of acceptors, connections and  *)
(* endpoints.                                                              *)
(***************************************************************************)
EXTENDS MC_TcpServer, FunctionTheorems, FiniteSetTheorems, TLAPS

OwnerLabels == {"idle"} \cup StartLabels \cup CloseLabels \cup AccLabels
DtorLabels == {"s.dtor", "c.dtor"}

Types ==
  /\ endpoints \in 1..MaxEndpoints
  /\ halted \in BOOLEAN
  /\ acceptors \in SUBSET Acceptors
  /\ connections \in SUBSET Conns
  /\ accState \in [Acceptors -> {"none", "opened", "connected", "halted"}]
  /\ accOpen \in [Acceptors -> BOOLEAN]
  /\ accepting \in [Acceptors -> TriggerType]
  /\ pending \in [Acceptors -> Nat]
  /\ cancelled \in [Acceptors -> BOOLEAN]
  /\ conn \in [Conns -> {"none", "new", "reading", "cut", "halted"}]
  /\ pc \in [Threads -> OwnerLabels \cup LoopLabels]
  /\ pc["owner"] \in OwnerLabels
  /\ pc["loop"] \in {"idle"} \cup LoopLabels \cup AccLabels
  /\ cur \in [Threads -> Acceptors \cup {None}]
  /\ hand \in Conns \cup {None}
  /\ todo \in SUBSET acceptors
  /\ attempt \in {"first", "second", "only"} /\ done \in {"none", "start", "close"}

\* Which acceptor a thread is working on
Places ==
  /\ pc["owner"] \in {"c.socket", "c.wait"} => cur["owner"] \in Acceptors
  /\ pc["owner"] \in AccLabels => cur["owner"] \in acceptors
  /\ pc["owner"] \in {"s.store", "s.initial"} => todo = {}
  /\ pc["loop"] = "idle" => cur["loop"] = None
  /\ pc["loop"] # "idle" => cur["loop"] \in Acceptors

\* An acceptor that is being destroyed, or is, has no handler to come.
Dead ==
  /\ \A a \in acceptors : accState[a] # "none"
  /\ \A a \in Acceptors : accState[a] = "none" => pending[a] = 0 /\ cur["loop"] # a
  /\ pc["owner"] \in DtorLabels =>
       cur["owner"] \in Acceptors \ acceptors /\ ~Referenced(cur["owner"])
       /\ accState[cur["owner"]] # "none"
  /\ pc["loop"] = "h.dtor" =>
       cur["loop"] \notin acceptors /\ pending[cur["loop"]] = 0

\* Whoever has activated an acceptor has the right to its next accept, until
\* the handler of that accept gives it back.
Armed(t, a) == cur[t] = a /\ pc[t] \in {"a.listen", "a.accept"}
Taken(a) == cur["loop"] = a /\ pc["loop"] = "h.accept"

Token ==
  \A a \in Acceptors :
    /\ pending[a] <= 1
    /\ ~accepting[a].active => pending[a] = 0 /\ ~Armed("owner", a) /\ ~Armed("loop", a) /\ ~Taken(a)
    /\ Armed("owner", a) => pending[a] = 0 /\ ~Armed("loop", a) /\ ~Taken(a)
    /\ Armed("loop", a) \/ Taken(a) => pending[a] = 0

\* The lock, and what is known of `halted` while close runs
Locked ==
  /\ lock = "owner" <=> pc["owner"] = "s.each"
  /\ lock = "loop" <=> pc["loop"] \in {"h.recheck", "h.push"}
  /\ pc["owner"] \in CloseLabels => halted

\* how many acceptors there are, and how far start has got with them
Counted ==
  pc["owner"] \notin {"s.clear", "s.dtor", "c.clear", "c.dtor"} =>
    acceptors = {} \/ Cardinality(acceptors) = endpoints

Started ==
  done = "start" =>
    /\ pc["owner"] \in {"idle", "s.acc"} \cup AccLabels
    /\ pc["owner"] = "idle" => todo = {}
    /\ \A a \in acceptors \ todo :
         accState[a] = "connected" \/ (cur["owner"] = a /\ pc["owner"] = "a.check")

\* where connections are that have a read
Handed ==
  /\ hand # None => pc["loop"] \in {"h.accept", "h.halted", "h.receive", "h.lock", "h.recheck",
                                    "h.push", "h.close", "h.wait"}
  /\ pc["loop"] \in {"h.halted", "h.receive", "h.lock", "h.recheck", "h.push", "h.close", "h.wait"}
       => hand \in Conns
  /\ \A c \in Conns : conn[c] \in {"reading", "cut"} => c \in connections \/ c = hand

Closed ==
  done = "close" => pc["owner"] = "idle" /\ halted /\ connections = {} /\ pc["loop"] # "h.push"

ServerInv ==
  Types /\ Places /\ Dead /\ Token /\ Locked /\ NoPushWhileClosing /\ Counted /\ Started
  /\ Handed /\ Closed

USE DEF Threads, At, Goto, Step, srv, acc, own

-----------------------------------------------------------------------------
(* Choosing new acceptors                                                  *)

LEMMA FreshChosen ==
  ASSUME NEW S, IsFiniteSet(S), NEW n \in Nat, n <= Cardinality(S)
  PROVE  Fresh(n, S) \in SUBSET S /\ Cardinality(Fresh(n, S)) = n
<1>1. Cardinality(S) \in Nat /\ ExistsBijection(1..Cardinality(S), S)
  BY FS_CardinalityType
<1>2. PICK f : f \in Bijection(1..Cardinality(S), S)
  BY <1>1 DEF ExistsBijection
<1>3. /\ f \in [1..Cardinality(S) -> S]
      /\ \A i, j \in 1..Cardinality(S) : f[i] = f[j] => i = j
  BY <1>2, Fun_BijectionProperties
<1> DEFINE R == {f[i] : i \in 1..n}
           g == [i \in 1..n |-> f[i]]
<1>4. 1..n \subseteq 1..Cardinality(S)
  BY <1>1
<1>5. R \in SUBSET S
  BY <1>3, <1>4
<1>6. g \in [1..n -> R] /\ \A i, j \in 1..n : g[i] = g[j] => i = j
  BY <1>3, <1>4
<1>7. \A r \in R : \E i \in 1..n : g[i] = r
  OBVIOUS
<1>8. g \in Bijection(1..n, R)
  <2> HIDE DEF R, g
  <2> QED BY <1>6, <1>7, Fun_IsBij, Zenon
<1>9. ExistsBijection(1..n, R)
  BY <1>8 DEF ExistsBijection
<1>10. Cardinality(R) = n
  BY <1>9, FS_CountingElements
<1>11. QED
  BY <1>5, <1>10 DEF Fresh

\* initialConnect takes acceptors that do not exist, one for each endpoint.
LEMMA Created ==
  ASSUME Types, NEW bound, Create(bound)
  PROVE  /\ acceptors' \in SUBSET {a \in Acceptors : accState[a] = "none"}
         /\ Cardinality(acceptors') = endpoints
         /\ bound \in SUBSET acceptors'
<1> DEFINE free == {a \in Acceptors : accState[a] = "none"}
<1>1. IsFiniteSet(free) /\ endpoints \in Nat
  BY ServerAssumption, FS_Subset, FS_CardinalityType DEF ServerAssumption, Types
<1>2. /\ Cardinality(free) >= endpoints /\ Cardinality(free) \in Nat
      /\ acceptors' = Fresh(endpoints, free) /\ bound \in SUBSET acceptors'
  BY <1>1, FS_CardinalityType DEF Create
<1>3. QED
  BY <1>1, <1>2, FreshChosen

LEMMA InitCreated ==
  ASSUME Init
  PROVE  /\ acceptors \in SUBSET Acceptors /\ Cardinality(acceptors) = endpoints
         /\ endpoints \in 1..MaxEndpoints
<1>1. /\ Cardinality(Acceptors) \in Nat /\ MaxEndpoints \in Nat
      /\ MaxEndpoints <= Cardinality(Acceptors) /\ IsFiniteSet(Acceptors)
  BY ServerAssumption, FS_CardinalityType DEF ServerAssumption
<1>2. endpoints \in 1..MaxEndpoints /\ acceptors = Fresh(endpoints, Acceptors)
  BY DEF Init
<1>3. endpoints \in Nat /\ endpoints <= Cardinality(Acceptors)
  BY <1>1, <1>2
<1>4. QED
  BY <1>1, <1>2, <1>3, FreshChosen

-----------------------------------------------------------------------------
(* Types                                                                   *)

LEMMA TriggerTypes ==
  /\ Inactive \in TriggerType
  /\ \A v \in TriggerType :
       Activated(v) \in TriggerType /\ Triggered(v) \in TriggerType /\ Reset(v) \in TriggerType
  BY DEF TriggerType, Inactive, Activated, Triggered, Reset

LEMMA InitTypes == Init => Types
<1> SUFFICES ASSUME Init PROVE Types
  OBVIOUS
<1>1. /\ acceptors \in SUBSET Acceptors /\ endpoints \in 1..MaxEndpoints
  BY InitCreated
<1>2. /\ accState \in [Acceptors -> {"none", "opened", "connected", "halted"}]
      /\ halted \in BOOLEAN
  <2>1. PICK bound \in SUBSET acceptors :
          /\ accState = [a \in Acceptors |-> IF a \in bound THEN "connected"
                                    ELSE IF a \in acceptors THEN "opened" ELSE "none"]
          /\ halted = (bound = {})
    BY DEF Init
  <2>2. QED BY <2>1
<1>3. accOpen \in [Acceptors -> BOOLEAN] /\ cancelled \in [Acceptors -> BOOLEAN]
  <2>1. accOpen = [a \in Acceptors |-> a \in acceptors] BY DEF Init
  <2>2. cancelled = [a \in Acceptors |-> FALSE] BY DEF Init
  <2>3. QED BY <2>1, <2>2
<1>4. accepting \in [Acceptors -> TriggerType] /\ pending \in [Acceptors -> Nat]
  BY TriggerTypes DEF Init
<1>5. /\ connections \in SUBSET Conns /\ hand \in Conns \cup {None} /\ todo \in SUBSET acceptors
      /\ conn \in [Conns -> {"none", "new", "reading", "cut", "halted"}]
      /\ attempt \in {"first", "second", "only"} /\ done \in {"none", "start", "close"}
      /\ cur \in [Threads -> Acceptors \cup {None}]
  BY DEF Init
<1>6. /\ pc \in [Threads -> OwnerLabels \cup LoopLabels] /\ pc["owner"] \in OwnerLabels
      /\ pc["loop"] \in {"idle"} \cup LoopLabels \cup AccLabels
  BY DEF Init, OwnerLabels
<1>7. QED
  BY <1>1, <1>2, <1>3, <1>4, <1>5, <1>6, Zenon DEF Types

LEMMA NextTypes == Types /\ Places /\ Handed /\ [Next]_vars => Types'
<1> SUFFICES ASSUME Types, Places, Handed, [Next]_vars PROVE Types'
  OBVIOUS
<1> USE DEF Types, OwnerLabels, StartLabels, CloseLabels, AccLabels, LoopLabels
<1>1. ASSUME NEW t \in Threads, AccStart(t) PROVE Types'
  <2>1. CASE AccCheck(t) BY <2>1, TriggerTypes DEF AccCheck, AfterStart, Succeeds
  <2>2. CASE AccActivate(t) BY <2>2, TriggerTypes DEF AccActivate, AfterStart, Succeeds
  <2>3. CASE AccListen(t) BY <2>3 DEF AccListen, Succeeds
  <2>4. CASE AccAccept(t)
    <3>0. cancelled' = [cancelled EXCEPT ![cur[t]] = @ \/ ~accOpen[cur[t]]] BY <2>4 DEF AccAccept
    <3>1. cancelled' \in [Acceptors -> BOOLEAN]
      <4> DEFINE new == cancelled[cur[t]] \/ ~accOpen[cur[t]]
      <4>1. new \in BOOLEAN OBVIOUS
      <4>2. cancelled' = [cancelled EXCEPT ![cur[t]] = new] BY <3>0
      <4> HIDE DEF new
      <4>3. QED BY <4>1, <4>2
    <3>2. pending' \in [Acceptors -> Nat]
      <4>1. pending' = [pending EXCEPT ![cur[t]] = @ + 1] BY <2>4, Zenon DEF AccAccept
      <4>2. cur[t] \in Acceptors BY <2>4 DEF AccAccept, Places
      <4>3. QED BY <4>1, <4>2
    <3>3. QED BY <2>4, <3>1, <3>2 DEF AccAccept, AfterStart
  <2>5. QED BY <1>1, <2>1, <2>2, <2>3, <2>4 DEF AccStart
<1>2. ASSUME NEW t \in Threads, DtorWait(t) PROVE Types'
  <2>1. /\ accState' = [accState EXCEPT ![cur[t]] = "none"]
        /\ cur' = [cur EXCEPT ![t] = None]
    BY <1>2, Zenon DEF DtorWait
  <2>2. \/ pc[t] = "s.dtor" /\ pc' = [pc EXCEPT ![t] = "s.clear"]
        \/ pc[t] = "c.dtor" /\ pc' = [pc EXCEPT ![t] = "c.clear"]
        \/ pc[t] = "h.dtor" /\ pc' = [pc EXCEPT ![t] = "idle"]
    BY <1>2, Zenon DEF DtorWait
  <2>3. accState' \in [Acceptors -> {"none", "opened", "connected", "halted"}]
    BY <2>1, Zenon
  <2>4. cur' \in [Threads -> Acceptors \cup {None}]
    BY <2>1, SMT
  <2>5. pc' \in [Threads -> OwnerLabels \cup LoopLabels]
    BY <2>2, SMT
  <2>6. /\ pc'["owner"] \in OwnerLabels
        /\ pc'["loop"] \in {"idle"} \cup LoopLabels \cup AccLabels
    BY <2>2, SMT DEF Threads
  <2>7. UNCHANGED <<endpoints, halted, acceptors, connections, accOpen, accepting,
                    pending, cancelled, conn, hand, todo, attempt, done>>
    BY <1>2, Zenon DEF DtorWait, srv, own
  <2>8. QED BY <2>3, <2>4, <2>5, <2>6, <2>7, Zenon
<1>3. CASE Start \/ ReConnect \/ Close
  <2>1. CASE Start BY <2>1 DEF Start
  <2>2. CASE ReConnect BY <2>2 DEF ReConnect
  <2>3. CASE Close
    <3>1. cancelled' \in [Acceptors -> BOOLEAN] BY <2>3, Zenon DEF Close
    <3>2. QED BY <2>3, <3>1 DEF Close
  <2>4. QED BY <1>3, <2>1, <2>2, <2>3
<1>4. CASE StartStep
  <2>1. CASE ReBegin BY <2>1 DEF ReBegin
  <2>2. CASE ReEnd BY <2>2 DEF ReEnd
  <2>3. CASE StartStore BY <2>3 DEF StartStore
  <2>4. CASE StartInitial
    <3>1. PICK bound \in SUBSET Acceptors :
            /\ Create(bound)
            /\ Step("owner", "s.initial", IF bound = {} THEN "r.begin" ELSE "s.lock")
            /\ attempt' = IF bound = {} THEN "second" ELSE "first"
      BY <2>4 DEF StartInitial
    <3>2. /\ accState' \in [Acceptors -> {"none", "opened", "connected", "halted"}]
          /\ accepting' \in [Acceptors -> TriggerType]
      BY <3>1, TriggerTypes DEF Create
    <3>3. accOpen' \in [Acceptors -> BOOLEAN] /\ halted' \in BOOLEAN
      BY <3>1, Zenon DEF Create
    <3>4. acceptors' \in SUBSET Acceptors
      BY <3>1, Created
    <3>5. todo' \in SUBSET acceptors'
      BY <2>4 DEF StartInitial, Places
    <3>6. QED
      BY <2>4, <3>1, <3>2, <3>3, <3>4, <3>5 DEF StartInitial
  <2>5. CASE StartLock BY <2>5 DEF StartLock
  <2>6. CASE StartEach BY <2>6 DEF StartEach
  <2>7. CASE StartEnd BY <2>7 DEF StartEnd
  <2>8. ASSUME NEW a \in Acceptors, StartAcceptor(a) PROVE Types'
    BY <2>8 DEF StartAcceptor
  <2>9. ASSUME NEW a \in Acceptors, NEW ok \in BOOLEAN, ReAcceptor(a, ok) PROVE Types'
    <3>1. accState' \in [Acceptors -> {"none", "opened", "connected", "halted"}]
      BY <2>9 DEF ReAcceptor
    <3>2. halted' \in BOOLEAN
      BY <2>9, Zenon DEF ReAcceptor
    <3>3. todo' \in SUBSET acceptors
      BY <2>9, Zenon DEF ReAcceptor
    <3>4. UNCHANGED <<endpoints, acceptors, connections, accOpen, accepting, pending,
                      cancelled, conn, pc, cur, hand, attempt, done>>
      BY <2>9, Zenon DEF ReAcceptor
    <3>5. QED BY <3>1, <3>2, <3>3, <3>4
  <2>10. QED
    BY <1>4, <2>1, <2>2, <2>3, <2>4, <2>5, <2>6, <2>7, <2>8, <2>9 DEF StartStep
<1>5. CASE CloseStep
  <2>1. CASE CloseSocket BY <2>1 DEF CloseSocket
  <2>2. CASE CloseWait BY <2>2 DEF CloseWait
  <2>3. CASE CloseAcceptorsEnd BY <2>3 DEF CloseAcceptorsEnd
  <2>4. CASE CloseSize BY <2>4 DEF CloseSize
  <2>5. CASE CloseConns BY <2>5 DEF CloseConns, Cut
  <2>6. CASE CloseWaitConns BY <2>6 DEF CloseWaitConns
  <2>7. CASE CloseErase BY <2>7 DEF CloseErase
  <2>8. ASSUME NEW a \in Acceptors, CloseAcceptor(a) PROVE Types'
    BY <2>8 DEF CloseAcceptor
  <2>9. QED
    BY <1>5, <2>1, <2>2, <2>3, <2>4, <2>5, <2>6, <2>7, <2>8 DEF CloseStep
<1>6. CASE ClearStep
  <2>1. /\ pc' \in [Threads -> OwnerLabels \cup LoopLabels] /\ pc'["owner"] \in OwnerLabels
        /\ pc'["loop"] = pc["loop"]
    BY <1>6 DEF ClearStep, Clear
  <2>2. cur' \in [Threads -> Acceptors \cup {None}]
    BY <1>6 DEF ClearStep, Clear
  <2>3. accOpen' \in [Acceptors -> BOOLEAN]
    <3>1. accOpen' = accOpen \/ \E a \in Acceptors : accOpen' = [accOpen EXCEPT ![a] = FALSE]
      BY <1>6, Zenon DEF ClearStep, Clear
    <3>2. QED BY <3>1
  <2>4. acceptors' \in SUBSET Acceptors /\ todo' \in SUBSET acceptors'
    BY <1>6 DEF ClearStep, Clear
  <2>5. accState' \in [Acceptors -> {"none", "opened", "connected", "halted"}]
    BY <1>6 DEF ClearStep, Clear
  <2>6. cancelled' \in [Acceptors -> BOOLEAN] BY <1>6 DEF ClearStep, Clear
  <2>7. QED BY <1>6, <2>1, <2>2, <2>3, <2>4, <2>5, <2>6 DEF ClearStep
<1>7. CASE HandlerStep
  <2>1. CASE HandleAccept BY <2>1, TriggerTypes DEF HandleAccept
  <2>2. CASE HandleHalted BY <2>2 DEF HandleHalted
  <2>3. CASE HandleReceive BY <2>3 DEF HandleReceive
  <2>4. CASE HandleLock BY <2>4 DEF HandleLock
  <2>5. CASE HandleRecheck BY <2>5 DEF HandleRecheck
  <2>6. CASE HandlePush BY <2>6 DEF HandlePush, Handed
  <2>7. CASE HandleClose BY <2>7 DEF HandleClose, Cut
  <2>8. CASE HandleWait BY <2>8 DEF HandleWait
  <2>9. CASE HandleEnd BY <2>9 DEF HandleEnd
  <2>10. QED
    BY <1>1, <1>2, <1>7, <2>1, <2>2, <2>3, <2>4, <2>5, <2>6, <2>7, <2>8, <2>9 DEF HandlerStep
<1>8. ASSUME NEW a \in Acceptors, NEW c \in Conns, NEW how, AcceptEnds(a, c, how) PROVE Types'
  BY <1>8 DEF AcceptEnds
<1>9. ASSUME NEW c \in Conns, ReadEnds(c) PROVE Types'
  BY <1>9 DEF ReadEnds
<1>10. CASE UNCHANGED vars
  BY <1>10 DEF vars
<1>11. QED
  BY <1>1, <1>2, <1>3, <1>4, <1>5, <1>6, <1>7, <1>8, <1>9, <1>10 DEF Next, OwnerStep

LEMMA NextDead == ServerInv /\ [Next]_vars => Dead'
<1> SUFFICES ASSUME ServerInv, [Next]_vars PROVE Dead'
  OBVIOUS
<1>0. Types'
  BY NextTypes DEF ServerInv
<1> USE <1>0 DEF ServerInv, Types, Places, Dead, Handed, Referenced, DtorLabels, OwnerLabels, StartLabels, CloseLabels, AccLabels, LoopLabels
<1>1. ASSUME NEW t \in Threads, AccStart(t) PROVE Dead'
  <2>1. CASE AccCheck(t) BY <2>1 DEF AccCheck, AfterStart
  <2>2. CASE AccActivate(t) BY <2>2 DEF AccActivate, AfterStart
  <2>3. CASE AccListen(t) BY <2>3 DEF AccListen
  <2>4. CASE AccAccept(t) BY <2>4 DEF AccAccept, AfterStart
  <2>5. QED
    BY <1>1, <2>1, <2>2, <2>3, <2>4 DEF AccStart
<1>2. ASSUME NEW t \in Threads, DtorWait(t) PROVE Dead'
  <2>1. CASE t = "owner" BY <1>2, <2>1, ServerAssumption DEF DtorWait, ServerAssumption
  <2>2. CASE t = "loop" BY <1>2, <2>2, ServerAssumption DEF DtorWait, ServerAssumption
  <2>3. QED BY <2>1, <2>2
<1>3. CASE Start
  BY <1>3 DEF Start
<1>4. CASE ReConnect
  BY <1>4 DEF ReConnect
<1>5. CASE Close
  BY <1>5 DEF Close
<1>6. CASE StartStep
  <2>1. CASE ReBegin BY <2>1 DEF ReBegin
  <2>2. CASE ReEnd BY <2>2 DEF ReEnd
  <2>3. CASE StartStore BY <2>3 DEF StartStore
  <2>4. CASE StartInitial
    <3>1. PICK bound \in SUBSET Acceptors : Create(bound)
      BY <2>4 DEF StartInitial
    <3>2. acceptors' \in SUBSET {a \in Acceptors : accState[a] = "none"}
      BY <3>1, Created
    <3>3. \A a \in Acceptors : accState'[a] = IF a \in bound THEN "connected"
                            ELSE IF a \in acceptors' THEN "opened" ELSE accState[a]
      BY <3>1, <3>2 DEF Create
    <3>4. pending' = pending /\ cur' = cur /\ pc'["loop"] = pc["loop"] /\ pc'["owner"] \in {"r.begin", "s.lock"}
      BY <2>4 DEF StartInitial
    <3>5. bound \in SUBSET acceptors'
      BY <3>1, Created
    <3>6. QED BY <3>2, <3>3, <3>4, <3>5
  <2>5. CASE StartLock BY <2>5 DEF StartLock
  <2>6. CASE StartEach BY <2>6 DEF StartEach
  <2>7. CASE StartEnd BY <2>7 DEF StartEnd
  <2>8. ASSUME NEW a \in Acceptors, StartAcceptor(a) PROVE Dead' BY <2>8 DEF StartAcceptor
  <2>9. ASSUME NEW a \in Acceptors, NEW ok \in BOOLEAN, ReAcceptor(a, ok) PROVE Dead'
    BY <2>9 DEF ReAcceptor
  <2>10. QED
    BY <1>6, <2>1, <2>2, <2>3, <2>4, <2>5, <2>6, <2>7, <2>8, <2>9 DEF StartStep
<1>7. CASE CloseStep
  <2>1. CASE CloseSocket BY <2>1 DEF CloseSocket
  <2>2. CASE CloseWait BY <2>2 DEF CloseWait
  <2>3. CASE CloseAcceptorsEnd BY <2>3 DEF CloseAcceptorsEnd
  <2>4. CASE CloseSize BY <2>4 DEF CloseSize
  <2>5. CASE CloseConns BY <2>5 DEF CloseConns
  <2>6. CASE CloseWaitConns BY <2>6 DEF CloseWaitConns
  <2>7. CASE CloseErase BY <2>7 DEF CloseErase
  <2>8. ASSUME NEW a \in Acceptors, CloseAcceptor(a) PROVE Dead' BY <2>8 DEF CloseAcceptor
  <2>9. QED
    BY <1>7, <2>1, <2>2, <2>3, <2>4, <2>5, <2>6, <2>7, <2>8 DEF CloseStep
<1>8. CASE ClearStep
  BY <1>8 DEF ClearStep, Clear
<1>9. CASE HandlerStep
  <2>1. CASE HandleAccept BY <2>1 DEF HandleAccept
  <2>2. CASE HandleHalted BY <2>2 DEF HandleHalted
  <2>3. CASE HandleReceive BY <2>3 DEF HandleReceive
  <2>4. CASE HandleLock BY <2>4 DEF HandleLock
  <2>5. CASE HandleRecheck BY <2>5 DEF HandleRecheck
  <2>6. CASE HandlePush BY <2>6 DEF HandlePush
  <2>7. CASE HandleClose BY <2>7 DEF HandleClose
  <2>8. CASE HandleWait BY <2>8 DEF HandleWait
  <2>9. CASE HandleEnd
    <3> DEFINE a == cur["loop"]
    <3>1. CASE a \notin acceptors /\ pending[a] = 0 BY <2>9, <3>1 DEF HandleEnd
    <3>2. CASE ~(a \notin acceptors /\ pending[a] = 0) BY <2>9, <3>2, ServerAssumption DEF HandleEnd, ServerAssumption
    <3>3. QED BY <3>1, <3>2
  <2>10. QED
    BY <1>1, <1>2, <1>9, <2>1, <2>2, <2>3, <2>4, <2>5, <2>6, <2>7, <2>8, <2>9 DEF HandlerStep
<1>10. ASSUME NEW a \in Acceptors, NEW c \in Conns, NEW how, AcceptEnds(a, c, how)
      PROVE  Dead'
  BY <1>10 DEF AcceptEnds
<1>11. ASSUME NEW c \in Conns, ReadEnds(c) PROVE Dead'
  BY <1>11 DEF ReadEnds
<1>12. CASE UNCHANGED vars
  BY <1>12 DEF vars
<1>13. QED
  BY <1>1, <1>2, <1>3, <1>4, <1>5, <1>6, <1>7, <1>8, <1>9, <1>10, <1>11, <1>12
  DEF Next, OwnerStep

LEMMA TriggerActive ==
  /\ ~Inactive.active
  /\ \A v \in TriggerType :
       Activated(v).active /\ (Triggered(v).active <=> v.active) /\ ~Reset(v).active
  BY DEF TriggerType, Inactive, Activated, Triggered, Reset

LEMMA NextToken == ServerInv /\ [Next]_vars => Token'
<1> SUFFICES ASSUME ServerInv, [Next]_vars PROVE Token'
  OBVIOUS
<1>0. Types'
  BY NextTypes DEF ServerInv
<1> USE <1>0 DEF ServerInv, Types, Places, Token, Armed, Taken, OwnerLabels, StartLabels, CloseLabels, AccLabels, LoopLabels
<1>1. ASSUME NEW t \in Threads, AccStart(t) PROVE Token'
  <2>1. CASE AccCheck(t) BY <2>1, TriggerActive DEF AccCheck, AfterStart
  <2>2. CASE AccActivate(t) BY <2>2, TriggerActive DEF AccActivate, AfterStart
  <2>3. CASE AccListen(t) BY <2>3 DEF AccListen
  <2>4. CASE AccAccept(t) BY <2>4 DEF AccAccept, AfterStart
  <2>5. QED
    BY <1>1, <2>1, <2>2, <2>3, <2>4 DEF AccStart
<1>2. ASSUME NEW t \in Threads, DtorWait(t) PROVE Token'
  BY <1>2 DEF DtorWait
<1>3. CASE Start
  BY <1>3 DEF Start
<1>4. CASE ReConnect
  BY <1>4 DEF ReConnect
<1>5. CASE Close
  BY <1>5 DEF Close
<1>6. CASE StartStep
  <2>1. CASE ReBegin BY <2>1 DEF ReBegin
  <2>2. CASE ReEnd BY <2>2 DEF ReEnd
  <2>3. CASE StartStore BY <2>3 DEF StartStore
  <2>4. CASE StartInitial
    <3>1. PICK bound \in SUBSET Acceptors : Create(bound)
      BY <2>4 DEF StartInitial
    <3>2. acceptors' \in SUBSET {a \in Acceptors : accState[a] = "none"}
      BY <3>1, Created
    <3>3. \A a \in Acceptors : accepting'[a] = IF a \in acceptors' THEN Inactive ELSE accepting[a]
      BY <3>1, <3>2 DEF Create
    <3>4. pending' = pending /\ cur' = cur /\ pc'["loop"] = pc["loop"] /\ pc'["owner"] \in {"r.begin", "s.lock"}
      BY <2>4 DEF StartInitial
    <3>5. QED BY <3>2, <3>3, <3>4, TriggerActive DEF Dead
  <2>5. CASE StartLock BY <2>5 DEF StartLock
  <2>6. CASE StartEach BY <2>6 DEF StartEach
  <2>7. CASE StartEnd BY <2>7 DEF StartEnd
  <2>8. ASSUME NEW a \in Acceptors, StartAcceptor(a) PROVE Token' BY <2>8 DEF StartAcceptor
  <2>9. ASSUME NEW a \in Acceptors, NEW ok \in BOOLEAN, ReAcceptor(a, ok) PROVE Token'
    BY <2>9 DEF ReAcceptor
  <2>10. QED
    BY <1>6, <2>1, <2>2, <2>3, <2>4, <2>5, <2>6, <2>7, <2>8, <2>9 DEF StartStep
<1>7. CASE CloseStep
  <2>1. CASE CloseSocket BY <2>1 DEF CloseSocket
  <2>2. CASE CloseWait BY <2>2 DEF CloseWait
  <2>3. CASE CloseAcceptorsEnd BY <2>3 DEF CloseAcceptorsEnd
  <2>4. CASE CloseSize BY <2>4 DEF CloseSize
  <2>5. CASE CloseConns BY <2>5 DEF CloseConns
  <2>6. CASE CloseWaitConns BY <2>6 DEF CloseWaitConns
  <2>7. CASE CloseErase BY <2>7 DEF CloseErase
  <2>8. ASSUME NEW a \in Acceptors, CloseAcceptor(a) PROVE Token' BY <2>8 DEF CloseAcceptor
  <2>9. QED
    BY <1>7, <2>1, <2>2, <2>3, <2>4, <2>5, <2>6, <2>7, <2>8 DEF CloseStep
<1>8. CASE ClearStep
  BY <1>8 DEF ClearStep, Clear
<1>9. CASE HandlerStep
  <2>1. CASE HandleAccept BY <2>1, TriggerActive DEF HandleAccept
  <2>2. CASE HandleHalted BY <2>2 DEF HandleHalted
  <2>3. CASE HandleReceive BY <2>3 DEF HandleReceive
  <2>4. CASE HandleLock BY <2>4 DEF HandleLock
  <2>5. CASE HandleRecheck BY <2>5 DEF HandleRecheck
  <2>6. CASE HandlePush BY <2>6 DEF HandlePush
  <2>7. CASE HandleClose BY <2>7 DEF HandleClose
  <2>8. CASE HandleWait BY <2>8 DEF HandleWait
  <2>9. CASE HandleEnd BY <2>9 DEF HandleEnd
  <2>10. QED
    BY <1>1, <1>2, <1>9, <2>1, <2>2, <2>3, <2>4, <2>5, <2>6, <2>7, <2>8, <2>9 DEF HandlerStep
<1>10. ASSUME NEW a \in Acceptors, NEW c \in Conns, NEW how, AcceptEnds(a, c, how)
      PROVE  Token'
  BY <1>10 DEF AcceptEnds
<1>11. ASSUME NEW c \in Conns, ReadEnds(c) PROVE Token'
  BY <1>11 DEF ReadEnds
<1>12. CASE UNCHANGED vars
  BY <1>12 DEF vars
<1>13. QED
  BY <1>1, <1>2, <1>3, <1>4, <1>5, <1>6, <1>7, <1>8, <1>9, <1>10, <1>11, <1>12
  DEF Next, OwnerStep

LEMMA NextPlaces == ServerInv /\ [Next]_vars => (Places /\ Handed)'
<1> SUFFICES ASSUME ServerInv, [Next]_vars PROVE (Places /\ Handed)'
  OBVIOUS
<1>0. Types'
  BY NextTypes DEF ServerInv
<1> USE <1>0 DEF ServerInv, Types, Places, Dead, Handed, DtorLabels, OwnerLabels, StartLabels, CloseLabels, AccLabels, LoopLabels
<1>1. ASSUME NEW t \in Threads, AccStart(t) PROVE (Places /\ Handed)'
  <2>1. CASE AccCheck(t) BY <2>1 DEF AccCheck, AfterStart, Succeeds
  <2>2. CASE AccActivate(t) BY <2>2 DEF AccActivate, AfterStart, Succeeds
  <2>3. CASE AccListen(t) BY <2>3 DEF AccListen, Succeeds
  <2>4. CASE AccAccept(t) BY <2>4 DEF AccAccept, AfterStart
  <2>5. QED
    BY <1>1, <2>1, <2>2, <2>3, <2>4 DEF AccStart
<1>2. ASSUME NEW t \in Threads, DtorWait(t) PROVE (Places /\ Handed)'
  BY <1>2 DEF DtorWait
<1>3. CASE Start
  BY <1>3 DEF Start
<1>4. CASE ReConnect
  BY <1>4 DEF ReConnect
<1>5. CASE Close
  BY <1>5 DEF Close
<1>6. CASE StartStep
  <2>1. CASE ReBegin BY <2>1 DEF ReBegin
  <2>2. CASE ReEnd BY <2>2 DEF ReEnd
  <2>3. CASE StartStore BY <2>3 DEF StartStore
  <2>4. CASE StartInitial BY <2>4, Created DEF StartInitial, Create
  <2>5. CASE StartLock BY <2>5 DEF StartLock
  <2>6. CASE StartEach BY <2>6 DEF StartEach
  <2>7. CASE StartEnd BY <2>7 DEF StartEnd
  <2>8. ASSUME NEW a \in Acceptors, StartAcceptor(a) PROVE (Places /\ Handed)'
    BY <2>8 DEF StartAcceptor
  <2>9. ASSUME NEW a \in Acceptors, NEW ok \in BOOLEAN, ReAcceptor(a, ok) PROVE (Places /\ Handed)'
    BY <2>9 DEF ReAcceptor
  <2>10. QED
    BY <1>6, <2>1, <2>2, <2>3, <2>4, <2>5, <2>6, <2>7, <2>8, <2>9 DEF StartStep
<1>7. CASE CloseStep
  <2>1. CASE CloseSocket BY <2>1 DEF CloseSocket
  <2>2. CASE CloseWait BY <2>2 DEF CloseWait
  <2>3. CASE CloseAcceptorsEnd BY <2>3 DEF CloseAcceptorsEnd
  <2>4. CASE CloseSize BY <2>4 DEF CloseSize
  <2>5. CASE CloseConns BY <2>5 DEF CloseConns, Cut
  <2>6. CASE CloseWaitConns BY <2>6 DEF CloseWaitConns
  <2>7. CASE CloseErase BY <2>7 DEF CloseErase
  <2>8. ASSUME NEW a \in Acceptors, CloseAcceptor(a) PROVE (Places /\ Handed)'
    BY <2>8 DEF CloseAcceptor
  <2>9. QED
    BY <1>7, <2>1, <2>2, <2>3, <2>4, <2>5, <2>6, <2>7, <2>8 DEF CloseStep
<1>8. CASE ClearStep
  BY <1>8 DEF ClearStep, Clear
<1>9. CASE HandlerStep
  <2>1. CASE HandleAccept BY <2>1 DEF HandleAccept
  <2>2. CASE HandleHalted BY <2>2 DEF HandleHalted
  <2>3. CASE HandleReceive BY <2>3 DEF HandleReceive
  <2>4. CASE HandleLock BY <2>4 DEF HandleLock
  <2>5. CASE HandleRecheck BY <2>5 DEF HandleRecheck
  <2>6. CASE HandlePush BY <2>6 DEF HandlePush
  <2>7. CASE HandleClose BY <2>7 DEF HandleClose, Cut
  <2>8. CASE HandleWait BY <2>8 DEF HandleWait
  <2>9. CASE HandleEnd BY <2>9 DEF HandleEnd
  <2>10. QED
    BY <1>1, <1>2, <1>9, <2>1, <2>2, <2>3, <2>4, <2>5, <2>6, <2>7, <2>8, <2>9 DEF HandlerStep
<1>10. ASSUME NEW a \in Acceptors, NEW c \in Conns, NEW how, AcceptEnds(a, c, how)
      PROVE  (Places /\ Handed)'
  <2>1. hand = None /\ hand' \in Conns \cup {None} /\ pc' = [pc EXCEPT !["loop"] = "h.accept"]
    BY <1>10 DEF AcceptEnds
  <2>2. \A d \in Conns : conn'[d] \in {"reading", "cut"} => conn[d] \in {"reading", "cut"}
    BY <1>10 DEF AcceptEnds
  <2>3. connections' = connections /\ acceptors' = acceptors /\ todo' = todo
    BY <1>10 DEF AcceptEnds
  <2>4. cur' = [cur EXCEPT !["loop"] = a]
    BY <1>10 DEF AcceptEnds
  <2>5. QED BY <2>1, <2>2, <2>3, <2>4, ServerAssumption DEF ServerAssumption
<1>11. ASSUME NEW c \in Conns, ReadEnds(c) PROVE (Places /\ Handed)'
  BY <1>11 DEF ReadEnds
<1>12. CASE UNCHANGED vars
  BY <1>12 DEF vars
<1>13. QED
  BY <1>1, <1>2, <1>3, <1>4, <1>5, <1>6, <1>7, <1>8, <1>9, <1>10, <1>11, <1>12
  DEF Next, OwnerStep

LEMMA NextLocked == ServerInv /\ [Next]_vars => (Locked /\ NoPushWhileClosing /\ Closed)'
<1> SUFFICES ASSUME ServerInv, [Next]_vars PROVE (Locked /\ NoPushWhileClosing /\ Closed)'
  OBVIOUS
<1>0. Types'
  BY NextTypes DEF ServerInv
<1> USE <1>0 DEF ServerInv, Types, Locked, NoPushWhileClosing, Closed, OwnerLabels, StartLabels, CloseLabels, AccLabels, LoopLabels
<1>1. ASSUME NEW t \in Threads, AccStart(t) PROVE (Locked /\ NoPushWhileClosing /\ Closed)'
  <2>1. CASE AccCheck(t) BY <2>1 DEF AccCheck, AfterStart, Succeeds
  <2>2. CASE AccActivate(t) BY <2>2 DEF AccActivate, AfterStart, Succeeds
  <2>3. CASE AccListen(t) BY <2>3 DEF AccListen, Succeeds
  <2>4. CASE AccAccept(t) BY <2>4 DEF AccAccept, AfterStart
  <2>5. QED
    BY <1>1, <2>1, <2>2, <2>3, <2>4 DEF AccStart
<1>2. ASSUME NEW t \in Threads, DtorWait(t) PROVE (Locked /\ NoPushWhileClosing /\ Closed)'
  BY <1>2 DEF DtorWait
<1>3. CASE Start
  BY <1>3 DEF Start
<1>4. CASE ReConnect
  BY <1>4 DEF ReConnect
<1>5. CASE Close
  BY <1>5 DEF Close
<1>6. CASE StartStep
  <2>1. CASE ReBegin BY <2>1 DEF ReBegin
  <2>2. CASE ReEnd BY <2>2 DEF ReEnd
  <2>3. CASE StartStore BY <2>3 DEF StartStore
  <2>4. CASE StartInitial BY <2>4, Created DEF StartInitial, Create
  <2>5. CASE StartLock BY <2>5, ServerAssumption DEF StartLock, ServerAssumption
  <2>6. CASE StartEach BY <2>6, ServerAssumption DEF StartEach, ServerAssumption
  <2>7. CASE StartEnd BY <2>7 DEF StartEnd
  <2>8. ASSUME NEW a \in Acceptors, StartAcceptor(a) PROVE (Locked /\ NoPushWhileClosing /\ Closed)'
    BY <2>8 DEF StartAcceptor
  <2>9. ASSUME NEW a \in Acceptors, NEW ok \in BOOLEAN, ReAcceptor(a, ok) PROVE (Locked /\ NoPushWhileClosing /\ Closed)'
    BY <2>9 DEF ReAcceptor
  <2>10. QED
    BY <1>6, <2>1, <2>2, <2>3, <2>4, <2>5, <2>6, <2>7, <2>8, <2>9 DEF StartStep
<1>7. CASE CloseStep
  <2>1. CASE CloseSocket BY <2>1 DEF CloseSocket
  <2>2. CASE CloseWait BY <2>2 DEF CloseWait
  <2>3. CASE CloseAcceptorsEnd BY <2>3 DEF CloseAcceptorsEnd
  <2>4. CASE CloseSize BY <2>4, ServerAssumption DEF CloseSize, ServerAssumption
  <2>5. CASE CloseConns BY <2>5 DEF CloseConns, Cut
  <2>6. CASE CloseWaitConns BY <2>6 DEF CloseWaitConns
  <2>7. CASE CloseErase BY <2>7 DEF CloseErase
  <2>8. ASSUME NEW a \in Acceptors, CloseAcceptor(a) PROVE (Locked /\ NoPushWhileClosing /\ Closed)'
    BY <2>8 DEF CloseAcceptor
  <2>9. QED
    BY <1>7, <2>1, <2>2, <2>3, <2>4, <2>5, <2>6, <2>7, <2>8 DEF CloseStep
<1>8. CASE ClearStep
  BY <1>8 DEF ClearStep, Clear
<1>9. CASE HandlerStep
  <2>1. CASE HandleAccept BY <2>1 DEF HandleAccept
  <2>2. CASE HandleHalted BY <2>2 DEF HandleHalted
  <2>3. CASE HandleReceive BY <2>3 DEF HandleReceive
  <2>4. CASE HandleLock BY <2>4, ServerAssumption DEF HandleLock, ServerAssumption
  <2>5. CASE HandleRecheck BY <2>5, ServerAssumption DEF HandleRecheck, ServerAssumption
  <2>6. CASE HandlePush BY <2>6, ServerAssumption DEF HandlePush, ServerAssumption
  <2>7. CASE HandleClose BY <2>7 DEF HandleClose, Cut
  <2>8. CASE HandleWait BY <2>8 DEF HandleWait
  <2>9. CASE HandleEnd BY <2>9 DEF HandleEnd
  <2>10. QED
    BY <1>1, <1>2, <1>9, <2>1, <2>2, <2>3, <2>4, <2>5, <2>6, <2>7, <2>8, <2>9 DEF HandlerStep
<1>10. ASSUME NEW a \in Acceptors, NEW c \in Conns, NEW how, AcceptEnds(a, c, how)
      PROVE  (Locked /\ NoPushWhileClosing /\ Closed)'
  BY <1>10 DEF AcceptEnds
<1>11. ASSUME NEW c \in Conns, ReadEnds(c) PROVE (Locked /\ NoPushWhileClosing /\ Closed)'
  BY <1>11 DEF ReadEnds
<1>12. CASE UNCHANGED vars
  BY <1>12 DEF vars
<1>13. QED
  BY <1>1, <1>2, <1>3, <1>4, <1>5, <1>6, <1>7, <1>8, <1>9, <1>10, <1>11, <1>12
  DEF Next, OwnerStep

LEMMA NextStarted == ServerInv /\ [Next]_vars => (Counted /\ Started)'
<1> SUFFICES ASSUME ServerInv, [Next]_vars PROVE (Counted /\ Started)'
  OBVIOUS
<1>0. Types'
  BY NextTypes DEF ServerInv
<1> USE <1>0 DEF ServerInv, Types, Places, Dead, Counted, Started, OwnerLabels, StartLabels, CloseLabels, AccLabels, LoopLabels
<1>1. ASSUME NEW t \in Threads, AccStart(t) PROVE (Counted /\ Started)'
  <2>1. CASE AccCheck(t) BY <2>1 DEF AccCheck, AfterStart, Succeeds
  <2>2. CASE AccActivate(t) BY <2>2 DEF AccActivate, AfterStart, Succeeds
  <2>3. CASE AccListen(t) BY <2>3 DEF AccListen, Succeeds
  <2>4. CASE AccAccept(t) BY <2>4 DEF AccAccept, AfterStart
  <2>5. QED
    BY <1>1, <2>1, <2>2, <2>3, <2>4 DEF AccStart
<1>2. ASSUME NEW t \in Threads, DtorWait(t) PROVE (Counted /\ Started)'
  BY <1>2 DEF DtorWait
<1>3. CASE Start
  BY <1>3 DEF Start
<1>4. CASE ReConnect
  BY <1>4 DEF ReConnect
<1>5. CASE Close
  BY <1>5 DEF Close
<1>6. CASE StartStep
  <2>1. CASE ReBegin BY <2>1 DEF ReBegin
  <2>2. CASE ReEnd BY <2>2 DEF ReEnd
  <2>3. CASE StartStore BY <2>3 DEF StartStore
  <2>4. CASE StartInitial BY <2>4, Created DEF StartInitial, Create
  <2>5. CASE StartLock BY <2>5 DEF StartLock
  <2>6. CASE StartEach BY <2>6 DEF StartEach
  <2>7. CASE StartEnd BY <2>7 DEF StartEnd
  <2>8. ASSUME NEW a \in Acceptors, StartAcceptor(a) PROVE (Counted /\ Started)'
    BY <2>8 DEF StartAcceptor
  <2>9. ASSUME NEW a \in Acceptors, NEW ok \in BOOLEAN, ReAcceptor(a, ok) PROVE (Counted /\ Started)'
    BY <2>9 DEF ReAcceptor
  <2>10. QED
    BY <1>6, <2>1, <2>2, <2>3, <2>4, <2>5, <2>6, <2>7, <2>8, <2>9 DEF StartStep
<1>7. CASE CloseStep
  <2>1. CASE CloseSocket BY <2>1 DEF CloseSocket
  <2>2. CASE CloseWait BY <2>2 DEF CloseWait
  <2>3. CASE CloseAcceptorsEnd BY <2>3 DEF CloseAcceptorsEnd
  <2>4. CASE CloseSize BY <2>4 DEF CloseSize
  <2>5. CASE CloseConns BY <2>5 DEF CloseConns, Cut
  <2>6. CASE CloseWaitConns BY <2>6 DEF CloseWaitConns
  <2>7. CASE CloseErase BY <2>7 DEF CloseErase
  <2>8. ASSUME NEW a \in Acceptors, CloseAcceptor(a) PROVE (Counted /\ Started)'
    BY <2>8 DEF CloseAcceptor
  <2>9. QED
    BY <1>7, <2>1, <2>2, <2>3, <2>4, <2>5, <2>6, <2>7, <2>8 DEF CloseStep
<1>8. CASE ClearStep
  BY <1>8, FS_EmptySet DEF ClearStep, Clear
<1>9. CASE HandlerStep
  <2>1. CASE HandleAccept BY <2>1 DEF HandleAccept
  <2>2. CASE HandleHalted BY <2>2 DEF HandleHalted
  <2>3. CASE HandleReceive BY <2>3 DEF HandleReceive
  <2>4. CASE HandleLock BY <2>4 DEF HandleLock
  <2>5. CASE HandleRecheck BY <2>5 DEF HandleRecheck
  <2>6. CASE HandlePush BY <2>6 DEF HandlePush
  <2>7. CASE HandleClose BY <2>7 DEF HandleClose, Cut
  <2>8. CASE HandleWait BY <2>8 DEF HandleWait
  <2>9. CASE HandleEnd BY <2>9 DEF HandleEnd
  <2>10. QED
    BY <1>1, <1>2, <1>9, <2>1, <2>2, <2>3, <2>4, <2>5, <2>6, <2>7, <2>8, <2>9 DEF HandlerStep
<1>10. ASSUME NEW a \in Acceptors, NEW c \in Conns, NEW how, AcceptEnds(a, c, how)
      PROVE  (Counted /\ Started)'
  BY <1>10 DEF AcceptEnds
<1>11. ASSUME NEW c \in Conns, ReadEnds(c) PROVE (Counted /\ Started)'
  BY <1>11 DEF ReadEnds
<1>12. CASE UNCHANGED vars
  BY <1>12 DEF vars
<1>13. QED
  BY <1>1, <1>2, <1>3, <1>4, <1>5, <1>6, <1>7, <1>8, <1>9, <1>10, <1>11, <1>12
  DEF Next, OwnerStep

-----------------------------------------------------------------------------
(* The invariant and what follows from it                                  *)

LEMMA InitInv == Init => ServerInv
<1> SUFFICES ASSUME Init PROVE ServerInv
  OBVIOUS
<1>0. Types
  BY InitTypes
<1>1. /\ pc["owner"] = "idle" /\ pc["loop"] = "idle" /\ cur["owner"] = None /\ cur["loop"] = None
      /\ lock = None /\ hand = None /\ connections = {} /\ done = "none" /\ todo = {}
      /\ \A a \in Acceptors : pending[a] = 0
      /\ \A c \in Conns : conn[c] = "none"
  BY DEF Init
<1>2. Places /\ Handed
  BY <1>1 DEF Places, Handed, AccLabels
<1>3. Dead
  <2>1. \A a \in acceptors : accState[a] # "none"
    BY <1>0 DEF Init, Types
  <2>2. QED
    BY <1>1, <2>1, ServerAssumption DEF Dead, DtorLabels, ServerAssumption
<1>4. Token
  BY <1>1, ServerAssumption DEF Token, Armed, Taken, ServerAssumption
<1>5. Locked /\ NoPushWhileClosing /\ Closed
  BY <1>1, ServerAssumption DEF Locked, NoPushWhileClosing, Closed, CloseLabels, ServerAssumption
<1>6. Counted /\ Started
  BY <1>1, InitCreated DEF Counted, Started
<1>7. QED
  BY <1>0, <1>2, <1>3, <1>4, <1>5, <1>6 DEF ServerInv

LEMMA NextInv == ServerInv /\ [Next]_vars => ServerInv'
  BY NextTypes, NextPlaces, NextDead, NextToken, NextLocked, NextStarted DEF ServerInv

THEOREM Invariant == Spec => []ServerInv
  BY InitInv, NextInv, PTL DEF Spec

\* start and the handler that re-arms the acceptor exclude each other through
\* `accepting`: at most one accept of an acceptor is outstanding at any time.
THEOREM AcceptsOnce == Spec => []OneAccept
<1>1. ServerInv => OneAccept
  BY DEF ServerInv, Token, OneAccept
<1>2. QED
  BY Invariant, <1>1, PTL

\* close may work on the vector of connections without the lock: the second
\* test of `halted` keeps a handler from adding to it.
THEOREM VectorIsCloses == Spec => []NoPushWhileClosing
<1>1. ServerInv => NoPushWhileClosing
  BY DEF ServerInv
<1>2. QED
  BY Invariant, <1>1, PTL

\* However it is used, a server whose close has returned holds no connection:
\* the one that may still be read is the connection its handler is giving up.
CloseEmpties ==
  done = "close" =>
    connections = {} /\ \A c \in Conns : conn[c] \in {"reading", "cut"} => c = hand

THEOREM ClosedIsEmpty == Spec => []CloseEmpties
<1>1. ServerInv => CloseEmpties
  BY DEF ServerInv, Closed, Handed, CloseEmpties
<1>2. QED
  BY Invariant, <1>1, PTL

-----------------------------------------------------------------------------
(* What a start that reports success has bound                             *)

\* The vector holds an acceptor for each endpoint until close clears it, which it
\* does not do to a single one, and nothing afterwards fills it again.
Kept ==
  /\ ~cleared =>
       /\ pc["owner"] \notin {"c.clear", "c.dtor"}
       /\ pc["owner"] \in {"c.acc", "c.socket", "c.wait"} => Cardinality(acceptors) = 1
       /\ pc["owner"] \notin {"s.clear", "s.dtor", "s.store", "s.initial"} =>
            Cardinality(acceptors) = endpoints
  /\ cleared =>
       /\ pc["owner"] \notin {"s.clear", "s.dtor", "s.store", "s.initial"}
       /\ pc["owner"] \in {"c.acc", "c.socket", "c.wait"} => Cardinality(acceptors) # 1
       /\ pc["owner"] \notin {"c.acc", "c.socket", "c.wait", "c.clear", "c.dtor"} => acceptors = {}
       /\ pc["owner"] = "r.acc" => ~halted

LEMMA NextKept ==
  ASSUME ServerInv, Kept, [Next]_vars,
         cleared => cleared', Close /\ Cardinality(acceptors) > 1 => cleared',
         cleared' => cleared \/ (Close /\ Cardinality(acceptors) > 1)
  PROVE  Kept'
<1>0. Types' /\ endpoints \in Nat \ {0} /\ Cardinality(acceptors) \in Nat
  <2>1. endpoints \in Nat \ {0}
    BY ServerAssumption, FS_CardinalityType DEF ServerInv, Types, ServerAssumption
  <2>2. Cardinality(acceptors) \in Nat
    BY ServerAssumption, FS_Subset, FS_CardinalityType DEF ServerInv, Types, ServerAssumption
  <2>3. QED BY <2>1, <2>2, NextTypes DEF ServerInv
<1>c. /\ Close => pc["owner"] = "idle" /\ pc' = [pc EXCEPT !["owner"] = IF acceptors = {} THEN "c.size" ELSE "c.acc"]
      /\ Cardinality({}) = 0
  BY FS_EmptySet DEF Close
<1> USE <1>0, <1>c DEF ServerInv, Types, Places, Kept, OwnerLabels, StartLabels, CloseLabels, AccLabels, LoopLabels
<1>1. ASSUME NEW t \in Threads, AccStart(t) PROVE Kept'
  <2>1. CASE AccCheck(t) BY <2>1 DEF AccCheck, AfterStart, Succeeds
  <2>2. CASE AccActivate(t) BY <2>2 DEF AccActivate, AfterStart, Succeeds
  <2>3. CASE AccListen(t) BY <2>3 DEF AccListen, Succeeds
  <2>4. CASE AccAccept(t) BY <2>4 DEF AccAccept, AfterStart
  <2>5. QED
    BY <1>1, <2>1, <2>2, <2>3, <2>4 DEF AccStart
<1>2. ASSUME NEW t \in Threads, DtorWait(t) PROVE Kept'
  BY <1>2 DEF DtorWait
<1>3. CASE Start
  BY <1>3 DEF Start
<1>4. CASE ReConnect
  BY <1>4 DEF ReConnect
<1>5. CASE Close
  BY <1>5 DEF Close
<1>6. CASE StartStep
  <2>1. CASE ReBegin BY <2>1 DEF ReBegin
  <2>2. CASE ReEnd BY <2>2 DEF ReEnd
  <2>3. CASE StartStore BY <2>3 DEF StartStore
  <2>4. CASE StartInitial
    <3>1. PICK bound : Create(bound) /\ pc' = [pc EXCEPT !["owner"] = IF bound = {} THEN "r.begin" ELSE "s.lock"]
      BY <2>4, Zenon DEF StartInitial
    <3>2. Cardinality(acceptors') = endpoints
      BY <3>1, Created
    <3>3. ~cleared /\ ~cleared' /\ endpoints' = endpoints
      BY <2>4, <3>1 DEF StartInitial
    <3>4. pc'["owner"] \in {"r.begin", "s.lock"}
      BY <3>1
    <3>5. QED BY <3>2, <3>3, <3>4
  <2>5. CASE StartLock BY <2>5 DEF StartLock
  <2>6. CASE StartEach BY <2>6 DEF StartEach
  <2>7. CASE StartEnd BY <2>7 DEF StartEnd
  <2>8. ASSUME NEW a \in Acceptors, StartAcceptor(a) PROVE Kept'
    BY <2>8 DEF StartAcceptor
  <2>9. ASSUME NEW a \in Acceptors, NEW ok \in BOOLEAN, ReAcceptor(a, ok) PROVE Kept'
    BY <2>9 DEF ReAcceptor
  <2>10. QED
    BY <1>6, <2>1, <2>2, <2>3, <2>4, <2>5, <2>6, <2>7, <2>8, <2>9 DEF StartStep
<1>7. CASE CloseStep
  <2>1. CASE CloseSocket BY <2>1 DEF CloseSocket
  <2>2. CASE CloseWait BY <2>2 DEF CloseWait
  <2>3. CASE CloseAcceptorsEnd BY <2>3 DEF CloseAcceptorsEnd
  <2>4. CASE CloseSize BY <2>4 DEF CloseSize
  <2>5. CASE CloseConns BY <2>5 DEF CloseConns, Cut
  <2>6. CASE CloseWaitConns BY <2>6 DEF CloseWaitConns
  <2>7. CASE CloseErase BY <2>7 DEF CloseErase
  <2>8. ASSUME NEW a \in Acceptors, CloseAcceptor(a) PROVE Kept'
    BY <2>8 DEF CloseAcceptor
  <2>9. QED
    BY <1>7, <2>1, <2>2, <2>3, <2>4, <2>5, <2>6, <2>7, <2>8 DEF CloseStep
<1>8. CASE ClearStep
  BY <1>8, FS_EmptySet DEF ClearStep, Clear
<1>9. CASE HandlerStep
  <2>1. CASE HandleAccept BY <2>1 DEF HandleAccept
  <2>2. CASE HandleHalted BY <2>2 DEF HandleHalted
  <2>3. CASE HandleReceive BY <2>3 DEF HandleReceive
  <2>4. CASE HandleLock BY <2>4 DEF HandleLock
  <2>5. CASE HandleRecheck BY <2>5 DEF HandleRecheck
  <2>6. CASE HandlePush BY <2>6 DEF HandlePush
  <2>7. CASE HandleClose BY <2>7 DEF HandleClose, Cut
  <2>8. CASE HandleWait BY <2>8 DEF HandleWait
  <2>9. CASE HandleEnd BY <2>9 DEF HandleEnd
  <2>10. QED
    BY <1>1, <1>2, <1>9, <2>1, <2>2, <2>3, <2>4, <2>5, <2>6, <2>7, <2>8, <2>9 DEF HandlerStep
<1>10. ASSUME NEW a \in Acceptors, NEW c \in Conns, NEW how, AcceptEnds(a, c, how)
      PROVE  Kept'
  BY <1>10 DEF AcceptEnds
<1>11. ASSUME NEW c \in Conns, ReadEnds(c) PROVE Kept'
  BY <1>11 DEF ReadEnds
<1>12. CASE UNCHANGED vars
  BY <1>12 DEF vars
<1>13. QED
  BY <1>1, <1>2, <1>3, <1>4, <1>5, <1>6, <1>7, <1>8, <1>9, <1>10, <1>11, <1>12
  DEF Next, OwnerStep

\* A start that reports success has bound an acceptor to each endpoint, unless a
\* server of several endpoints was closed before: then it has bound nothing.
THEOREM StartBinds == UseSpec => []SuccessfulStart
<1>1. UseInit => ServerInv /\ Kept
  BY InitInv, InitCreated DEF UseInit, Init, Kept
<1>2. ServerInv /\ Kept /\ [UseNext]_<<vars, history>> => (ServerInv /\ Kept)'
  <2> SUFFICES ASSUME ServerInv, Kept, [UseNext]_<<vars, history>> PROVE (ServerInv /\ Kept)'
    OBVIOUS
  <2>1. ServerInv'
    BY NextInv DEF UseNext
  <2>2. CASE UseNext
    BY <2>1, <2>2, NextKept DEF UseNext
  <2>3. CASE UNCHANGED <<vars, history>>
    BY <2>1, <2>3 DEF Kept, vars, history
  <2>4. QED BY <2>2, <2>3
<1>3. ServerInv /\ Kept => SuccessfulStart
  BY DEF ServerInv, Started, Kept, SuccessfulStart
<1>4. QED
  BY <1>1, <1>2, <1>3, PTL DEF UseSpec

-----------------------------------------------------------------------------
(* A server that is started only while it accepts nothing                  *)

\* Nothing comes of a: it is closed, and no accept of it is on the way.
Settled(a) ==
  ~accOpen[a] /\ pending[a] = 0 /\ ~Taken(a) /\ ~(cur["loop"] = a /\ pc["loop"] = "a.accept")

\* start meets no handler of an acceptor before it has armed it.
StartsIdle ==
  /\ \/ pc["owner"] \in {"s.clear", "s.dtor", "s.store", "s.initial", "s.lock", "s.each"}
     \/ pc["owner"] \in {"r.begin", "r.acc"} /\ attempt # "only"
     => Idle
  /\ pc["owner"] \in {"s.acc"} \cup AccLabels =>
       \A a \in todo : pending[a] = 0 /\ cur["loop"] # a
  /\ pc["owner"] \in AccLabels =>
       pending[cur["owner"]] = 0 /\ cur["owner"] \notin todo \cup {cur["loop"]}

\* An acceptor of a server that is not halted is bound, or nobody has armed it.
Bound ==
  /\ pc["owner"] \in {"s.lock", "s.each", "s.acc"} \cup AccLabels => ~halted
  /\ pc["owner"] = "r.begin" => halted
  /\ pc["owner"] \in {"s.store", "s.initial"} => acceptors = {}
  /\ pc["owner"] \in {"a.activate", "a.listen", "a.accept"} => accState[cur["owner"]] = "connected"
  /\ ~halted =>
       \A a \in acceptors :
         \/ accState[a] = "connected"
         \/ pc["owner"] = "r.acc" /\ a \in todo
         \/ /\ pc["owner"] # "r.acc" /\ ~accepting[a].active
            /\ ~(cur["loop"] = a /\ pc["loop"] = "a.activate")

\* Only the handler of an accept disarms its acceptor: nothing triggers one
\* that is armed.
Disarmed ==
  /\ \A a \in Acceptors : accepting[a].triggered => ~accepting[a].active
  /\ pc["loop"] \in {"h.halted", "h.receive", "h.lock", "h.recheck", "h.push", "a.check",
                     "a.activate"} => ~accepting[cur["loop"]].active

\* close settles one acceptor after the other, and they remain so.
ClosesAll ==
  /\ \A a \in Acceptors \ acceptors : Settled(a)
  /\ pc["owner"] \in {"s.clear", "s.dtor"} => todo = acceptors
  /\ pc["owner"] \in {"c.acc", "c.socket", "c.wait"} =>
       \A a \in acceptors \ todo : Settled(a) \/ (a = cur["owner"] /\ pc["owner"] # "c.acc")
  /\ pc["owner"] = "c.wait" => ~accOpen[cur["owner"]]
  /\ pc["owner"] \in {"c.clear", "c.dtor", "c.size", "c.conns", "c.waitconns", "c.erase"}
       \/ done = "close" => \A a \in Acceptors : Settled(a)

ProperInv == StartsIdle /\ Bound /\ Disarmed /\ ClosesAll

UseInv == ServerInv /\ (proper => ProperInv)

LEMMA NextStartsIdle ==
  ASSUME ServerInv, ServerInv', ProperInv, Start => Idle, ReConnect => halted, [Next]_vars
  PROVE  StartsIdle'
<1> USE DEF ServerInv, Types, Places, ProperInv, StartsIdle, Bound, Idle, OwnerLabels, StartLabels, CloseLabels, AccLabels, LoopLabels
<1>1. ASSUME NEW t \in Threads, AccStart(t) PROVE StartsIdle'
  <2>1. CASE AccCheck(t) BY <2>1 DEF AccCheck, AfterStart, Succeeds
  <2>2. CASE AccActivate(t) BY <2>2 DEF AccActivate, AfterStart, Succeeds
  <2>3. CASE AccListen(t) BY <2>3 DEF AccListen, Succeeds
  <2>4. CASE AccAccept(t)
    <3>1. CASE t = "owner" BY <2>4, <3>1 DEF AccAccept, AfterStart
    <3>2. CASE t = "loop" BY <2>4, <3>2 DEF AccAccept, AfterStart
    <3>3. QED BY <3>1, <3>2
  <2>5. QED
    BY <1>1, <2>1, <2>2, <2>3, <2>4 DEF AccStart
<1>2. ASSUME NEW t \in Threads, DtorWait(t) PROVE StartsIdle'
  <2>1. CASE t = "owner" BY <1>2, <2>1, ServerAssumption DEF DtorWait, ServerAssumption
  <2>2. CASE t = "loop" BY <1>2, <2>2, ServerAssumption DEF DtorWait, ServerAssumption
  <2>3. QED BY <2>1, <2>2
<1>3. CASE Start
  BY <1>3 DEF Start
<1>4. CASE ReConnect
  BY <1>4 DEF ReConnect
<1>5. CASE Close
  BY <1>5 DEF Close
<1>6. CASE StartStep
  <2>1. CASE ReBegin BY <2>1 DEF ReBegin
  <2>2. CASE ReEnd BY <2>2 DEF ReEnd
  <2>3. CASE StartStore BY <2>3 DEF StartStore
  <2>4. CASE StartInitial
    <3>1. /\ pending' = pending /\ cur' = cur /\ pc'["loop"] = pc["loop"]
          /\ pc["owner"] = "s.initial" /\ pc'["owner"] \in {"r.begin", "s.lock"}
      BY <2>4 DEF StartInitial
    <3>2. QED BY <3>1
  <2>5. CASE StartLock BY <2>5 DEF StartLock
  <2>6. CASE StartEach BY <2>6, ServerAssumption DEF StartEach, ServerAssumption
  <2>7. CASE StartEnd BY <2>7 DEF StartEnd
  <2>8. ASSUME NEW a \in Acceptors, StartAcceptor(a) PROVE StartsIdle'
    BY <2>8 DEF StartAcceptor
  <2>9. ASSUME NEW a \in Acceptors, NEW ok \in BOOLEAN, ReAcceptor(a, ok) PROVE StartsIdle'
    BY <2>9 DEF ReAcceptor
  <2>10. QED
    BY <1>6, <2>1, <2>2, <2>3, <2>4, <2>5, <2>6, <2>7, <2>8, <2>9 DEF StartStep
<1>7. CASE CloseStep
  <2>1. CASE CloseSocket BY <2>1 DEF CloseSocket
  <2>2. CASE CloseWait BY <2>2 DEF CloseWait
  <2>3. CASE CloseAcceptorsEnd BY <2>3 DEF CloseAcceptorsEnd
  <2>4. CASE CloseSize BY <2>4 DEF CloseSize
  <2>5. CASE CloseConns BY <2>5 DEF CloseConns, Cut
  <2>6. CASE CloseWaitConns BY <2>6 DEF CloseWaitConns
  <2>7. CASE CloseErase BY <2>7 DEF CloseErase
  <2>8. ASSUME NEW a \in Acceptors, CloseAcceptor(a) PROVE StartsIdle'
    BY <2>8 DEF CloseAcceptor
  <2>9. QED
    BY <1>7, <2>1, <2>2, <2>3, <2>4, <2>5, <2>6, <2>7, <2>8 DEF CloseStep
<1>8. CASE ClearStep
  BY <1>8 DEF ClearStep, Clear
<1>9. CASE HandlerStep
  <2>1. CASE HandleAccept BY <2>1 DEF HandleAccept
  <2>2. CASE HandleHalted BY <2>2 DEF HandleHalted
  <2>3. CASE HandleReceive BY <2>3 DEF HandleReceive
  <2>4. CASE HandleLock BY <2>4 DEF HandleLock
  <2>5. CASE HandleRecheck BY <2>5 DEF HandleRecheck
  <2>6. CASE HandlePush BY <2>6 DEF HandlePush
  <2>7. CASE HandleClose BY <2>7 DEF HandleClose, Cut
  <2>8. CASE HandleWait BY <2>8 DEF HandleWait
  <2>9. CASE HandleEnd
    <3>1. pc' = pc \/ pc'["owner"] = pc["owner"]
      BY <2>9 DEF HandleEnd
    <3>2. pc["loop"] = "h.end" /\ cur'["owner"] = cur["owner"] /\ cur'["loop"] \in {cur["loop"], None}
      BY <2>9 DEF HandleEnd
    <3>3. UNCHANGED <<pending, todo, attempt>>
      BY <2>9 DEF HandleEnd
    <3>4. QED BY <3>1, <3>2, <3>3, ServerAssumption DEF ServerAssumption
  <2>10. QED
    BY <1>1, <1>2, <1>9, <2>1, <2>2, <2>3, <2>4, <2>5, <2>6, <2>7, <2>8, <2>9 DEF HandlerStep
<1>10. ASSUME NEW a \in Acceptors, NEW c \in Conns, NEW how, AcceptEnds(a, c, how)
      PROVE  StartsIdle'
  BY <1>10 DEF AcceptEnds
<1>11. ASSUME NEW c \in Conns, ReadEnds(c) PROVE StartsIdle'
  BY <1>11 DEF ReadEnds
<1>12. CASE UNCHANGED vars
  BY <1>12 DEF vars
<1>13. QED
  BY <1>1, <1>2, <1>3, <1>4, <1>5, <1>6, <1>7, <1>8, <1>9, <1>10, <1>11, <1>12
  DEF Next, OwnerStep

LEMMA NextBound ==
  ASSUME ServerInv, ServerInv', ProperInv, Start => Idle, ReConnect => halted, [Next]_vars
  PROVE  Bound'
<1> USE DEF ServerInv, Types, Places, Dead, ProperInv, StartsIdle, Bound, Idle, OwnerLabels, StartLabels, CloseLabels, AccLabels, LoopLabels
<1>1. ASSUME NEW t \in Threads, AccStart(t) PROVE Bound'
  <2>1. CASE AccCheck(t) BY <2>1, TriggerActive DEF AccCheck, AfterStart, Succeeds
  <2>2. CASE AccActivate(t) BY <2>2, TriggerActive DEF AccActivate, AfterStart, Succeeds
  <2>3. CASE AccListen(t) BY <2>3 DEF AccListen, Succeeds
  <2>4. CASE AccAccept(t) BY <2>4 DEF AccAccept, AfterStart
  <2>5. QED
    BY <1>1, <2>1, <2>2, <2>3, <2>4 DEF AccStart
<1>2. ASSUME NEW t \in Threads, DtorWait(t) PROVE Bound'
  BY <1>2 DEF DtorWait
<1>3. CASE Start
  BY <1>3 DEF Start
<1>4. CASE ReConnect
  BY <1>4 DEF ReConnect
<1>5. CASE Close
  BY <1>5 DEF Close
<1>6. CASE StartStep
  <2>1. CASE ReBegin BY <2>1 DEF ReBegin
  <2>2. CASE ReEnd BY <2>2 DEF ReEnd
  <2>3. CASE StartStore BY <2>3 DEF StartStore
  <2>4. CASE StartInitial
    <3>1. PICK bound \in SUBSET Acceptors :
           Create(bound) /\ Step("owner", "s.initial", IF bound = {} THEN "r.begin" ELSE "s.lock")
      BY <2>4 DEF StartInitial
    <3>2. acceptors' \in SUBSET {a \in Acceptors : accState[a] = "none"} /\ bound \in SUBSET acceptors'
      BY <3>1, Created
    <3>3. \A a \in acceptors' : accepting'[a] = Inactive
      BY <3>1, <3>2 DEF Create
    <3>4. cur' = cur /\ pc'["loop"] = pc["loop"] /\ pc'["owner"] \in {"r.begin", "s.lock"}
      BY <2>4 DEF StartInitial
    <3>5. halted' <=> pc'["owner"] = "r.begin"
      BY <3>1 DEF Create
    <3>6. \A a \in acceptors' : cur'["loop"] # a
      BY <3>2, <3>4
    <3>7. QED BY <3>3, <3>4, <3>5, <3>6, TriggerActive
  <2>5. CASE StartLock BY <2>5 DEF StartLock
  <2>6. CASE StartEach BY <2>6 DEF StartEach
  <2>7. CASE StartEnd BY <2>7 DEF StartEnd
  <2>8. ASSUME NEW a \in Acceptors, StartAcceptor(a) PROVE Bound' BY <2>8 DEF StartAcceptor
  <2>9. ASSUME NEW a \in Acceptors, NEW ok \in BOOLEAN, ReAcceptor(a, ok) PROVE Bound'
    BY <2>9 DEF ReAcceptor
  <2>10. QED
    BY <1>6, <2>1, <2>2, <2>3, <2>4, <2>5, <2>6, <2>7, <2>8, <2>9 DEF StartStep
<1>7. CASE CloseStep
  <2>1. CASE CloseSocket BY <2>1 DEF CloseSocket
  <2>2. CASE CloseWait BY <2>2 DEF CloseWait
  <2>3. CASE CloseAcceptorsEnd BY <2>3 DEF CloseAcceptorsEnd
  <2>4. CASE CloseSize BY <2>4 DEF CloseSize
  <2>5. CASE CloseConns BY <2>5 DEF CloseConns, Cut
  <2>6. CASE CloseWaitConns BY <2>6 DEF CloseWaitConns
  <2>7. CASE CloseErase BY <2>7 DEF CloseErase
  <2>8. ASSUME NEW a \in Acceptors, CloseAcceptor(a) PROVE Bound'
    BY <2>8 DEF CloseAcceptor, Locked
  <2>9. QED
    BY <1>7, <2>1, <2>2, <2>3, <2>4, <2>5, <2>6, <2>7, <2>8 DEF CloseStep
<1>8. CASE ClearStep
  BY <1>8 DEF ClearStep, Clear
<1>9. CASE HandlerStep
  <2>1. CASE HandleAccept BY <2>1, TriggerActive DEF HandleAccept
  <2>2. CASE HandleHalted BY <2>2 DEF HandleHalted
  <2>3. CASE HandleReceive BY <2>3 DEF HandleReceive
  <2>4. CASE HandleLock BY <2>4 DEF HandleLock
  <2>5. CASE HandleRecheck BY <2>5 DEF HandleRecheck
  <2>6. CASE HandlePush BY <2>6 DEF HandlePush
  <2>7. CASE HandleClose BY <2>7 DEF HandleClose, Cut
  <2>8. CASE HandleWait BY <2>8 DEF HandleWait
  <2>9. CASE HandleEnd BY <2>9 DEF HandleEnd
  <2>10. QED
    BY <1>1, <1>2, <1>9, <2>1, <2>2, <2>3, <2>4, <2>5, <2>6, <2>7, <2>8, <2>9 DEF HandlerStep
<1>10. ASSUME NEW a \in Acceptors, NEW c \in Conns, NEW how, AcceptEnds(a, c, how)
      PROVE  Bound'
  BY <1>10 DEF AcceptEnds
<1>11. ASSUME NEW c \in Conns, ReadEnds(c) PROVE Bound'
  BY <1>11 DEF ReadEnds
<1>12. CASE UNCHANGED vars
  BY <1>12 DEF vars
<1>13. QED
  BY <1>1, <1>2, <1>3, <1>4, <1>5, <1>6, <1>7, <1>8, <1>9, <1>10, <1>11, <1>12
  DEF Next, OwnerStep

LEMMA TriggerDisarmed ==
  /\ ~Inactive.triggered
  /\ \A v \in TriggerType :
       /\ Activated(v).triggered => v.active /\ v.triggered
       /\ ~v.active => Triggered(v) = v
  BY DEF TriggerType, Inactive, Activated, Triggered

LEMMA NextDisarmed ==
  ASSUME ServerInv, ServerInv', ProperInv, Start => Idle, ReConnect => halted, [Next]_vars
  PROVE  Disarmed'
<1> USE DEF ServerInv, Types, Places, Dead, ProperInv, StartsIdle, Bound, Disarmed, Idle, OwnerLabels, StartLabels, CloseLabels, AccLabels, LoopLabels
<1>1. ASSUME NEW t \in Threads, AccStart(t) PROVE Disarmed'
  <2>1. CASE AccCheck(t)
    BY <2>1, TriggerActive, TriggerDisarmed DEF AccCheck, AfterStart, Succeeds
  <2>2. CASE AccActivate(t)
    BY <2>2, TriggerActive, TriggerDisarmed DEF AccActivate, AfterStart, Succeeds
  <2>3. CASE AccListen(t) BY <2>3 DEF AccListen, Succeeds
  <2>4. CASE AccAccept(t) BY <2>4 DEF AccAccept, AfterStart
  <2>5. QED
    BY <1>1, <2>1, <2>2, <2>3, <2>4 DEF AccStart
<1>2. ASSUME NEW t \in Threads, DtorWait(t) PROVE Disarmed'
  BY <1>2 DEF DtorWait
<1>3. CASE Start
  BY <1>3 DEF Start
<1>4. CASE ReConnect
  BY <1>4 DEF ReConnect
<1>5. CASE Close
  BY <1>5 DEF Close
<1>6. CASE StartStep
  <2>1. CASE ReBegin BY <2>1 DEF ReBegin
  <2>2. CASE ReEnd BY <2>2 DEF ReEnd
  <2>3. CASE StartStore BY <2>3 DEF StartStore
  <2>4. CASE StartInitial
    <3>1. PICK bound \in SUBSET Acceptors : Create(bound)
      BY <2>4 DEF StartInitial
    <3>2. acceptors' \in SUBSET {a \in Acceptors : accState[a] = "none"}
      BY <3>1, Created
    <3>3. \A a \in Acceptors : accepting'[a] = IF a \in acceptors' THEN Inactive ELSE accepting[a]
      BY <3>1, <3>2 DEF Create
    <3>4. cur' = cur /\ pc'["loop"] = pc["loop"] /\ pc["loop"] = "idle"
      BY <2>4 DEF StartInitial
    <3>5. QED BY <3>3, <3>4, TriggerDisarmed
  <2>5. CASE StartLock BY <2>5 DEF StartLock
  <2>6. CASE StartEach BY <2>6 DEF StartEach
  <2>7. CASE StartEnd BY <2>7 DEF StartEnd
  <2>8. ASSUME NEW a \in Acceptors, StartAcceptor(a) PROVE Disarmed' BY <2>8 DEF StartAcceptor
  <2>9. ASSUME NEW a \in Acceptors, NEW ok \in BOOLEAN, ReAcceptor(a, ok) PROVE Disarmed'
    BY <2>9 DEF ReAcceptor
  <2>10. QED
    BY <1>6, <2>1, <2>2, <2>3, <2>4, <2>5, <2>6, <2>7, <2>8, <2>9 DEF StartStep
<1>7. CASE CloseStep
  <2>1. CASE CloseSocket BY <2>1 DEF CloseSocket
  <2>2. CASE CloseWait BY <2>2 DEF CloseWait
  <2>3. CASE CloseAcceptorsEnd BY <2>3 DEF CloseAcceptorsEnd
  <2>4. CASE CloseSize BY <2>4 DEF CloseSize
  <2>5. CASE CloseConns BY <2>5 DEF CloseConns, Cut
  <2>6. CASE CloseWaitConns BY <2>6 DEF CloseWaitConns
  <2>7. CASE CloseErase BY <2>7 DEF CloseErase
  <2>8. ASSUME NEW a \in Acceptors, CloseAcceptor(a) PROVE Disarmed' BY <2>8 DEF CloseAcceptor
  <2>9. QED
    BY <1>7, <2>1, <2>2, <2>3, <2>4, <2>5, <2>6, <2>7, <2>8 DEF CloseStep
<1>8. CASE ClearStep
  BY <1>8 DEF ClearStep, Clear
<1>9. CASE HandlerStep
  <2>1. CASE HandleAccept BY <2>1, TriggerActive, TriggerDisarmed DEF HandleAccept
  <2>2. CASE HandleHalted BY <2>2 DEF HandleHalted
  <2>3. CASE HandleReceive BY <2>3 DEF HandleReceive
  <2>4. CASE HandleLock BY <2>4 DEF HandleLock
  <2>5. CASE HandleRecheck BY <2>5 DEF HandleRecheck
  <2>6. CASE HandlePush BY <2>6 DEF HandlePush
  <2>7. CASE HandleClose BY <2>7 DEF HandleClose, Cut
  <2>8. CASE HandleWait BY <2>8 DEF HandleWait
  <2>9. CASE HandleEnd BY <2>9 DEF HandleEnd
  <2>10. QED
    BY <1>1, <1>2, <1>9, <2>1, <2>2, <2>3, <2>4, <2>5, <2>6, <2>7, <2>8, <2>9 DEF HandlerStep
<1>10. ASSUME NEW a \in Acceptors, NEW c \in Conns, NEW how, AcceptEnds(a, c, how)
      PROVE  Disarmed'
  BY <1>10 DEF AcceptEnds
<1>11. ASSUME NEW c \in Conns, ReadEnds(c) PROVE Disarmed'
  BY <1>11 DEF ReadEnds
<1>12. CASE UNCHANGED vars
  BY <1>12 DEF vars
<1>13. QED
  BY <1>1, <1>2, <1>3, <1>4, <1>5, <1>6, <1>7, <1>8, <1>9, <1>10, <1>11, <1>12
  DEF Next, OwnerStep

LEMMA NextClosesAll ==
  ASSUME ServerInv, ServerInv', ProperInv, Start => Idle, ReConnect => halted, [Next]_vars
  PROVE  ClosesAll'
<1> USE DEF ServerInv, Types, Places, Dead, ProperInv, Settled, Taken, ClosesAll, OwnerLabels, StartLabels, CloseLabels, AccLabels, LoopLabels
<1>1. ASSUME NEW t \in Threads, AccStart(t) PROVE ClosesAll'
  <2>1. CASE AccCheck(t) BY <2>1 DEF AccCheck, AfterStart, Succeeds
  <2>2. CASE AccActivate(t) BY <2>2 DEF AccActivate, AfterStart, Succeeds
  <2>3. CASE AccListen(t) BY <2>3 DEF AccListen, Succeeds
  <2>4. CASE AccAccept(t)
    <3>1. CASE t = "owner" BY <2>4, <3>1 DEF AccAccept, AfterStart, Closed
    <3>2. CASE t = "loop" BY <2>4, <3>2 DEF AccAccept, AfterStart, Closed
    <3>3. QED BY <3>1, <3>2
  <2>5. QED
    BY <1>1, <2>1, <2>2, <2>3, <2>4 DEF AccStart
<1>2. ASSUME NEW t \in Threads, DtorWait(t) PROVE ClosesAll'
  BY <1>2 DEF DtorWait
<1>3. CASE Start
  BY <1>3 DEF Start
<1>4. CASE ReConnect
  BY <1>4 DEF ReConnect
<1>5. CASE Close
  BY <1>5 DEF Close
<1>6. CASE StartStep
  <2>1. CASE ReBegin BY <2>1 DEF ReBegin
  <2>2. CASE ReEnd BY <2>2 DEF ReEnd
  <2>3. CASE StartStore BY <2>3 DEF StartStore
  <2>4. CASE StartInitial
    <3>1. PICK bound \in SUBSET Acceptors : Create(bound)
      BY <2>4 DEF StartInitial
    <3>2. acceptors = {} /\ done # "close" /\ done' # "close"
      BY <2>4 DEF StartInitial, Bound, Closed
    <3>3. \A a \in Acceptors : accOpen'[a] = (a \in acceptors' \/ accOpen[a])
      BY <3>1 DEF Create
    <3>4. /\ pending' = pending /\ cur' = cur /\ pc'["loop"] = pc["loop"]
          /\ pc'["owner"] \in {"r.begin", "s.lock"}
      BY <2>4 DEF StartInitial
    <3>5. QED BY <3>2, <3>3, <3>4
  <2>5. CASE StartLock BY <2>5 DEF StartLock
  <2>6. CASE StartEach BY <2>6 DEF StartEach
  <2>7. CASE StartEnd BY <2>7 DEF StartEnd
  <2>8. ASSUME NEW a \in Acceptors, StartAcceptor(a) PROVE ClosesAll' BY <2>8 DEF StartAcceptor
  <2>9. ASSUME NEW a \in Acceptors, NEW ok \in BOOLEAN, ReAcceptor(a, ok) PROVE ClosesAll'
    BY <2>9 DEF ReAcceptor
  <2>10. QED
    BY <1>6, <2>1, <2>2, <2>3, <2>4, <2>5, <2>6, <2>7, <2>8, <2>9 DEF StartStep
<1>7. CASE CloseStep
  <2>1. CASE CloseSocket BY <2>1 DEF CloseSocket
  <2>2. CASE CloseWait
    <3> DEFINE a == cur["owner"]
    <3>1. a \in Acceptors /\ ~accOpen[a] /\ ~accepting[a].active
      BY <2>2 DEF CloseWait, WaitOver, Disarmed
    <3>2. Settled(a)
      BY <3>1 DEF Token, Armed
    <3>3. QED BY <2>2, <3>2 DEF CloseWait
  <2>3. CASE CloseAcceptorsEnd BY <2>3 DEF CloseAcceptorsEnd
  <2>4. CASE CloseSize BY <2>4 DEF CloseSize
  <2>5. CASE CloseConns BY <2>5 DEF CloseConns, Cut
  <2>6. CASE CloseWaitConns BY <2>6 DEF CloseWaitConns
  <2>7. CASE CloseErase BY <2>7 DEF CloseErase
  <2>8. ASSUME NEW a \in Acceptors, CloseAcceptor(a) PROVE ClosesAll' BY <2>8 DEF CloseAcceptor
  <2>9. QED
    BY <1>7, <2>1, <2>2, <2>3, <2>4, <2>5, <2>6, <2>7, <2>8 DEF CloseStep
<1>8. CASE ClearStep
  <2>1. CASE pc["owner"] = "c.clear"
    <3>1. \A a \in Acceptors : Settled(a)'
      BY <1>8, <2>1 DEF ClearStep, Clear
    <3>2. QED BY <1>8, <2>1, <3>1 DEF ClearStep, Clear
  <2>2. CASE pc["owner"] = "s.clear"
    <3>1. Idle /\ cur["loop"] = None /\ done # "close"
      BY <2>2 DEF StartsIdle, Idle, Closed
    <3>2. \A a \in Acceptors : ~Referenced(a)
      BY <3>1, ServerAssumption DEF Idle, Referenced, ServerAssumption
    <3>3. CASE todo = {} BY <1>8, <2>2, <3>1, <3>3 DEF ClearStep, Clear
    <3>4. CASE todo # {} BY <1>8, <2>2, <3>1, <3>2, <3>4 DEF ClearStep, Clear, Idle
    <3>5. QED BY <3>3, <3>4
  <2>3. QED BY <1>8, <2>1, <2>2 DEF ClearStep
<1>9. CASE HandlerStep
  <2>1. CASE HandleAccept BY <2>1 DEF HandleAccept
  <2>2. CASE HandleHalted BY <2>2 DEF HandleHalted
  <2>3. CASE HandleReceive BY <2>3 DEF HandleReceive
  <2>4. CASE HandleLock BY <2>4 DEF HandleLock
  <2>5. CASE HandleRecheck BY <2>5 DEF HandleRecheck
  <2>6. CASE HandlePush BY <2>6 DEF HandlePush
  <2>7. CASE HandleClose BY <2>7 DEF HandleClose, Cut
  <2>8. CASE HandleWait BY <2>8 DEF HandleWait
  <2>9. CASE HandleEnd BY <2>9 DEF HandleEnd
  <2>10. QED
    BY <1>1, <1>2, <1>9, <2>1, <2>2, <2>3, <2>4, <2>5, <2>6, <2>7, <2>8, <2>9 DEF HandlerStep
<1>10. ASSUME NEW a \in Acceptors, NEW c \in Conns, NEW how, AcceptEnds(a, c, how)
      PROVE  ClosesAll'
  BY <1>10 DEF AcceptEnds
<1>11. ASSUME NEW c \in Conns, ReadEnds(c) PROVE ClosesAll'
  BY <1>11 DEF ReadEnds
<1>12. CASE UNCHANGED vars
  BY <1>12 DEF vars
<1>13. QED
  BY <1>1, <1>2, <1>3, <1>4, <1>5, <1>6, <1>7, <1>8, <1>9, <1>10, <1>11, <1>12
  DEF Next, OwnerStep

LEMMA InitUse == UseInit => UseInv
<1> SUFFICES ASSUME UseInit PROVE UseInv
  OBVIOUS
<1>1. ServerInv /\ Init
  BY InitInv DEF UseInit
<1>2. /\ pc["owner"] = "idle" /\ pc["loop"] = "idle" /\ cur["loop"] = None /\ done = "none"
      /\ \A a \in Acceptors :
           /\ pending[a] = 0 /\ accepting[a] = Inactive
           /\ accOpen[a] <=> a \in acceptors
  BY <1>1 DEF Init
<1>3. StartsIdle
  BY <1>2 DEF StartsIdle, AccLabels
<1>4. Bound
  BY <1>1, <1>2, TriggerActive DEF Bound, AccLabels, ServerInv, Types
<1>5. Disarmed
  BY <1>2, TriggerActive DEF Disarmed
<1>6. ClosesAll
  BY <1>1, <1>2 DEF ClosesAll, Settled, Taken
<1>7. QED
  BY <1>1, <1>3, <1>4, <1>5, <1>6 DEF UseInv, ProperInv

LEMMA NextUse == UseInv /\ [UseNext]_<<vars, history>> => UseInv'
<1> SUFFICES ASSUME UseInv, [UseNext]_<<vars, history>> PROVE UseInv'
  OBVIOUS
<1>1. [Next]_vars
  BY DEF UseNext
<1>2. ServerInv /\ ServerInv'
  BY <1>1, NextInv DEF UseInv
<1>3. ASSUME proper' PROVE ProperInv'
  <2>1. CASE UseNext
    <3>1. ProperInv /\ (Start => Idle) /\ (ReConnect => halted)
      BY <1>3, <2>1 DEF UseNext, UseInv
    <3>2. QED
      BY <1>1, <1>2, <3>1, NextStartsIdle, NextBound, NextDisarmed, NextClosesAll DEF ProperInv
  <2>2. CASE UNCHANGED <<vars, history>>
    <3>1. ProperInv
      BY <1>3, <2>2 DEF UseInv, history
    <3>2. ~Start /\ ~ReConnect
      BY <1>2, <2>2 DEF Start, ReConnect, vars, ServerInv, Types
    <3>3. QED
      BY <1>1, <1>2, <3>1, <3>2, NextStartsIdle, NextBound, NextDisarmed, NextClosesAll
      DEF ProperInv
  <2>3. QED BY <2>1, <2>2
<1>4. QED
  BY <1>2, <1>3 DEF UseInv

\* A server that is started only while it accepts nothing, and reconnected only
\* while it is halted, is quiet once close has returned: no connection is left,
\* no accept is outstanding, no data callback can come.
THEOREM ClosesProperly == UseSpec => []ProperClose
<1>1. UseInv => ProperClose
  BY DEF UseInv, ProperInv, ProperClose, ClosedMeansQuiet, ServerInv, Closed, Handed, ClosesAll,
         Settled
<1>2. QED
  BY InitUse, NextUse, <1>1, PTL DEF UseSpec

===========================================================================
