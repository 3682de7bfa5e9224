---------------------- MODULE AsioContextLoop_proofs ----------------------
(***************************************************************************)
(* Theorems about AsioContextLoop for any sets of threads, closers, tasks. *)
(***************************************************************************)
EXTENDS MC_AsioContextLoop, FiniteSetTheorems, TLAPS

\* What the loop thread does, whether or not a handler throws.
TaskStep(k) == LoopStep(k) \/ HandlerThrows(k)

USE LoopAssumption DEF LoopAssumption, ctx, own

-----------------------------------------------------------------------------
(* Types                                                                   *)

LEMMA InitType == Init => TypeOK
<1> SUFFICES ASSUME Init PROVE TypeOK
  OBVIOUS
<1>1. task \in [Tasks -> TaskStates] /\ pc \in [Threads -> Labels]
  BY DEF Init, TaskStates, Labels
<1>2. local \in [Threads -> Tasks \cup {NoTask}]
  BY DEF Init
<1>3. handle \in [Threads -> BOOLEAN]
  BY DEF Init
<1>4. \A t \in Threads : local[t] # NoTask <=> At(t, "start.spawn")
  BY DEF Init, At
<1>5. runCounter \in Int /\ running \in {"stopped", "starting", "running"}
  BY DEF Init
<1>6. lock \in Threads \cup {NoThread} /\ loopRet \in Tasks \cup {NoTask}
  BY DEF Init
<1>7. /\ terminate \in BOOLEAN /\ nullwork \in BOOLEAN /\ stopped \in BOOLEAN
      /\ registered \in BOOLEAN
  BY Zenon DEF Init
<1>8. QED BY <1>1, <1>2, <1>3, <1>4, <1>5, <1>6, <1>7, Zenon DEF TypeOK

LEMMA BeginType ==
  ASSUME TypeOK, NEW t \in Threads, Begin(t)
  PROVE  TypeOK'
<1>1. CASE BeginStart(t)
  BY <1>1 DEF BeginStart, TypeOK, Labels, StartLabels, At, Goto, shared
<1>2. CASE BeginHalt(t)
  BY <1>2 DEF BeginHalt, TypeOK, Labels, HaltLabels, At, Goto, shared
<1>3. CASE BeginClose(t)
  BY <1>3 DEF BeginClose, TypeOK, Labels, CloseLabels, At, Goto
<1>4. QED BY <1>1, <1>2, <1>3 DEF Begin

LEMMA StartType ==
  ASSUME TypeOK, NEW t \in Threads, StartStep(t)
  PROVE  TypeOK'
<1>1. CASE StartIncrement(t)
  BY <1>1 DEF StartIncrement, TypeOK, Labels, StartLabels, At, Goto
<1>2. CASE StartCas(t)
  BY <1>2 DEF StartCas, TypeOK, Labels, StartLabels, At, Goto
<1>3. CASE StartPublish(t)
  BY <1>3 DEF StartPublish, TypeOK, Labels, StartLabels, TaskStates, At, Goto
<1>4. CASE StartSpawn(t)
  BY <1>4 DEF StartSpawn, TypeOK, Labels, TaskStates, InLoop, At, Goto, shared
<1>5. CASE StartElse(t)
  <2>1. handle' \in [Threads -> BOOLEAN]
    BY <1>5, Zenon DEF StartElse, TypeOK
  <2>2. lock' \in Threads \cup {NoThread}
    BY <1>5, Zenon DEF StartElse, TypeOK
  <2>3. /\ pc[t] = "start.else"
        /\ \/ pc' = [pc EXCEPT ![t] = "idle"]
           \/ pc' = [pc EXCEPT ![t] = "start.get"]
           \/ pc' = [pc EXCEPT ![t] = "start.recas"]
    BY <1>5, Zenon DEF StartElse, At, Goto
  <2>4. /\ pc' \in [Threads -> Labels]
        /\ \A u \in Threads : local[u] # NoTask <=> pc'[u] = "start.spawn"
    BY <2>3, SMT DEF TypeOK, Labels, StartLabels, At
  <2>5. UNCHANGED <<runCounter, running, terminate, nullwork, stopped, loopRet,
                    registered, task, local>>
    BY <1>5, Zenon DEF StartElse, ctx
  <2>6. QED BY <2>1, <2>2, <2>4, <2>5, Zenon DEF TypeOK, At
<1>6. CASE StartGet(t)
  BY <1>6 DEF StartGet, TypeOK, Labels, StartLabels, At, Goto
<1>7. CASE StartRecas(t)
  <2>1. handle' \in [Threads -> BOOLEAN]
    BY <1>7, Zenon DEF StartRecas, TypeOK
  <2>2. running' \in {"stopped", "starting", "running"}
    BY <1>7, Zenon DEF StartRecas, TypeOK
  <2>3. /\ pc[t] = "start.recas"
        /\ \/ pc' = [pc EXCEPT ![t] = "idle"]
           \/ pc' = [pc EXCEPT ![t] = "start.publish"]
    BY <1>7, Zenon DEF StartRecas, At, Goto
  <2>4. /\ pc' \in [Threads -> Labels]
        /\ \A u \in Threads : local[u] # NoTask <=> pc'[u] = "start.spawn"
    BY <2>3, SMT DEF TypeOK, Labels, StartLabels, At
  <2>5. UNCHANGED <<runCounter, terminate, nullwork, stopped, lock, loopRet,
                    registered, task, local>>
    BY <1>7, Zenon DEF StartRecas, ctx
  <2>6. QED BY <2>1, <2>2, <2>4, <2>5, Zenon DEF TypeOK, At
<1>8. QED
  BY <1>1, <1>2, <1>3, <1>4, <1>5, <1>6, <1>7 DEF StartStep

LEMMA HaltType ==
  ASSUME TypeOK, NEW t \in Threads, HaltStep(t)
  PROVE  TypeOK'
<1>1. CASE HaltCheck(t)
  BY <1>1 DEF HaltCheck, TypeOK, Labels, HaltLabels, At, Goto, shared
<1>2. CASE HaltZero(t)
  BY <1>2 DEF HaltZero, TypeOK, Labels, At, Goto
<1>3. CASE HaltDecrement(t)
  BY <1>3 DEF HaltDecrement, TypeOK, Labels, HaltLabels, At, Goto
<1>4. CASE HaltLock(t)
  BY <1>4 DEF HaltLock, TypeOK, Labels, HaltLabels, At, Goto
<1>5. CASE HaltTerminate(t)
  BY <1>5 DEF HaltTerminate, TypeOK, Labels, HaltLabels, At, Goto
<1>6. CASE HaltStop(t)
  BY <1>6 DEF HaltStop, TypeOK, Labels, HaltLabels, At, Goto
<1>7. CASE HaltWait(t)
  BY <1>7 DEF HaltWait, TypeOK, Labels, HaltLabels, At, Goto
<1>8. CASE HaltThrows(t)
  BY <1>8 DEF HaltThrows, TypeOK, Labels, At, Goto
<1>9. CASE HaltReset(t)
  BY <1>9 DEF HaltReset, TypeOK, Labels, HaltLabels, At, Goto
<1>10. CASE HaltDone(t)
  BY <1>10 DEF HaltDone, TypeOK, Labels, At, Goto
<1>11. QED
  BY <1>1, <1>2, <1>3, <1>4, <1>5, <1>6, <1>7, <1>8, <1>9, <1>10
  DEF HaltStep

LEMMA CloseType ==
  ASSUME TypeOK, NEW t \in Threads, CloseStep(t)
  PROVE  TypeOK'
<1>1. CASE CloseCheck(t)
  BY <1>1 DEF CloseCheck, TypeOK, Labels, CloseLabels, At, Goto, shared
<1>2. CASE CloseStop(t)
  BY <1>2 DEF CloseStop, TypeOK, Labels, CloseLabels, At, Goto
<1>3. CASE CloseGet(t)
  BY <1>3 DEF CloseGet, TypeOK, Labels, At, Goto
<1>4. QED BY <1>1, <1>2, <1>3 DEF CloseStep

LEMMA TaskType ==
  ASSUME TypeOK, NEW k \in Tasks, TaskStep(k)
  PROVE  TypeOK'
<1> USE DEF TypeOK, TaskStates, InLoop, At, LoopAt, LoopGoto, shared
<1>1. CASE LoopCount(k) BY <1>1 DEF LoopCount
<1>2. CASE LoopTerminate(k) BY <1>2 DEF LoopTerminate
<1>3. CASE LoopEnter(k) BY <1>3 DEF LoopEnter
<1>4. CASE LoopRunReturns(k) BY <1>4 DEF LoopRunReturns
<1>5. CASE HandlerThrows(k) BY <1>5 DEF HandlerThrows
<1>6. CASE LoopExit(k) BY <1>6 DEF LoopExit
<1>7. CASE LoopReturn(k) BY <1>7 DEF LoopReturn
<1>8. QED
  BY <1>1, <1>2, <1>3, <1>4, <1>5, <1>6, <1>7 DEF TaskStep, LoopStep

LEMMA StutterType == TypeOK /\ UNCHANGED vars => TypeOK'
  BY DEF TypeOK, At, vars, shared

\* The variables keep their types, and a task is held exactly by the threads
\* about to hand one over (the packaged_task of startContextLoop).
THEOREM TypeCorrect == Spec => []TypeOK
<1>1. TypeOK /\ [Next]_vars => TypeOK'
  BY BeginType, StartType, HaltType, CloseType, TaskType, StutterType
  DEF Next, CallStep, TaskStep
<1>2. QED BY <1>1, InitType, PTL DEF Spec

-----------------------------------------------------------------------------
(* The inductive invariant behind the safety properties                    *)

\* Between a successful compare-exchange on running and the creation of the
\* thread, the starting thread is the only one that may start a loop.
Claims(t) == pc[t] \in {"start.publish", "start.spawn"}

\* There is one permission to run the loop: it is held by the value "stopped"
\* of running, by the thread that has replaced it, or by the loop thread.
Token ==
  /\ \A t, u \in Threads : Claims(t) /\ Claims(u) => t = u
  /\ \A t \in Threads, k \in Tasks : Claims(t) => ~Live(k)
  /\ \A j, k \in Tasks : Live(j) /\ Live(k) => j = k
  /\ \A t \in Threads : Claims(t) => running = "starting"
  /\ \A k \in Tasks : Live(k) => running # "stopped"
  /\ \A k \in Tasks : task[k] = "created" =>
       \E t \in Threads : At(t, "start.spawn") /\ local[t] = k

\* loopRet is the future of the loop that runs or is about to.
Latest ==
  /\ \A k \in Tasks : Live(k) => loopRet = k
  /\ \A t \in Threads : At(t, "start.spawn") =>
       loopRet = local[t] /\ task[local[t]] = "created"

Holding == {"start.get", "halt.term", "halt.stop", "halt.wait", "halt.reset",
            "halt.done", "close.get"}
\* runningLoopLock is owned by the thread that is in a critical section.
Locked == \A t \in Threads : pc[t] \in Holding <=> lock = t

LoopInv == TypeOK /\ Token /\ Latest /\ Locked /\ ResetOnlyWhenQuiet

LEMMA InitInv == Init => LoopInv
<1> SUFFICES ASSUME Init PROVE LoopInv
  OBVIOUS
<1>1. TypeOK BY InitType
<1>2. (\A t \in Threads : pc[t] = "idle") /\ (\A k \in Tasks : task[k] = "none")
  BY DEF Init
<1>3. Token BY <1>2 DEF Token, Claims, Live, InLoop
<1>4. Latest BY <1>2 DEF Latest, Live, InLoop, At
<1>5. Locked BY <1>2 DEF Locked, Holding, Init
<1>6. ResetOnlyWhenQuiet BY <1>2 DEF ResetOnlyWhenQuiet, At
<1>7. QED BY <1>1, <1>3, <1>4, <1>5, <1>6 DEF LoopInv

LEMMA BeginInv ==
  ASSUME LoopInv, NEW t \in Threads, Begin(t)
  PROVE  LoopInv'
<1> USE DEF LoopInv, Token, Latest, Locked, ResetOnlyWhenQuiet, Claims, Live,
            InLoop, Holding, At, Goto
<1>1. TypeOK' BY BeginType
<1>2. CASE BeginStart(t) BY <1>1, <1>2 DEF BeginStart, TypeOK, shared
<1>3. CASE BeginHalt(t) BY <1>1, <1>3 DEF BeginHalt, TypeOK, shared
<1>4. CASE BeginClose(t) BY <1>1, <1>4 DEF BeginClose, TypeOK
<1>5. QED BY <1>2, <1>3, <1>4 DEF Begin

LEMMA StartInv ==
  ASSUME LoopInv, NEW t \in Threads, StartStep(t)
  PROVE  LoopInv'
<1> USE DEF LoopInv, Token, Latest, Locked, ResetOnlyWhenQuiet, Claims, Live,
            InLoop, Holding, At, Goto, TypeOK
<1>1. TypeOK' BY StartType
<1>2. CASE StartIncrement(t) BY <1>1, <1>2 DEF StartIncrement
<1>3. CASE StartCas(t) BY <1>1, <1>3 DEF StartCas
<1>4. CASE StartPublish(t) BY <1>1, <1>4 DEF StartPublish, FreshTask, Free
<1>5. CASE StartSpawn(t) BY <1>1, <1>5 DEF StartSpawn, shared
<1>6. CASE StartElse(t) BY <1>1, <1>6 DEF StartElse, Free
<1>7. CASE StartGet(t) BY <1>1, <1>7 DEF StartGet, Ready
<1>8. CASE StartRecas(t) BY <1>1, <1>8 DEF StartRecas
<1>9. QED
  BY <1>2, <1>3, <1>4, <1>5, <1>6, <1>7, <1>8 DEF StartStep

LEMMA HaltInv ==
  ASSUME LoopInv, NEW t \in Threads, HaltStep(t)
  PROVE  LoopInv'
<1> USE DEF LoopInv, Token, Latest, Locked, ResetOnlyWhenQuiet, Claims, Live,
            InLoop, Holding, At, Goto, TypeOK
<1>1. TypeOK' BY HaltType
<1>2. CASE HaltCheck(t) BY <1>1, <1>2 DEF HaltCheck, shared
<1>3. CASE HaltZero(t) BY <1>1, <1>3 DEF HaltZero
<1>4. CASE HaltDecrement(t) BY <1>1, <1>4 DEF HaltDecrement
<1>5. CASE HaltLock(t) BY <1>1, <1>5 DEF HaltLock, Free
<1>6. CASE HaltTerminate(t) BY <1>1, <1>6 DEF HaltTerminate
<1>7. CASE HaltStop(t) BY <1>1, <1>7 DEF HaltStop
<1>8. CASE HaltWait(t) BY <1>1, <1>8 DEF HaltWait, Ready
<1>9. CASE HaltThrows(t) BY <1>1, <1>9 DEF HaltThrows
<1>10. CASE HaltReset(t) BY <1>1, <1>10 DEF HaltReset
<1>11. CASE HaltDone(t) BY <1>1, <1>11 DEF HaltDone
<1>12. QED
  BY <1>2, <1>3, <1>4, <1>5, <1>6, <1>7, <1>8, <1>9, <1>10, <1>11
  DEF HaltStep

LEMMA CloseInv ==
  ASSUME LoopInv, NEW t \in Threads, CloseStep(t)
  PROVE  LoopInv'
<1> USE DEF LoopInv, Token, Latest, Locked, ResetOnlyWhenQuiet, Claims, Live,
            InLoop, Holding, At, Goto, TypeOK
<1>1. TypeOK' BY CloseType
<1>2. CASE CloseCheck(t) BY <1>1, <1>2 DEF CloseCheck, shared
<1>3. CASE CloseStop(t) BY <1>1, <1>3 DEF CloseStop, Free
<1>4. CASE CloseGet(t) BY <1>1, <1>4 DEF CloseGet, Ready
<1>5. QED BY <1>2, <1>3, <1>4 DEF CloseStep

LEMMA TaskInv ==
  ASSUME LoopInv, NEW k \in Tasks, TaskStep(k)
  PROVE  LoopInv'
<1> USE DEF LoopInv, Token, Latest, Locked, ResetOnlyWhenQuiet, Claims, Live,
            InLoop, Holding, At, Goto, TypeOK
<1> USE DEF LoopAt, LoopGoto, shared
<1>1. TypeOK' BY TaskType DEF TaskStep
<1>2. CASE LoopCount(k) BY <1>1, <1>2 DEF LoopCount
<1>3. CASE LoopTerminate(k) BY <1>1, <1>3 DEF LoopTerminate
<1>4. CASE LoopEnter(k) BY <1>1, <1>4 DEF LoopEnter
<1>5. CASE LoopRunReturns(k) BY <1>1, <1>5 DEF LoopRunReturns
<1>6. CASE HandlerThrows(k) BY <1>1, <1>6 DEF HandlerThrows
<1>7. CASE LoopExit(k) BY <1>1, <1>7 DEF LoopExit
<1>8. CASE LoopReturn(k) BY <1>1, <1>8 DEF LoopReturn
<1>9. QED
  BY <1>2, <1>3, <1>4, <1>5, <1>6, <1>7, <1>8 DEF TaskStep, LoopStep

LEMMA StutterInv == LoopInv /\ UNCHANGED vars => LoopInv'
  BY StutterType DEF LoopInv, Token, Latest, Locked, ResetOnlyWhenQuiet, Claims,
     Live, At, vars, shared

THEOREM Invariant == Spec => []LoopInv
<1>1. LoopInv /\ [Next]_vars => LoopInv'
  BY BeginInv, StartInv, HaltInv, CloseInv, TaskInv, StutterInv
  DEF Next, CallStep, TaskStep
<1>2. QED BY <1>1, InitInv, PTL DEF Spec

\* At most one thread runs contextProcessingLoop or is about to, however the
\* calls of startContextLoop, haltContextLoop and closeContext interleave.
THEOREM AtMostOneLoop == Spec => []SingleLoop
<1>1. LoopInv => SingleLoop
  BY DEF LoopInv, Token, SingleLoop, Claims, At
<1>2. QED BY <1>1, Invariant, PTL

\* haltContextLoop calls io_context::reset() only when no thread is in run()
\* or can get there.
THEOREM ResetIsSafe == Spec => []ResetOnlyWhenQuiet
<1>1. LoopInv => ResetOnlyWhenQuiet
  BY DEF LoopInv
<1>2. QED BY <1>1, Invariant, PTL

-----------------------------------------------------------------------------
(* Refinement of LoopLifecycle                                             *)

AbsVars == <<running, LiveTasks>>
AbsStep == [Lifecycle!Next]_AbsVars

LEMMA SameTasks == task' = task => LiveTasks' = LiveTasks
  BY DEF LiveTasks, Live

LEMMA BeginRefines ==
  ASSUME NEW t \in Threads, Begin(t)
  PROVE  UNCHANGED AbsVars
  BY SameTasks
  DEF Begin, BeginStart, BeginHalt, BeginClose, shared, AbsVars

LEMMA StartRefines ==
  ASSUME LoopInv, NEW t \in Threads, StartStep(t)
  PROVE  AbsStep
<1> USE DEF AbsStep, AbsVars
<1>1. CASE StartIncrement(t) BY <1>1, SameTasks DEF StartIncrement
<1>2. CASE StartCas(t)
  <2>1. CASE running = "stopped"
    <3>1. LiveTasks = {}
      BY <2>1 DEF LoopInv, Token, LiveTasks
    <3>2. Lifecycle!Claim
      BY <1>2, <2>1, <3>1, SameTasks DEF StartCas, Lifecycle!Claim
    <3>3. QED BY <3>2 DEF Lifecycle!Next
  <2>2. CASE running # "stopped" BY <1>2, <2>2, SameTasks DEF StartCas
  <2>3. QED BY <2>1, <2>2
<1>3. CASE StartPublish(t)
  <2>1. \A k \in Tasks : Live(k)' <=> Live(k)
    BY <1>3 DEF StartPublish, FreshTask, Live, InLoop, LoopInv, TypeOK
  <2>2. LiveTasks' = LiveTasks BY <2>1 DEF LiveTasks
  <2>3. QED BY <1>3, <2>2 DEF StartPublish
<1>4. CASE StartSpawn(t)
  <2>1. Claims(t) /\ local[t] \in Tasks
    BY <1>4 DEF StartSpawn, Claims, At, LoopInv, TypeOK
  <2>2. running = "starting" /\ LiveTasks = {}
    BY <2>1 DEF LoopInv, Token, LiveTasks
  <2>3. LiveTasks' = {local[t]}
    BY <1>4, <2>1, <2>2
    DEF StartSpawn, LiveTasks, Live, InLoop, LoopInv, TypeOK
  <2>4. Lifecycle!Spawn(local[t])
    BY <1>4, <2>2, <2>3 DEF StartSpawn, Lifecycle!Spawn, shared
  <2>5. QED BY <2>1, <2>4 DEF Lifecycle!Next
<1>5. CASE StartElse(t) BY <1>5, SameTasks DEF StartElse
<1>6. CASE StartGet(t) BY <1>6, SameTasks DEF StartGet
<1>7. CASE StartRecas(t)
  <2>1. CASE running = "stopped"
    <3>1. LiveTasks = {}
      BY <2>1 DEF LoopInv, Token, LiveTasks
    <3>2. Lifecycle!Claim
      BY <1>7, <2>1, <3>1, SameTasks DEF StartRecas, Lifecycle!Claim
    <3>3. QED BY <3>2 DEF Lifecycle!Next
  <2>2. CASE running # "stopped" BY <1>7, <2>2, SameTasks DEF StartRecas
  <2>3. QED BY <2>1, <2>2
<1>8. QED
  BY <1>1, <1>2, <1>3, <1>4, <1>5, <1>6, <1>7 DEF StartStep

LEMMA HaltRefines ==
  ASSUME NEW t \in Threads, HaltStep(t) \/ CloseStep(t)
  PROVE  UNCHANGED AbsVars
  BY SameTasks
  DEF HaltStep, HaltCheck, HaltZero, HaltDecrement, HaltLock, HaltTerminate,
      HaltStop, HaltWait, HaltThrows, HaltReset, HaltDone, CloseStep,
      CloseCheck, CloseStop, CloseGet, shared, AbsVars

LEMMA TaskRefines ==
  ASSUME LoopInv, NEW k \in Tasks, TaskStep(k)
  PROVE  AbsStep
<1> USE DEF AbsStep, AbsVars, LoopAt, LoopGoto, shared
<1>1. task \in [Tasks -> TaskStates]
  BY DEF LoopInv, TypeOK
<1>2. ASSUME Live(k), task' = [task EXCEPT ![k] = "leaving"]
      PROVE  LiveTasks' = {} /\ LiveTasks # {}
  BY <1>1, <1>2 DEF LoopInv, Token, LiveTasks, Live, InLoop
<1>3. ASSUME NEW l \in InLoop, Live(k), task' = [task EXCEPT ![k] = l]
      PROVE  LiveTasks' = LiveTasks /\ LiveTasks # {}
  BY <1>1, <1>3 DEF LiveTasks, Live
<1>4. CASE LoopCount(k)
  BY <1>4, <1>3 DEF LoopCount, Live, InLoop
<1>5. CASE LoopTerminate(k)
  BY <1>5, <1>3 DEF LoopTerminate, Live, InLoop
<1>6. CASE LoopEnter(k)
  <2>1. LiveTasks' = LiveTasks /\ LiveTasks # {}
    BY <1>6, <1>3 DEF LoopEnter, Live, InLoop
  <2>2. Lifecycle!Announce
    BY <1>6, <2>1 DEF LoopEnter, Lifecycle!Announce
  <2>3. QED BY <2>2 DEF Lifecycle!Next
<1>7. CASE LoopRunReturns(k)
  BY <1>7, <1>3 DEF LoopRunReturns, Live, InLoop
<1>8. CASE HandlerThrows(k)
  BY <1>8, <1>3 DEF HandlerThrows, Live, InLoop
<1>9. CASE LoopExit(k)
  <2>1. LiveTasks' = {} /\ LiveTasks # {}
    BY <1>9, <1>2 DEF LoopExit, Live, InLoop
  <2>2. Lifecycle!Leave
    BY <1>9, <2>1 DEF LoopExit, Lifecycle!Leave
  <2>3. QED BY <2>2 DEF Lifecycle!Next
<1>10. CASE LoopReturn(k)
  <2>1. \A j \in Tasks : Live(j)' <=> Live(j)
    BY <1>1, <1>10 DEF LoopReturn, Live, InLoop
  <2>2. QED BY <1>10, <2>1 DEF LoopReturn, LiveTasks
<1>11. QED
  BY <1>4, <1>5, <1>6, <1>7, <1>8, <1>9, <1>10 DEF TaskStep, LoopStep

\* The manager implements the life cycle of a single loop: a loop is claimed
\* only when stopped, run by at most one thread, and stopped when that leaves.
THEOREM ImplementsLifecycle == Spec => LifecycleSpec
<1>1. Init => Lifecycle!Init
  BY DEF Init, Lifecycle!Init, LiveTasks, Live, InLoop
<1>2. LoopInv /\ [Next]_vars => AbsStep
  <2> SUFFICES ASSUME LoopInv, [Next]_vars PROVE AbsStep
    OBVIOUS
  <2>1. CASE Next
    BY <2>1, BeginRefines, StartRefines, HaltRefines, TaskRefines
    DEF Next, CallStep, TaskStep, AbsStep
  <2>2. CASE UNCHANGED vars
    BY <2>2, SameTasks DEF vars, shared, AbsStep, AbsVars
  <2>3. QED BY <2>1, <2>2
<1>3. QED
  BY <1>1, <1>2, Invariant, PTL
  DEF Spec, LifecycleSpec, Lifecycle!Spec, AbsStep, AbsVars

-----------------------------------------------------------------------------
(* The request counter                                                     *)

\* A thread inside startContextLoop or haltContextLoop owns no LoopHandle.
HandleIdle ==
  \A t \in Threads : pc[t] \in StartLabels \cup HaltLabels => ~handle[t]

CounterInv == TypeOK /\ HandleIdle /\ CounterAtMostRequests

Enters(t) == Requests' = Requests \cup {t}
Leaves(t) == Requests' = Requests \ {t}

LEMMA RequestsFinite ==
  /\ IsFiniteSet(Requests)
  /\ Cardinality(Requests) \in Nat
<1>1. IsFiniteSet(Requests)
  BY FS_Subset DEF Requests
<1>2. QED BY <1>1, FS_CardinalityType

\* One more request for one increment.
LEMMA EnterKeeps ==
  ASSUME CounterInv, NEW t \in Threads, t \notin Requests, Enters(t),
         runCounter' = runCounter + 1
  PROVE  CounterAtMostRequests'
<1>1. Cardinality(Requests') = Cardinality(Requests) + 1
  BY RequestsFinite, FS_AddElement DEF Enters
<1>2. QED
  BY <1>1, RequestsFinite DEF CounterInv, TypeOK, CounterAtMostRequests

\* One request less for one decrement.
LEMMA LeaveKeeps ==
  ASSUME CounterInv, NEW t \in Requests, Leaves(t),
         runCounter' = runCounter - 1
  PROVE  CounterAtMostRequests'
<1>1. Cardinality(Requests') = Cardinality(Requests) - 1
  BY RequestsFinite, FS_RemoveElement DEF Leaves
<1>2. QED
  BY <1>1, RequestsFinite DEF CounterInv, TypeOK, CounterAtMostRequests

LEMMA SameKeeps ==
  ASSUME CounterInv, Requests' = Requests, runCounter' = runCounter
  PROVE  CounterAtMostRequests'
  BY DEF CounterInv, CounterAtMostRequests

LEMMA BeginCounter ==
  ASSUME CounterInv, NEW t \in Threads, Begin(t)
  PROVE  CounterInv'
<1> USE DEF CounterInv, HandleIdle, At, Goto, StartLabels, HaltLabels,
            CloseLabels, shared
<1>1. TypeOK' BY BeginType
<1>2. HandleIdle'
  BY DEF Begin, BeginStart, BeginHalt, BeginClose, TypeOK
<1>3. Requests' = Requests
  BY DEF Begin, BeginStart, BeginHalt, BeginClose, TypeOK, Requests
<1>4. runCounter' = runCounter
  BY DEF Begin, BeginStart, BeginHalt, BeginClose
<1>5. QED BY <1>1, <1>2, <1>3, <1>4, SameKeeps

LEMMA StartCounter ==
  ASSUME CounterInv, NEW t \in Threads, StartStep(t)
  PROVE  CounterInv'
<1> USE DEF CounterInv, HandleIdle, At, Goto, StartLabels, HaltLabels
<1>1. TypeOK' BY StartType
<1>2. HandleIdle'
  BY DEF StartStep, StartIncrement, StartCas, StartPublish, StartSpawn,
     StartElse, StartGet, StartRecas, TypeOK, shared
<1>3. CASE StartIncrement(t)
  <2>1. t \notin Requests BY <1>3 DEF StartIncrement, Requests
  <2>2. Enters(t) BY <1>3 DEF StartIncrement, Enters, Requests, TypeOK
  <2>3. QED
    BY <1>1, <1>2, <1>3, <2>1, <2>2, EnterKeeps DEF StartIncrement
<1>4. CASE ~StartIncrement(t)
  <2>1. Requests' = Requests
    BY <1>4 DEF StartStep, StartCas, StartPublish, StartSpawn, StartElse,
       StartGet, StartRecas, TypeOK, Requests, shared
  <2>2. runCounter' = runCounter
    BY <1>4 DEF StartStep, StartCas, StartPublish, StartSpawn, StartElse,
       StartGet, StartRecas, shared
  <2>3. QED BY <1>1, <1>2, <2>1, <2>2, SameKeeps
<1>5. QED BY <1>3, <1>4

LEMMA HaltCounter ==
  ASSUME CounterInv, NEW t \in Threads, HaltStep(t)
  PROVE  CounterInv'
<1> USE DEF CounterInv, HandleIdle, At, Goto, StartLabels, HaltLabels
<1>1. TypeOK' BY HaltType
<1>2. HandleIdle'
  BY DEF HaltStep, HaltCheck, HaltZero, HaltDecrement, HaltLock,
     HaltTerminate, HaltStop, HaltWait, HaltThrows, HaltReset, HaltDone,
     TypeOK, shared
<1>3. CASE HaltZero(t)
  <2>1. runCounter' = 0 BY <1>3 DEF HaltZero
  <2>2. Cardinality(Requests') \in Nat
    <3>1. IsFiniteSet(Requests') BY FS_Subset DEF Requests
    <3>2. QED BY <3>1, FS_CardinalityType
  <2>3. QED BY <1>1, <1>2, <2>1, <2>2 DEF CounterAtMostRequests
<1>4. CASE HaltDecrement(t)
  <2>1. t \in Requests BY <1>4 DEF HaltDecrement, Requests
  <2>2. Leaves(t) BY <1>4 DEF HaltDecrement, Leaves, Requests, TypeOK
  <2>3. QED
    BY <1>1, <1>2, <1>4, <2>1, <2>2, LeaveKeeps DEF HaltDecrement
<1>5. CASE ~HaltZero(t) /\ ~HaltDecrement(t)
  <2>1. Requests' = Requests
    BY <1>5 DEF HaltStep, HaltCheck, HaltLock, HaltTerminate, HaltStop,
       HaltWait, HaltThrows, HaltReset, HaltDone, TypeOK, Requests, shared
  <2>2. runCounter' = runCounter
    BY <1>5 DEF HaltStep, HaltCheck, HaltLock, HaltTerminate, HaltStop,
       HaltWait, HaltThrows, HaltReset, HaltDone, shared
  <2>3. QED BY <1>1, <1>2, <2>1, <2>2, SameKeeps
<1>6. QED BY <1>3, <1>4, <1>5

LEMMA CloseCounter ==
  ASSUME CounterInv, NEW t \in Threads, CloseStep(t)
  PROVE  CounterInv'
<1> USE DEF CounterInv, HandleIdle, At, Goto, StartLabels, HaltLabels,
            CloseStep, CloseCheck, CloseStop, CloseGet, shared
<1>1. TypeOK' BY CloseType
<1>2. HandleIdle' BY DEF TypeOK
<1>3. Requests' = Requests BY DEF TypeOK, Requests
<1>4. runCounter' = runCounter OBVIOUS
<1>5. QED BY <1>1, <1>2, <1>3, <1>4, SameKeeps

LEMMA TaskCounter ==
  ASSUME CounterInv, NEW k \in Tasks, TaskStep(k)
  PROVE  CounterInv'
<1>1. UNCHANGED <<runCounter, pc, handle>>
  BY DEF TaskStep, LoopStep, LoopCount, LoopTerminate, LoopEnter,
     LoopRunReturns, HandlerThrows, LoopExit, LoopReturn, shared
<1>2. Requests' = Requests BY <1>1 DEF Requests
<1>3. QED
  BY <1>1, <1>2, TaskType, SameKeeps DEF CounterInv, HandleIdle

LEMMA InitCounter == Init => CounterInv
<1> SUFFICES ASSUME Init PROVE CounterInv
  OBVIOUS
<1>1. TypeOK BY InitType
<1>2. HandleIdle BY DEF Init, HandleIdle
<1>3. CounterAtMostRequests
  BY RequestsFinite DEF Init, CounterAtMostRequests
<1>4. QED BY <1>1, <1>2, <1>3 DEF CounterInv

LEMMA NextCounter == CounterInv /\ [Next]_vars => CounterInv'
<1> SUFFICES ASSUME CounterInv, [Next]_vars PROVE CounterInv'
  OBVIOUS
<1>1. CASE Next
  BY <1>1, BeginCounter, StartCounter, HaltCounter, CloseCounter, TaskCounter
  DEF Next, CallStep, TaskStep
<1>2. CASE UNCHANGED vars
  <2>1. Requests' = Requests BY <1>2 DEF vars, Requests
  <2>2. QED
    BY <1>2, <2>1, StutterType, SameKeeps
    DEF CounterInv, HandleIdle, vars, shared
<1>3. QED BY <1>1, <1>2

\* runCounter never exceeds the requests for the loop that are still open.
THEOREM CounterBounded == Spec => []CounterAtMostRequests
<1>1. CounterInv => CounterAtMostRequests BY DEF CounterInv
<1>2. QED BY <1>1, InitCounter, NextCounter, PTL DEF Spec

-----------------------------------------------------------------------------
(* The future, for programs that never close the context                   *)

\* Nobody is in closeContext; the context is stopped only inside a critical
\* section of haltContextLoop, and the work guard and the future come and go
\* together.
FutureInv ==
  /\ LoopInv
  /\ \A t \in Threads :
       pc[t] \notin CloseLabels \cup {"start.get", "start.recas"}
  /\ stopped => \E t \in Threads : pc[t] \in {"halt.wait", "halt.reset"}
  /\ nullwork => loopRet # NoTask
  /\ \A t \in Threads :
       /\ pc[t] \in {"halt.term", "halt.stop"} => nullwork
       /\ pc[t] = "halt.wait" => ~nullwork /\ loopRet # NoTask
       /\ pc[t] \in {"halt.reset", "halt.done"} => ~nullwork

LEMMA FutureStart ==
  ASSUME FutureInv, NEW t \in Threads, StartStep(t)
  PROVE  FutureInv'
<1> USE DEF FutureInv, LoopInv, TypeOK, Locked, Holding, CloseLabels, At, Goto
<1>1. LoopInv' BY StartInv
<1>2. CASE StartIncrement(t) BY <1>1, <1>2 DEF StartIncrement
<1>3. CASE StartCas(t) BY <1>1, <1>3 DEF StartCas
<1>4. CASE StartPublish(t) BY <1>1, <1>4 DEF StartPublish, Free
<1>5. CASE StartSpawn(t) BY <1>1, <1>5 DEF StartSpawn, shared
<1>6. CASE StartElse(t) BY <1>1, <1>6 DEF StartElse, Free
<1>7. QED
  BY <1>2, <1>3, <1>4, <1>5, <1>6 DEF StartStep, StartGet, StartRecas

LEMMA FutureHalt ==
  ASSUME FutureInv, NEW t \in Threads, HaltStep(t)
  PROVE  FutureInv'
<1> USE DEF FutureInv, LoopInv, TypeOK, Locked, Holding, CloseLabels, At, Goto
<1>1. LoopInv' BY HaltInv
<1>2. CASE HaltCheck(t) BY <1>1, <1>2 DEF HaltCheck, shared
<1>3. CASE HaltZero(t) BY <1>1, <1>3 DEF HaltZero
<1>4. CASE HaltDecrement(t) BY <1>1, <1>4 DEF HaltDecrement
<1>5. CASE HaltLock(t) BY <1>1, <1>5 DEF HaltLock, Free
<1>6. CASE HaltTerminate(t) BY <1>1, <1>6 DEF HaltTerminate
<1>7. CASE HaltStop(t) BY <1>1, <1>7 DEF HaltStop
<1>8. CASE HaltWait(t) BY <1>1, <1>8 DEF HaltWait
<1>9. CASE HaltReset(t) BY <1>1, <1>9 DEF HaltReset
<1>10. CASE HaltDone(t) BY <1>1, <1>10 DEF HaltDone
<1>11. QED
  BY <1>2, <1>3, <1>4, <1>5, <1>6, <1>7, <1>8, <1>9, <1>10
  DEF HaltStep, HaltThrows

LEMMA InitFuture == Init => FutureInv
<1> SUFFICES ASSUME Init PROVE FutureInv
  OBVIOUS
<1>1. LoopInv BY InitInv
<1>2. \A t \in Threads : pc[t] = "idle" BY DEF Init
<1>3. ~stopped /\ ~nullwork BY DEF Init
<1>4. QED BY <1>1, <1>2, <1>3 DEF FutureInv, CloseLabels

LEMMA NextFuture ==
  ASSUME Closers = {}
  PROVE  FutureInv /\ [Next]_vars => FutureInv'
<1> SUFFICES ASSUME FutureInv, [Next]_vars PROVE FutureInv'
  OBVIOUS
<1> USE DEF FutureInv, CloseLabels
<1>1. ASSUME NEW t \in Threads, Begin(t) PROVE FutureInv'
  <2>1. LoopInv' BY <1>1, BeginInv
  <2>2. CASE BeginStart(t)
    BY <2>1, <2>2 DEF BeginStart, LoopInv, TypeOK, At, Goto, shared
  <2>3. CASE BeginHalt(t)
    BY <2>1, <2>3 DEF BeginHalt, LoopInv, TypeOK, At, Goto, shared
  <2>4. QED BY <1>1, <2>2, <2>3 DEF Begin, BeginClose
<1>2. ASSUME NEW t \in Threads, CloseStep(t) PROVE FutureInv'
  BY <1>2 DEF CloseStep, CloseCheck, CloseStop, CloseGet, At
<1>3. ASSUME NEW k \in Tasks, TaskStep(k) PROVE FutureInv'
  <2>1. LoopInv' BY <1>3, TaskInv DEF FutureInv
  <2>2. UNCHANGED <<pc, stopped, nullwork, loopRet>>
    BY <1>3 DEF TaskStep, LoopStep, LoopCount, LoopTerminate, LoopEnter,
       LoopRunReturns, HandlerThrows, LoopExit, LoopReturn, shared
  <2>3. QED BY <2>1, <2>2
<1>4. CASE UNCHANGED vars
  BY <1>4, StutterInv DEF vars, shared
<1>5. QED
  BY <1>1, <1>2, <1>3, <1>4, FutureStart, FutureHalt
  DEF Next, CallStep, TaskStep

\* When no thread closes the context, haltContextLoop always waits on a valid
\* future.
THEOREM HaltFutureValid ==
  ASSUME Closers = {}
  PROVE  Spec => []FutureValid
<1>1. FutureInv => FutureValid BY DEF FutureInv, FutureValid, At
<1>2. QED BY <1>1, InitFuture, NextFuture, PTL DEF Spec

-----------------------------------------------------------------------------
(* Starts and halts that do not overlap, in programs that never close      *)

\* The requests that runCounter counts
Counted ==
  {t \in Threads : \/ handle[t]
                   \/ pc[t] \in StartLabels \ {"start.inc"}
                   \/ pc[t] \in {"halt.check", "halt.dec"}}

Halting(t) == pc[t] \in HaltLabels
\* The thread whose decrement has brought runCounter to 0 stops the loop.
Stopping(t) == pc[t] \in HaltLabels \ {"halt.check", "halt.zero", "halt.dec"}

\* The counter is exact, and nobody overwrites it.
Exact ==
  /\ runCounter = Cardinality(Counted)
  /\ \A t \in Threads : pc[t] # "halt.zero"

\* The loop is up for whoever has found it up, and leaves for nobody else.
Served ==
  /\ \A t \in Threads :
       handle[t] \/ pc[t] \in {"start.else", "halt.check", "halt.dec"} => running # "stopped"
  /\ running # "stopped" =>
       /\ (\E t \in Threads : Claims(t)) \/ (\E k \in Tasks : Live(k))
       /\ nullwork \/ \E t \in Threads : pc[t] \in {"start.publish", "halt.wait"}
  /\ \A k \in Tasks : task[k] = "exit" => Counted = {}

\* One thread stops the loop, when no request is left and before one is made.
Stopped ==
  /\ terminate => \E t \in Threads : Stopping(t)
  /\ \A t, u \in Threads : Stopping(t) /\ Stopping(u) => t = u
  /\ \A t \in Threads :
       /\ Stopping(t) => Counted = {}
       /\ pc[t] = "halt.lock" => nullwork
       /\ pc[t] \in {"halt.reset", "halt.done"} => running = "stopped"
  /\ Counted = {} /\ (\A t \in Threads : ~Halting(t)) => running = "stopped"

PhasedInv == FutureInv /\ CounterInv /\ (phased => Phased /\ Exact /\ Served /\ Stopped)

Apart == FutureInv /\ HandleIdle /\ Phased /\ Exact /\ Served /\ Stopped

LEMMA CountedFinite ==
  /\ IsFiniteSet(Counted) /\ Cardinality(Counted) \in Nat
  /\ Cardinality(Counted) = 0 <=> Counted = {}
<1>1. IsFiniteSet(Counted)
  BY FS_Subset DEF Counted
<1>2. QED BY <1>1, FS_CardinalityType, FS_EmptySet

LEMMA CountedGrows ==
  ASSUME NEW t, t \notin Counted
  PROVE  Cardinality(Counted \cup {t}) = Cardinality(Counted) + 1
  BY CountedFinite, FS_AddElement

LEMMA PhasedStart ==
  ASSUME Apart, Phased', FutureInv', NEW t \in Threads, StartStep(t)
  PROVE  Exact' /\ Served' /\ Stopped'
<1> USE DEF Apart, FutureInv, LoopInv, TypeOK, Token, Claims, HandleIdle, Phased, Exact, Served,
            Stopped, Halting, Stopping, Live, InLoop, At, Goto, StartLabels, HaltLabels
<1>1. CASE StartIncrement(t)
  <2>1. t \notin Counted /\ Counted' = Counted \cup {t}
    BY <1>1 DEF StartIncrement, Counted
  <2>2. Exact'
    <3>1. Cardinality(Counted') = Cardinality(Counted) + 1
      BY <2>1, CountedGrows
    <3>2. runCounter' = runCounter + 1 /\ \A u \in Threads : pc'[u] # "halt.zero"
      BY <1>1 DEF StartIncrement
    <3>3. QED BY <3>1, <3>2
  <2>3. Served' /\ Stopped'
    BY <1>1, <2>1 DEF StartIncrement
  <2>4. QED BY <2>2, <2>3
<1>2. CASE ~StartIncrement(t)
  <2>1. Counted' = Counted /\ runCounter' = runCounter /\ Counted # {}
    BY <1>2 DEF StartStep, StartCas, StartPublish, StartSpawn, StartElse,
       StartGet, StartRecas, Counted, shared
  <2>2. Exact'
    BY <1>2, <2>1 DEF StartStep, StartCas, StartPublish, StartSpawn, StartElse,
       StartGet, StartRecas, shared
  <2> HIDE DEF Exact
  <2>3. CASE StartCas(t) BY <2>1, <2>2, <2>3 DEF StartCas
  <2>4. CASE StartPublish(t) BY <2>1, <2>2, <2>4 DEF StartPublish, FreshTask
  <2>5. CASE StartSpawn(t) BY <2>1, <2>2, <2>5 DEF StartSpawn, shared
  <2>6. CASE StartElse(t) BY <2>1, <2>2, <2>6 DEF StartElse
  <2>7. QED
    BY <1>2, <2>3, <2>4, <2>5, <2>6 DEF StartStep, StartGet, StartRecas, CloseLabels
<1>3. QED BY <1>1, <1>2

LEMMA PhasedHalt ==
  ASSUME Apart, Phased', FutureInv', NEW t \in Threads, HaltStep(t)
  PROVE  Exact' /\ Served' /\ Stopped'
<1> USE DEF Apart, FutureInv, LoopInv, TypeOK, Token, Claims, HandleIdle, Phased, Exact, Served,
            Stopped, Halting, Stopping, Live, InLoop, At, Goto, StartLabels, HaltLabels
<1>1. CASE HaltDecrement(t)
  <2>1. t \in Counted /\ Counted' = Counted \ {t}
    BY <1>1 DEF HaltDecrement, Counted
  <2>2. Exact'
    <3>1. /\ IsFiniteSet(Counted)
          /\ Cardinality(Counted \ {t}) = Cardinality(Counted) - 1
      BY <2>1, CountedFinite, FS_RemoveElement, Zenon
    <3>2. runCounter' = runCounter - 1
      BY <1>1, Zenon DEF HaltDecrement
    <3>3. runCounter = Cardinality(Counted)
      BY Zenon
    <3>4. \A u \in Threads : pc'[u] # "halt.zero"
      BY <1>1, SMT DEF HaltDecrement
    <3>5. QED BY <2>1, <3>1, <3>2, <3>3, <3>4, Zenon
  <2>3. runCounter' <= 0 <=> Counted' = {}
    <3>1. IsFiniteSet(Counted') /\ Cardinality(Counted') \in Nat
      BY <2>1, CountedFinite, FS_RemoveElement, FS_CardinalityType
    <3>2. QED BY <2>2, <3>1, FS_EmptySet
  <2>4. nullwork
    BY <1>1, <2>1 DEF HaltDecrement
  <2> HIDE DEF Exact
  <2>5. Served' /\ Stopped'
    BY <1>1, <2>1, <2>3, <2>4 DEF HaltDecrement
  <2>6. QED BY <2>2, <2>5
<1>2. CASE ~HaltDecrement(t)
  <2>1. Counted' = Counted /\ runCounter' = runCounter
    BY <1>2 DEF HaltStep, HaltCheck, HaltZero, HaltLock, HaltTerminate, HaltStop,
       HaltWait, HaltThrows, HaltReset, HaltDone, Counted, shared
  <2>2. Exact'
    BY <1>2, <2>1 DEF HaltStep, HaltCheck, HaltZero, HaltLock, HaltTerminate, HaltStop,
       HaltWait, HaltThrows, HaltReset, HaltDone, shared
  <2>0. runCounter <= 0 <=> Counted = {}
    BY CountedFinite
  <2> HIDE DEF Exact
  <2>3. CASE HaltCheck(t) BY <2>1, <2>2, <2>3 DEF HaltCheck, shared
  <2>4. CASE HaltLock(t) BY <2>0, <2>1, <2>2, <2>4 DEF HaltLock
  <2>5. CASE HaltTerminate(t) BY <2>1, <2>2, <2>5 DEF HaltTerminate
  <2>6. CASE HaltStop(t) BY <2>1, <2>2, <2>6 DEF HaltStop
  <2>7. CASE HaltWait(t) BY <2>1, <2>2, <2>7 DEF HaltWait, Ready, Latest
  <2>8. CASE HaltReset(t) BY <2>1, <2>2, <2>8 DEF HaltReset
  <2>9. CASE HaltDone(t) BY <2>1, <2>2, <2>9 DEF HaltDone
  <2>10. ~HaltThrows(t) /\ ~HaltZero(t) BY DEF HaltThrows, HaltZero, Exact
  <2>11. QED
    BY <1>2, <2>3, <2>4, <2>5, <2>6, <2>7, <2>8, <2>9, <2>10 DEF HaltStep
<1>3. QED BY <1>1, <1>2

LEMMA PhasedTask ==
  ASSUME Apart, Phased', FutureInv', NEW k \in Tasks, TaskStep(k)
  PROVE  Exact' /\ Served' /\ Stopped'
<1> USE DEF Apart, FutureInv, LoopInv, TypeOK, Token, Claims, HandleIdle, Phased, Served,
            Stopped, Halting, Stopping, Live, InLoop, At, LoopAt, LoopGoto, shared
<1>1. UNCHANGED <<runCounter, pc, handle, nullwork, terminate>>
  BY DEF TaskStep, LoopStep, LoopCount, LoopTerminate, LoopEnter,
     LoopRunReturns, HandlerThrows, LoopExit, LoopReturn
<1>2. Counted' = Counted BY <1>1 DEF Counted
<1>3. Exact' BY <1>1, <1>2 DEF Exact
<1>4. runCounter > 0 <=> Counted # {}
  BY CountedFinite DEF Exact
<1>5. CASE LoopCount(k) BY <1>1, <1>2, <1>3, <1>4, <1>5 DEF LoopCount
<1>6. CASE LoopTerminate(k) BY <1>1, <1>2, <1>3, <1>6 DEF LoopTerminate
<1>7. CASE LoopEnter(k) BY <1>1, <1>2, <1>3, <1>7 DEF LoopEnter
<1>8. CASE LoopRunReturns(k) BY <1>1, <1>2, <1>3, <1>8 DEF LoopRunReturns
<1>9. CASE HandlerThrows(k) BY <1>1, <1>2, <1>3, <1>9 DEF HandlerThrows
<1>10. CASE LoopExit(k)
  <2>1. Counted = {} BY <1>10 DEF LoopExit
  <2>2. \A t \in Threads :
          ~handle[t] /\ pc[t] \notin {"start.else", "halt.check", "halt.dec"}
    BY <2>1 DEF Counted, StartLabels
  <2>3. QED BY <1>1, <1>2, <1>3, <1>10, <2>1, <2>2 DEF LoopExit
<1>11. CASE LoopReturn(k) BY <1>1, <1>2, <1>3, <1>11 DEF LoopReturn
<1>12. QED
  BY <1>5, <1>6, <1>7, <1>8, <1>9, <1>10, <1>11 DEF TaskStep, LoopStep

LEMMA PhasedBegin ==
  ASSUME Apart, Phased', NEW t \in Threads, Begin(t), Closers = {}
  PROVE  Exact' /\ Served' /\ Stopped'
<1> USE DEF Apart, FutureInv, LoopInv, TypeOK, Claims, HandleIdle, Phased, Served, Stopped,
            Halting, Stopping, Live, At, Goto, StartLabels, HaltLabels
<1>1. Counted' = Counted
  BY DEF Begin, BeginStart, BeginHalt, BeginClose, Counted, shared
<1>2. Exact'
  BY <1>1 DEF Begin, BeginStart, BeginHalt, BeginClose, Exact, shared
<1>3. CASE BeginStart(t) BY <1>1, <1>2, <1>3 DEF BeginStart, shared
<1>4. CASE BeginHalt(t)
  <2>1. Counted # {} BY <1>4 DEF BeginHalt, Counted
  <2>2. QED BY <1>1, <1>2, <1>4, <2>1 DEF BeginHalt, shared
<1>5. QED BY <1>3, <1>4 DEF Begin, BeginClose

LEMMA InitPhased == PhasedInit => PhasedInv
<1> SUFFICES ASSUME PhasedInit PROVE PhasedInv
  OBVIOUS
<1>1. FutureInv /\ CounterInv
  BY InitFuture, InitCounter DEF PhasedInit
<1>2. /\ \A t \in Threads : pc[t] = "idle" /\ ~handle[t]
      /\ runCounter = 0 /\ running = "stopped" /\ ~terminate
      /\ \A k \in Tasks : task[k] = "none"
  BY DEF PhasedInit, Init
<1>3. Counted = {}
  BY <1>2 DEF Counted, StartLabels
<1>4. Phased /\ Exact /\ Served /\ Stopped
  BY <1>2, <1>3, FS_EmptySet
  DEF Phased, Exact, Served, Stopped, Stopping, HaltLabels, StartLabels
<1>5. QED BY <1>1, <1>4 DEF PhasedInv

LEMMA NextPhased ==
  ASSUME Closers = {}
  PROVE  PhasedInv /\ [PhasedNext]_<<vars, phased>> => PhasedInv'
<1> SUFFICES ASSUME PhasedInv, [PhasedNext]_<<vars, phased>> PROVE PhasedInv'
  OBVIOUS
<1>1. [Next]_vars
  BY DEF PhasedNext
<1>2. FutureInv' /\ CounterInv'
  BY <1>1, NextFuture, NextCounter DEF PhasedInv
<1>3. ASSUME phased' PROVE Phased' /\ Exact' /\ Served' /\ Stopped'
  <2>1. CASE PhasedNext
    <3>1. Next /\ Phased' /\ Apart
      BY <1>3, <2>1 DEF PhasedNext, PhasedInv, Apart, CounterInv
    <3>2. QED
      BY <1>2, <3>1, PhasedBegin, PhasedStart, PhasedHalt, PhasedTask
      DEF Next, CallStep, TaskStep, CloseStep, CloseCheck, CloseStop, CloseGet, Apart,
          FutureInv, CloseLabels, At
  <2>2. CASE UNCHANGED <<vars, phased>>
    <3>1. Phased /\ Exact /\ Served /\ Stopped
      BY <1>3, <2>2 DEF PhasedInv
    <3>2. Counted' = Counted BY <2>2 DEF Counted, vars
    <3>3. QED
      BY <2>2, <3>1, <3>2
      DEF Phased, Exact, Served, Stopped, Stopping, Halting, Claims, Live, vars, shared
  <2>3. QED BY <2>1, <2>2
<1>4. QED BY <1>2, <1>3 DEF PhasedInv

\* In a program that never closes the context and keeps its starts and halts
\* apart, a LoopHandle means a loop, runCounter is the number of LoopHandles,
\* and the last one takes the loop with it.
THEOREM PhasedUseIsSafe ==
  ASSUME Closers = {}
  PROVE  PhasedSpec => []PhasedUse
<1>1. PhasedInv => PhasedUse
  <2> SUFFICES ASSUME PhasedInv, phased PROVE HandleMeansLoop /\ CounterIsHandles /\ NoOrphanLoop
    BY DEF PhasedUse
  <2>1. Exact /\ Served /\ Stopped /\ TypeOK /\ Token
    BY DEF PhasedInv, FutureInv, LoopInv
  <2>2. Quiet => Counted = Handles
    BY DEF Quiet, Counted, Handles, StartLabels, At
  <2>3. CounterIsHandles
    BY <2>1, <2>2 DEF CounterIsHandles, Exact
  <2>4. HandleMeansLoop
    BY <2>1 DEF HandleMeansLoop, Quiet, Handles, Served, Claims, At
  <2>5. NoOrphanLoop
    BY <2>1, <2>2
    DEF NoOrphanLoop, Quiet, Stopped, Halting, HaltLabels, Token, Live, InLoop, LoopAt, At
  <2>6. QED BY <2>3, <2>4, <2>5
<1>2. QED BY <1>1, InitPhased, NextPhased, PTL DEF PhasedSpec

===========================================================================
