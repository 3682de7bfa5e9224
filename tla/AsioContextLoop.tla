------------------------- MODULE AsioContextLoop -------------------------
(***************************************************************************)
(* AsioContextManager: one io_context, the detached thread that runs it,   *)
(* and the user threads that request the loop (startContextLoop), give the *)
(* request back (haltContextLoop, the destructor of a LoopHandle) or close *)
(* the context (closeContext).                                             *)
(*                                                                         *)
(* One step is one access to an atomic (runCounter, running,               *)
(* terminateLoop) or one stretch of code under runningLoopLock that waits  *)
(* for nothing; a thread that waits inside the critical section keeps      *)
(* `lock`.  A task is a packaged_task together with the thread that runs   *)
(* contextProcessingLoop, loopRet the future of the last one.              *)
(***************************************************************************)
EXTENDS Integers, FiniteSets

CONSTANTS Threads,   \* user threads that call the manager
          Closers,   \* those of them that may call closeContext
          Tasks,     \* identities for packaged tasks, reused once finished
          NoThread,  \* runningLoopLock is free
          NoTask     \* loopRet is not valid()

ASSUME LoopAssumption ==
  /\ Closers \subseteq Threads
  /\ NoThread \notin Threads
  /\ NoTask \notin Tasks
  /\ IsFiniteSet(Threads)

VARIABLES runCounter,  \* atomic<int>: requests for the loop
          running,     \* atomic<loop_mode>
          terminate,   \* atomic<bool> terminateLoop
          nullwork,    \* is the work guard that keeps run() going present
          stopped,     \* ictx->stopped()
          lock,        \* owner of runningLoopLock
          loopRet,     \* the future: its task, or NoTask
          task,        \* where each task is in contextProcessingLoop
          pc,          \* where each user thread is
          local,       \* the packaged_task a starting thread holds
          handle,      \* does the thread own a LoopHandle
          registered   \* the manager is in the contexts map

ctx == <<nullwork, stopped>>
own == <<task, local, handle>>
shared == <<runCounter, running, terminate, ctx, lock, loopRet, registered>>
vars == <<shared, own, pc>>

StartLabels == {"start.inc", "start.cas", "start.publish", "start.spawn",
                "start.else", "start.get", "start.recas"}
HaltLabels == {"halt.check", "halt.zero", "halt.dec", "halt.lock", "halt.term",
               "halt.stop", "halt.wait", "halt.reset", "halt.done"}
CloseLabels == {"close.check", "close.lock", "close.get"}
Labels == {"idle"} \cup StartLabels \cup HaltLabels \cup CloseLabels

\* "created": made but not yet handed to a thread; "leaving": running is
\* already stopped, the future not yet ready; "done": the future is ready
InLoop == {"while.count", "while.term", "enter", "run", "exit"}
TaskStates == {"none", "created", "leaving", "done"} \cup InLoop

Live(k) == task[k] \in InLoop

Init ==
  /\ runCounter = 0
  /\ running = "stopped"
  /\ terminate = FALSE
  /\ nullwork = FALSE
  /\ stopped = FALSE
  /\ lock = NoThread
  /\ loopRet = NoTask
  /\ task = [k \in Tasks |-> "none"]
  /\ pc = [t \in Threads |-> "idle"]
  /\ local = [t \in Threads |-> NoTask]
  /\ handle = [t \in Threads |-> FALSE]
  /\ registered = TRUE

-----------------------------------------------------------------------------
(* Program counters, the mutex and the future                              *)

At(t, l) == pc[t] = l
Goto(t, l) == pc' = [pc EXCEPT ![t] = l]
Free == lock = NoThread

\* get() and wait_for() return once the task's function has returned
Ready(k) == k # NoTask /\ task[k] = "done"
FreshTask(k) == task[k] \in {"none", "done"} /\ loopRet # k

-----------------------------------------------------------------------------
(* startContextLoop                                                        *)

BeginStart(t) ==
  /\ At(t, "idle")
  /\ ~handle[t]
  /\ Goto(t, "start.inc")
  /\ UNCHANGED <<shared, own>>

StartIncrement(t) ==
  /\ At(t, "start.inc")
  /\ runCounter' = runCounter + 1
  /\ Goto(t, "start.cas")
  /\ UNCHANGED <<running, terminate, ctx, lock, loopRet, registered, own>>

\* mutant: a load and a store where the code has a compare-exchange, so that
\* two threads can both go on to start a loop
StartCas_PlainStore(t) ==
  /\ At(t, "start.cas")
  /\ running' = "starting"
  /\ Goto(t, IF running = "running" THEN "start.else" ELSE "start.publish")
  /\ UNCHANGED <<runCounter, terminate, ctx, lock, loopRet, registered, own>>

\* running.compare_exchange_strong(stopped, starting)
StartCas(t) ==
  /\ At(t, "start.cas")
  /\ \/ /\ running = "stopped"
        /\ running' = "starting"
        /\ Goto(t, "start.publish")
     \/ /\ running # "stopped"
        /\ UNCHANGED running
        /\ Goto(t, "start.else")
  /\ UNCHANGED <<runCounter, terminate, ctx, lock, loopRet, registered, own>>

\* the critical section that installs the work guard and the future
StartPublish(t) ==
  /\ At(t, "start.publish")
  /\ Free
  /\ nullwork' = TRUE
  /\ \E k \in Tasks :
       /\ FreshTask(k)
       /\ loopRet' = k
       /\ local' = [local EXCEPT ![t] = k]
       /\ task' = [task EXCEPT ![k] = "created"]
  /\ Goto(t, "start.spawn")
  /\ UNCHANGED <<runCounter, running, terminate, stopped, lock, registered,
                 handle>>

\* mutant: the starting thread keeps the task it has handed over
StartSpawn_KeepsTask(t) ==
  /\ At(t, "start.spawn")
  /\ task' = [task EXCEPT ![local[t]] = "while.count"]
  /\ handle' = [handle EXCEPT ![t] = TRUE]
  /\ Goto(t, "idle")
  /\ UNCHANGED <<shared, local>>

\* the thread is created and detached, and the call returns a LoopHandle
StartSpawn(t) ==
  /\ At(t, "start.spawn")
  /\ task' = [task EXCEPT ![local[t]] = "while.count"]
  /\ local' = [local EXCEPT ![t] = NoTask]
  /\ handle' = [handle EXCEPT ![t] = TRUE]
  /\ Goto(t, "idle")
  /\ UNCHANGED shared

\* somebody else's loop: take the lock and look whether it is stopped
StartElse(t) ==
  /\ At(t, "start.else")
  /\ Free
  /\ \/ /\ ~stopped
        /\ handle' = [handle EXCEPT ![t] = TRUE]
        /\ Goto(t, "idle")
        /\ UNCHANGED lock
     \/ /\ stopped
        /\ loopRet # NoTask
        /\ lock' = t
        /\ Goto(t, "start.get")
        /\ UNCHANGED handle
     \/ /\ stopped
        /\ loopRet = NoTask
        /\ Goto(t, "start.recas")
        /\ UNCHANGED <<lock, handle>>
  /\ UNCHANGED <<runCounter, running, terminate, ctx, loopRet, registered,
                 task, local>>

\* loopRet.get() under the lock, then unlock
StartGet(t) ==
  /\ At(t, "start.get")
  /\ Ready(loopRet)
  /\ loopRet' = NoTask
  /\ lock' = NoThread
  /\ Goto(t, "start.recas")
  /\ UNCHANGED <<runCounter, running, terminate, ctx, registered, own>>

StartRecas(t) ==
  /\ At(t, "start.recas")
  /\ \/ /\ running = "stopped"
        /\ running' = "starting"
        /\ Goto(t, "start.publish")
        /\ UNCHANGED handle
     \/ /\ running # "stopped"
        /\ handle' = [handle EXCEPT ![t] = TRUE]
        /\ Goto(t, "idle")
        /\ UNCHANGED running
  /\ UNCHANGED <<runCounter, terminate, ctx, lock, loopRet, registered, task,
                 local>>

-----------------------------------------------------------------------------
(* haltContextLoop, run by the destructor of the LoopHandle                *)

BeginHalt(t) ==
  /\ At(t, "idle")
  /\ handle[t]
  /\ handle' = [handle EXCEPT ![t] = FALSE]
  /\ Goto(t, "halt.check")
  /\ UNCHANGED <<shared, task, local>>

HaltCheck(t) ==
  /\ At(t, "halt.check")
  /\ Goto(t, IF running # "stopped" THEN "halt.dec" ELSE "halt.zero")
  /\ UNCHANGED <<shared, own>>

\* mutant: the counter is left alone when the loop has already stopped
HaltZero_Leaks(t) ==
  /\ At(t, "halt.zero")
  /\ Goto(t, "idle")
  /\ UNCHANGED <<shared, own>>

HaltZero(t) ==
  /\ At(t, "halt.zero")
  /\ runCounter' = 0
  /\ Goto(t, "idle")
  /\ UNCHANGED <<running, terminate, ctx, lock, loopRet, registered, own>>

HaltDecrement(t) ==
  /\ At(t, "halt.dec")
  /\ runCounter' = runCounter - 1
  /\ Goto(t, IF runCounter' <= 0 THEN "halt.lock" ELSE "idle")
  /\ UNCHANGED <<running, terminate, ctx, lock, loopRet, registered, own>>

\* mutant: the work guard is not looked at under the lock
HaltLock_NoGuard(t) ==
  /\ At(t, "halt.lock")
  /\ Free
  /\ lock' = t
  /\ Goto(t, "halt.term")
  /\ UNCHANGED <<runCounter, running, terminate, ctx, loopRet, registered,
                 own>>

\* lock, read the counter again, look at the work guard
HaltLock(t) ==
  /\ At(t, "halt.lock")
  /\ Free
  /\ \/ /\ runCounter <= 0 /\ nullwork
        /\ lock' = t
        /\ Goto(t, "halt.term")
     \/ /\ ~(runCounter <= 0 /\ nullwork)
        /\ Goto(t, "idle")
        /\ UNCHANGED lock
  /\ UNCHANGED <<runCounter, running, terminate, ctx, loopRet, registered,
                 own>>

\* mutant: the loop is stopped but not told to terminate
HaltTerminate_Silent(t) ==
  /\ At(t, "halt.term")
  /\ Goto(t, "halt.stop")
  /\ UNCHANGED <<shared, own>>

HaltTerminate(t) ==
  /\ At(t, "halt.term")
  /\ terminate' = TRUE
  /\ Goto(t, "halt.stop")
  /\ UNCHANGED <<runCounter, running, ctx, lock, loopRet, registered, own>>

HaltStop(t) ==
  /\ At(t, "halt.stop")
  /\ nullwork' = FALSE
  /\ stopped' = TRUE
  /\ Goto(t, "halt.wait")
  /\ UNCHANGED <<runCounter, running, terminate, lock, loopRet, registered,
                 own>>

\* mutant: the context is reset without waiting for the loop to leave run()
HaltWait_NoWait(t) ==
  /\ At(t, "halt.wait")
  /\ loopRet' = NoTask
  /\ Goto(t, "halt.reset")
  /\ UNCHANGED <<runCounter, running, terminate, ctx, lock, registered, own>>

\* wait_for(0) in a loop until the future is ready, then get()
HaltWait(t) ==
  /\ At(t, "halt.wait")
  /\ Ready(loopRet)
  /\ loopRet' = NoTask
  /\ Goto(t, "halt.reset")
  /\ UNCHANGED <<runCounter, running, terminate, ctx, lock, registered, own>>

\* wait_for() on an invalid future throws: ~Servicer swallows the exception,
\* the guard unlocks and terminateLoop stays set
HaltThrows(t) ==
  /\ At(t, "halt.wait")
  /\ loopRet = NoTask
  /\ lock' = NoThread
  /\ Goto(t, "idle")
  /\ UNCHANGED <<runCounter, running, terminate, ctx, loopRet, registered,
                 own>>

HaltReset(t) ==
  /\ At(t, "halt.reset")
  /\ stopped' = FALSE
  /\ Goto(t, "halt.done")
  /\ UNCHANGED <<runCounter, running, terminate, nullwork, lock, loopRet,
                 registered, own>>

HaltDone(t) ==
  /\ At(t, "halt.done")
  /\ terminate' = FALSE
  /\ lock' = NoThread
  /\ Goto(t, "idle")
  /\ UNCHANGED <<runCounter, running, ctx, loopRet, registered, own>>

-----------------------------------------------------------------------------
(* closeContext: only one caller finds the manager in the map              *)

BeginClose(t) ==
  /\ t \in Closers
  /\ At(t, "idle")
  /\ registered
  /\ registered' = FALSE
  /\ Goto(t, "close.check")
  /\ UNCHANGED <<runCounter, running, terminate, ctx, lock, loopRet, own>>

CloseCheck(t) ==
  /\ At(t, "close.check")
  /\ Goto(t, IF running # "stopped" THEN "close.lock" ELSE "idle")
  /\ UNCHANGED <<shared, own>>

CloseStop(t) ==
  /\ At(t, "close.lock")
  /\ Free
  /\ lock' = t
  /\ nullwork' = FALSE
  /\ stopped' = TRUE
  /\ Goto(t, "close.get")
  /\ UNCHANGED <<runCounter, running, terminate, loopRet, registered, own>>

\* loopRet.get(); on an invalid future it throws and the guard unlocks
CloseGet(t) ==
  /\ At(t, "close.get")
  /\ loopRet = NoTask \/ Ready(loopRet)
  /\ loopRet' = NoTask
  /\ lock' = NoThread
  /\ Goto(t, "idle")
  /\ UNCHANGED <<runCounter, running, terminate, ctx, registered, own>>

-----------------------------------------------------------------------------
(* contextProcessingLoop, run by the thread of task k                      *)

LoopAt(k, l) == task[k] = l
LoopGoto(k, l) == task' = [task EXCEPT ![k] = l]

\* mutant: the loop runs until it is told to terminate
LoopCount_Ignored(k) ==
  /\ LoopAt(k, "while.count")
  /\ LoopGoto(k, "while.term")
  /\ UNCHANGED <<shared, pc, local, handle>>

LoopCount(k) ==
  /\ LoopAt(k, "while.count")
  /\ LoopGoto(k, IF runCounter > 0 THEN "while.term" ELSE "exit")
  /\ UNCHANGED <<shared, pc, local, handle>>

LoopTerminate(k) ==
  /\ LoopAt(k, "while.term")
  /\ LoopGoto(k, IF terminate THEN "exit" ELSE "enter")
  /\ UNCHANGED <<shared, pc, local, handle>>

LoopEnter(k) ==
  /\ LoopAt(k, "enter")
  /\ running' = "running"
  /\ LoopGoto(k, "run")
  /\ UNCHANGED <<runCounter, terminate, ctx, lock, loopRet, registered, pc,
                 local, handle>>

\* io_context::run() returns once the context is stopped; the work guard
\* keeps it from returning for want of work before that
LoopRunReturns(k) ==
  /\ LoopAt(k, "run")
  /\ stopped
  /\ LoopGoto(k, "while.count")
  /\ UNCHANGED <<shared, pc, local, handle>>

\* mutant: the exception of a handler ends the loop
HandlerThrows_Ends(k) ==
  /\ LoopAt(k, "run")
  /\ ~stopped
  /\ LoopGoto(k, "exit")
  /\ UNCHANGED <<shared, pc, local, handle>>

\* a handler throws: run() is left by an exception, which the loop catches
HandlerThrows(k) ==
  /\ LoopAt(k, "run")
  /\ ~stopped
  /\ LoopGoto(k, "while.count")
  /\ UNCHANGED <<shared, pc, local, handle>>

\* mutant: the loop leaves without saying so
LoopExit_Silent(k) ==
  /\ LoopAt(k, "exit")
  /\ LoopGoto(k, "leaving")
  /\ UNCHANGED <<shared, pc, local, handle>>

LoopExit(k) ==
  /\ LoopAt(k, "exit")
  /\ running' = "stopped"
  /\ LoopGoto(k, "leaving")
  /\ UNCHANGED <<runCounter, terminate, ctx, lock, loopRet, registered, pc,
                 local, handle>>

LoopReturn(k) ==
  /\ LoopAt(k, "leaving")
  /\ LoopGoto(k, "done")
  /\ UNCHANGED <<shared, pc, local, handle>>

-----------------------------------------------------------------------------

Begin(t) == BeginStart(t) \/ BeginHalt(t) \/ BeginClose(t)

StartStep(t) ==
  \/ StartIncrement(t) \/ StartCas(t) \/ StartPublish(t) \/ StartSpawn(t)
  \/ StartElse(t) \/ StartGet(t) \/ StartRecas(t)

HaltStep(t) ==
  \/ HaltCheck(t) \/ HaltZero(t) \/ HaltDecrement(t) \/ HaltLock(t)
  \/ HaltTerminate(t) \/ HaltStop(t) \/ HaltWait(t) \/ HaltThrows(t)
  \/ HaltReset(t) \/ HaltDone(t)

CloseStep(t) == CloseCheck(t) \/ CloseStop(t) \/ CloseGet(t)

LoopStep(k) ==
  \/ LoopCount(k) \/ LoopTerminate(k) \/ LoopEnter(k) \/ LoopRunReturns(k)
  \/ LoopExit(k) \/ LoopReturn(k)

CallStep(t) == StartStep(t) \/ HaltStep(t) \/ CloseStep(t)

Next ==
  \/ \E t \in Threads : Begin(t) \/ CallStep(t)
  \/ \E k \in Tasks : LoopStep(k) \/ HandlerThrows(k)

Spec == Init /\ [][Next]_vars

\* A thread inside a call and the loop thread are scheduled; nobody has to
\* begin a call, and no handler has to throw.
Fairness ==
  /\ \A t \in Threads : WF_vars(CallStep(t))
  /\ \A k \in Tasks : WF_vars(LoopStep(k))

FairSpec == Spec /\ Fairness

-----------------------------------------------------------------------------
(* Properties                                                              *)

\* The variables keep their types, and a packaged_task is in the hands of
\* exactly the threads that are about to give one to a new std::thread.
TypeOK ==
  /\ runCounter \in Int
  /\ running \in {"stopped", "starting", "running"}
  /\ terminate \in BOOLEAN /\ nullwork \in BOOLEAN /\ stopped \in BOOLEAN
  /\ registered \in BOOLEAN
  /\ lock \in Threads \cup {NoThread}
  /\ loopRet \in Tasks \cup {NoTask}
  /\ task \in [Tasks -> TaskStates]
  /\ pc \in [Threads -> Labels]
  /\ local \in [Threads -> Tasks \cup {NoTask}]
  /\ handle \in [Threads -> BOOLEAN]
  /\ \A t \in Threads : local[t] # NoTask <=> At(t, "start.spawn")

\* "run a single thread for the context manager": however the calls to
\* startContextLoop, haltContextLoop and closeContext interleave, at most one
\* task has been created and has not left contextProcessingLoop.
SingleLoop ==
  \A j, k \in Tasks :
    /\ Live(j) \/ task[j] = "created"
    /\ Live(k) \/ task[k] = "created"
    => j = k

\* io_context::reset() may not be called while run() is executing:
\* haltContextLoop resets the context only when no loop thread is left that
\* is in run() or could enter it.
ResetOnlyWhenQuiet ==
  \A t \in Threads :
    At(t, "halt.reset") => \A k \in Tasks : ~Live(k) /\ task[k] # "created"

\* haltContextLoop calls wait_for() and get() on a future that is valid: the
\* work guard, read under the lock, tells it so.
FutureValid == \A t \in Threads : At(t, "halt.wait") => loopRet # NoTask

Quiet == \A t \in Threads : At(t, "idle")
Handles == {t \in Threads : handle[t]}

\* A request is counted from startContextLoop until haltContextLoop has given
\* it back, by a decrement or by overwriting the counter.  The counter never
\* exceeds the requests, so a loop is never kept alive by one that is gone.
Requests ==
  {t \in Threads : \/ handle[t]
                   \/ pc[t] \in StartLabels \ {"start.inc"}
                   \/ pc[t] \in {"halt.check", "halt.zero", "halt.dec"}}
CounterAtMostRequests == runCounter <= Cardinality(Requests)

\* "if it is 0 then will halt the context loop": with no call in progress and
\* no LoopHandle left, no thread stays behind in io_context::run().
NoOrphanLoop ==
  Quiet /\ Handles = {} => \A k \in Tasks : ~(LoopAt(k, "run") /\ ~stopped)

\* startContextLoop gives its caller a loop: with no call in progress, while
\* somebody owns a LoopHandle there is a loop thread.
HandleMeansLoop == Quiet /\ Handles # {} => \E k \in Tasks : Live(k)

\* "decrements the loop request counter": with no call in progress the counter
\* is the number of LoopHandles that have not been destroyed.
CounterIsHandles == Quiet => runCounter = Cardinality(Handles)

\* Once threads stop beginning calls, every call of startContextLoop,
\* haltContextLoop and closeContext returns.
CallsReturn ==
  <>[][\A t \in Threads : ~Begin(t)]_vars => <>[]Quiet

\* closeContext waits for the loop, and the loop for the counter.  As long as
\* no call of startContextLoop overlaps the closing or comes after it, all
\* calls return once every LoopHandle has been given back.
CallsReturnOnceReleased ==
  /\ <>[][\A t \in Threads : ~Begin(t)]_vars
  /\ <>[](Handles = {})
  /\ [](~registered => \A t \in Threads : pc[t] \notin StartLabels)
  => <>[]Quiet

\* The manager implements the life cycle of one loop: the threads in
\* contextProcessingLoop are its runners.
LiveTasks == {k \in Tasks : Live(k)}
Lifecycle == INSTANCE LoopLifecycle WITH
  Runners <- Tasks, mode <- running, live <- LiveTasks
LifecycleSpec == Lifecycle!Spec
==========================================================================
