---------------------- MODULE MC_AsioContextLoop ----------------------
(* AsioContextLoop on small sets of threads and tasks, for TLC, with the  *)
(* way it has been called so far.                                         *)
EXTENDS AsioContextLoop

VARIABLE phased  \* no start has overlapped a halt; calls of one kind may

Phased ==
  ~ \E t, u \in Threads : pc[t] \in StartLabels /\ pc[u] \in HaltLabels

PhasedInit == Init /\ phased = TRUE
PhasedNext == Next /\ phased' = (phased /\ Phased')
PhasedSpec == PhasedInit /\ [][PhasedNext]_<<vars, phased>> /\ Fairness

\* As long as starts and halts have not overlapped, a LoopHandle means a loop,
\* runCounter is the number of handles, and the last one takes the loop with it.
PhasedUse == phased => HandleMeansLoop /\ CounterIsHandles /\ NoOrphanLoop
=======================================================================
