-------------------------- MODULE LoopLifecycle --------------------------
(***************************************************************************)
(* What AsioContextManager promises about the thread that runs its          *)
(* io_context: a claim on the stopped loop is followed by at most one       *)
(* runner, nobody can claim the loop again before that runner has left, and *)
(* the loop is announced as stopped in the very step in which it leaves.    *)
(***************************************************************************)
CONSTANTS Runners

VARIABLES mode,  \* loop_mode: "stopped", "starting" or "running"
          live   \* the runners inside the loop

Init == mode = "stopped" /\ live = {}

\* compare_exchange_strong(stopped, starting) succeeds
Claim ==
  /\ mode = "stopped"
  /\ live = {}
  /\ mode' = "starting"
  /\ UNCHANGED live

\* the claimant hands the loop to a new thread
Spawn(r) ==
  /\ mode = "starting"
  /\ live = {}
  /\ live' = {r}
  /\ UNCHANGED mode

\* the runner enters io_context::run(), the first time or again
Announce ==
  /\ live # {}
  /\ mode' = "running"
  /\ UNCHANGED live

\* the runner leaves, also when it never got to run()
Leave ==
  /\ live # {}
  /\ live' = {}
  /\ mode' = "stopped"

Next == Claim \/ (\E r \in Runners : Spawn(r)) \/ Announce \/ Leave

Spec == Init /\ [][Next]_<<mode, live>>
==========================================================================
