------------------------- MODULE TriggerVariable -------------------------
(***************************************************************************)
(* gmlc::concurrency::TriggerVariable, an external latch, as TcpConnection *)
(* and TcpAcceptor use it: activate() arms it, trigger() has an effect     *)
(* only while it is armed, wait() lets through whoever finds it disarmed   *)
(* or triggered, reset() disarms it and releases the waiters.              *)
(***************************************************************************)
TriggerType == [active : BOOLEAN, triggered : BOOLEAN]

Inactive == [active |-> FALSE, triggered |-> FALSE]

Activated(v) == IF v.active THEN v ELSE [active |-> TRUE, triggered |-> FALSE]
Triggered(v) == IF v.active THEN [v EXCEPT !.triggered = TRUE] ELSE v
Reset(v) == IF v.active THEN [active |-> FALSE, triggered |-> TRUE] ELSE v
WaitOver(v) == v.active => v.triggered
==========================================================================
