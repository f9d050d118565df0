---------------------------- MODULE MCTimerQueue ----------------------------
(* Small instances of TimerQueue: a zero delay and two longer ones. *)
EXTENDS TimerQueue
=============================================================================
