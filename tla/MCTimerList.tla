---------------------------- MODULE MCTimerList ----------------------------
(* Module TimerList on four timers and two workers for TLC.                *)
EXTENDS TimerList, TLC

Interchangeable == Permutations(Timer) \union Permutations(Worker)
=============================================================================
