---------------------------- MODULE MCTimerWheel ----------------------------
(***************************************************************************)
(* TimerWheel with a counter of 5 bits, which wraps after 32 ticks: a near *)
(* wheel of 2 slots and 2 levels of 4 slots.                               *)
(***************************************************************************)
EXTENDS TimerWheel

CONSTANTS t1, t2

Timers2 == {t1, t2}
=============================================================================
