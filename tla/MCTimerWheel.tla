---------------------------- MODULE MCTimerWheel ----------------------------
(* Small wheels for TLC: 2, 2 and 2 slots of 2 ms, so up to 15 ms. Timer 1 *)
(* is called once, the callback of timer 2 may ask for another 5 ms.       *)
EXTENDS TimerWheel

MCSize    == <<2, 2, 2>>
MCPeriods == <<{0}, {0, 5}>>
=============================================================================
