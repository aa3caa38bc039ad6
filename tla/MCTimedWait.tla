----------------------------- MODULE MCTimedWait ----------------------------
(* Timed waits on small instances.                                         *)
EXTENDS TimedWait

\* The list of timers holds, once each, timers of processes inside their wait
\* (the timer_t is on the stack), and run_timer_list never meets a timer with
\* nothing left to wait (its assertion).
TimersSound == TypeOK /\ NoZeroHead
=============================================================================
