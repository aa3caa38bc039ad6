------------------------------ MODULE Timeouts ------------------------------
(***************************************************************************)
(* What the timers promise: each pending timeout counts down on its own,   *)
(* one per tick, and its process is woken on the tick on which it reaches  *)
(* zero, whatever other timers are set or cancelled meanwhile.             *)
(***************************************************************************)
EXTENDS Naturals

CONSTANTS Procs, MaxTimeout

VARIABLES
    remaining,  \* ticks until the timeout of each process, 0: none pending
    asleep      \* the processes that sleep

vars == <<remaining, asleep>>

Init == remaining = [p \in Procs |-> 0] /\ asleep = {}

Set(p, n) ==
    /\ p \notin asleep
    /\ remaining[p] = 0
    /\ remaining' = [remaining EXCEPT ![p] = n]
    /\ asleep' = asleep \cup {p}

\* Something else wakes p before its time.
Interrupt(p) == asleep' = asleep \ {p} /\ UNCHANGED remaining

Cancel(p) ==
    /\ p \notin asleep
    /\ remaining' = [remaining EXCEPT ![p] = 0]
    /\ UNCHANGED asleep

Tick ==
    /\ remaining' = [p \in Procs |-> IF remaining[p] = 0 THEN 0 ELSE remaining[p] - 1]
    /\ asleep' = {p \in asleep : remaining[p] # 1}

Next ==
    \/ Tick
    \/ \E p \in Procs :
           Interrupt(p) \/ Cancel(p) \/ \E n \in 1..MaxTimeout : Set(p, n)

Spec == Init /\ [][Next]_vars
=============================================================================
