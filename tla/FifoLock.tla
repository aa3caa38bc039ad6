------------------------------ MODULE FifoLock ------------------------------
(***************************************************************************)
(* What a kernel semaphore used as a lock promises: Units processes at     *)
(* most hold it, a process that finds it taken joins the end of a line,    *)
(* a released unit goes to the first of the line, and nobody takes a unit  *)
(* past the line.                                                          *)
(***************************************************************************)
EXTENDS Naturals, Sequences

CONSTANTS Procs, Units

VARIABLES free, holders, line

lockVars == <<free, holders, line>>

Init == free = Units /\ holders = {} /\ line = <<>>

Acquire(p) ==
    /\ free > 0
    /\ line = <<>>
    /\ p \notin holders
    /\ free' = free - 1
    /\ holders' = holders \cup {p}
    /\ UNCHANGED line

Queue(p) ==
    /\ free = 0
    /\ p \notin holders
    /\ line' = Append(line, p)
    /\ UNCHANGED <<free, holders>>

Release(p) ==
    /\ p \in holders
    /\ line = <<>>
    /\ free' = free + 1
    /\ holders' = holders \ {p}
    /\ UNCHANGED line

PassOn(p) ==
    /\ p \in holders
    /\ line # <<>>
    /\ holders' = (holders \ {p}) \cup {Head(line)}
    /\ line' = Tail(line)
    /\ UNCHANGED free

Next == \E p \in Procs : Acquire(p) \/ Queue(p) \/ Release(p) \/ PassOn(p)

Spec == Init /\ [][Next]_lockVars
=============================================================================
