------------------------------ MODULE Dispatch ------------------------------
(***************************************************************************)
(* What the kernel's blocking primitives (semaphores, events, mailboxes,   *)
(* pipes, sleep, wait) rely on from the scheduler: a process executes only *)
(* while it occupies one of NCPU processors, it is put on a processor only *)
(* when it is RUNNABLE, and it gives the processor up only inside          *)
(* schedule() -- which kernel code calls itself, and which the trap return *)
(* path calls for a process that was interrupted in user mode.  The kernel *)
(* is therefore not preempted: with NCPU = 1 the code between two calls of *)
(* schedule() is one indivisible block, with NCPU > 1 the blocks of        *)
(* different processors interleave.                                        *)
(*                                                                         *)
(* Sched.tla models schedule.c in detail and is checked to implement this. *)
(***************************************************************************)
EXTENDS Naturals, FiniteSets

CONSTANTS
    Procs,      \* the processes (idle and the kernel threads excluded)
    NCPU        \* number of processors, UCONFIG_NR_CPUS

ASSUME ProcsAssumption == IsFiniteSet(Procs)
ASSUME NCPUAssumption == NCPU \in Nat \ {0}

VARIABLES
    running,    \* the processes that occupy a processor (mycpu()->proc)
    state,      \* proc->state
    wait_state  \* proc->wait_state, "0" when the process waits for nothing

dispatchVars == <<running, state, wait_state>>

ProcStates == {"SLEEPING", "RUNNABLE", "ZOMBIE"}

\* Every process has been made RUNNABLE by do_fork -> wakeup_proc.
DispatchInit ==
    /\ running = {}
    /\ state = [p \in Procs |-> "RUNNABLE"]
    /\ wait_state = [p \in Procs |-> "0"]

\* A processor inside schedule() picks p.
Dispatch(p) ==
    /\ state[p] = "RUNNABLE"
    /\ p \notin running
    /\ Cardinality(running) < NCPU
    /\ running' = running \cup {p}
    /\ UNCHANGED <<state, wait_state>>

\* p calls schedule() and another process, or idle, takes its processor.
Leave(p) ==
    /\ p \in running
    /\ running' = running \ {p}

\* current->state = PROC_SLEEPING, current->wait_state = w.
GoToSleep(p, w) ==
    /\ state' = [state EXCEPT ![p] = "SLEEPING"]
    /\ wait_state' = [wait_state EXCEPT ![p] = w]

\* wakeup_proc for every process of S: a RUNNABLE process is left as it is.
Wakeup(S) ==
    /\ state' = [p \in Procs |-> IF p \in S THEN "RUNNABLE" ELSE state[p]]
    /\ wait_state' = [p \in Procs |->
                        IF p \in S /\ state[p] # "RUNNABLE"
                        THEN "0" ELSE wait_state[p]]

----------------------------------------------------------------------------
(* The same as a specification of its own, for an arbitrary kernel.        *)

DispatchVarsInit ==
    /\ running = {}
    /\ state \in [Procs -> {"RUNNABLE", "SLEEPING"}]
    /\ wait_state = [p \in Procs |-> IF state[p] = "SLEEPING" THEN "W" ELSE "0"]

\* p's processor goes straight to q.
SwitchTo(p, q) ==
    /\ p \in running
    /\ state[q] = "RUNNABLE"
    /\ q \notin running
    /\ running' = (running \ {p}) \cup {q}
    /\ UNCHANGED <<state, wait_state>>

DispatchNext ==
    \E p \in Procs :
        \/ Dispatch(p)
        \/ Leave(p) /\ UNCHANGED <<state, wait_state>>
        \/ \E q \in Procs : SwitchTo(p, q)
        \/ p \in running /\ GoToSleep(p, "W") /\ UNCHANGED running
        \/ /\ p \in running
           /\ state' = [state EXCEPT ![p] = "ZOMBIE"]
           /\ UNCHANGED <<running, wait_state>>
        \/ state[p] = "SLEEPING" /\ Wakeup({p}) /\ UNCHANGED running

DispatchSpec == DispatchVarsInit /\ [][DispatchNext]_dispatchVars
=============================================================================
