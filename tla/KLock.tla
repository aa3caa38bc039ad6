------------------------------- MODULE KLock --------------------------------
(***************************************************************************)
(* A kernel semaphore used as a lock, which is how the kernel uses all of  *)
(* its own (mm_sem, fs_sem, pipe and sfs semaphores, the disk semaphores:  *)
(* sem_init(.., 1), down ... up by the same process).  The components are  *)
(* Semaphore and Dispatch; the client calls down only when it does not     *)
(* hold the lock and up only when it does.  A killed process goes on until *)
(* it is back in user mode; that it exits there is no step of its own: it  *)
(* is one of the processes that never call down again.                     *)
(***************************************************************************)
EXTENDS Semaphore

ASSUME KernelSemaphore == Kind = "WT_KSEM"

VARIABLE inside     \* the processes between their down/try_down and their up

lvars == <<dispatchVars, semVars, inside>>

LInit == SemInit /\ inside = {}

Lock(p)   == p \notin inside /\ CallDown(p) /\ UNCHANGED inside
Unlock(p) == p \in inside /\ CallUp(p) /\ UNCHANGED inside

TakeAtOnce(p) == DownTake(p) /\ inside' = inside \cup {p}
TryLock(p)    == p \notin inside /\ TryDown(p) /\ inside' = inside \cup {p}

TakeAfterWait(p) ==
    /\ DownReturn(p)
    /\ inside' = IF panic' = "none" THEN inside \cup {p} ELSE inside

Return(p) == UpIncrement(p) /\ inside' = inside \ {p}

HandOff(p) ==
    /\ UpHandOff(p)
    /\ inside' = IF panic' = "none" THEN inside \ {p} ELSE inside

EnterDown(p) == DownEnter(p) /\ UNCHANGED inside
Sleep(p)     == DownWait(p) /\ UNCHANGED inside
LeaveCPU(p)  == DownSchedule(p) /\ UNCHANGED inside
EnterUp(p)   == UpEnter(p) /\ UNCHANGED inside

\* The steps a process takes on its processor without being able to stop.
KernelStep(p) ==
    \/ TakeAtOnce(p) \/ TakeAfterWait(p) \/ Return(p) \/ HandOff(p)
    \/ EnterDown(p) \/ Sleep(p) \/ LeaveCPU(p) \/ EnterUp(p)

Yield(p)  == Preempt(p) /\ UNCHANGED inside
LResume(p) == Resume(p) /\ UNCHANGED inside
LKill(p)  == (\E k \in Procs : Kill(k, p)) /\ UNCHANGED inside

LNext ==
    \E p \in Procs :
        \/ Lock(p) \/ Unlock(p) \/ TryLock(p)
        \/ KernelStep(p)
        \/ Yield(p) \/ LResume(p) \/ LKill(p)

LSpec == LInit /\ [][LNext]_lvars

\* A process on a processor runs on; a critical section ends, however often
\* it blocks; the tick makes a process in user mode yield; the run queue is
\* first in, first out.
Fairness ==
    \A p \in Procs :
        /\ WF_lvars(KernelStep(p))
        /\ SF_lvars(Unlock(p))
        /\ SF_lvars(p \notin inside /\ Yield(p))
        /\ SF_lvars(LResume(p))

FairLSpec == LSpec /\ Fairness

----------------------------------------------------------------------------
(* Properties                                                              *)

\* Every variable has its type.
LTypeOK == SemTypeOK /\ inside \subseteq Procs

Holders == inside \cup Granted

\* A unit is never lost or duplicated: the units on the semaphore, those
\* handed to a process that has not run yet and those held add up to the
\* initial value, whatever the order of down, up and dispatch.
UnitsConserved == value + Cardinality(Holders) = InitValue

\* At most InitValue processes are between down and up: with sem_init(.., 1),
\* as for mm_sem or fs_sem, the critical sections exclude one another.
Exclusion == Cardinality(inside) <= InitValue

\* Nobody sleeps beside a free unit: a process is in the wait queue only
\* while every unit is held (no lost wake-up between up and down).
NoIdleUnit == queue # <<>> => value = 0

\* No assertion of sem.c fails: down() is only ever woken by up(), also when
\* its process is killed while it sleeps, and up() finds a sleeping waiter.
LNoPanic == panic = "none"

\* What makes them inductive.  A process is in the wait queue exactly while it
\* sleeps; one that has left it before its __down returned was handed a unit;
\* a process on a processor inside schedule() has been woken; and nobody who
\* is inside waits, nobody who releases is outside.
Waiting(p) == pc[p] \in {"slept", "blocked"}

QueueInv ==
    /\ NoDuplicates(queue)
    /\ \A p \in Procs : WaitInQueue(queue, p) <=> state[p] = "SLEEPING"
    /\ \A p \in Procs : wait_state[p] = IF state[p] = "SLEEPING" THEN Kind ELSE "0"
    /\ \A p \in Procs : state[p] = "SLEEPING" =>
          Waiting(p) /\ wakeup_flags[p] = "WT_INTERRUPTED"
    /\ \A p \in Procs : Waiting(p) /\ state[p] # "SLEEPING" => wakeup_flags[p] = Kind
    /\ \A p \in running : pc[p] = "blocked" => state[p] # "SLEEPING"

ClientInv ==
    \A p \in Procs :
        /\ pc[p] \in {"down", "down_lock", "slept", "blocked"} => p \notin inside
        /\ pc[p] \in {"up", "up_lock"} => p \in inside

LInv ==
    /\ LTypeOK
    /\ LNoPanic
    /\ valid
    /\ QueueInv
    /\ ClientInv
    /\ NoIdleUnit
    /\ UnitsConserved

\* The kernel semaphore implements the first-come first-served lock.
FIFO == INSTANCE FifoLock WITH Units <- InitValue, free <- value,
                               holders <- Holders, line <- queue

Implements == FIFO!Spec

\* Whoever calls down on a lock gets it, killed or not.
Served == \A p \in Procs : pc[p] = "down" ~> p \in inside
=============================================================================
