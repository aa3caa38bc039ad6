-------------------------------- MODULE USem ---------------------------------
(***************************************************************************)
(* A user semaphore: ipc_sem_wait (with or without a timeout),             *)
(* ipc_sem_post and ipc_sem_free of sync/sem.c, called by processes that   *)
(* may be killed while they wait.  The semu_list look-up and the kernel    *)
(* lock around it are CallDown, CallUp and CallFree: the lock (KLock)      *)
(* makes the look-up atomic, and nothing blocks between it and the entry   *)
(* of the operation.  (ipc_sem_get_value only reads.)                      *)
(*                                                                         *)
(* A timer is abstracted to armed/not armed: it fires at some tick after   *)
(* its time has come (TimerList shows when), on a processor that is in     *)
(* user mode or idle, because a trap runs with interrupts off.             *)
(***************************************************************************)
EXTENDS Semaphore      \* with Kind = "WT_USEM"

CONSTANT MaxPosts   \* bound on the calls of ipc_sem_post

VARIABLES
    timed,      \* the processes whose ipc_sem_wait was given a timeout
    armed,      \* the processes whose timer is in the timer list
    freeing,    \* the processes past the look-up of ipc_sem_free
    posted,     \* history: completed calls of ipc_sem_post
    succeeded   \* history: calls of ipc_sem_wait that returned 0

ipcVars == <<timed, armed, freeing>>
history == <<posted, succeeded>>
uvars == <<dispatchVars, semVars, ipcVars, history>>

UInit ==
    /\ SemInit
    /\ timed = {} /\ armed = {} /\ freeing = {}
    /\ posted = 0 /\ succeeded = 0

\* A process between two system calls.
AtUser(p) == p \notin freeing

Wait(p) ==
    /\ AtUser(p)
    /\ CallDown(p)
    /\ timed' \in {timed \ {p}, timed \cup {p}}
    /\ UNCHANGED <<armed, freeing, history>>

Post(p) ==
    /\ AtUser(p)
    /\ posted + Cardinality({q \in Procs : pc[q] \in {"up", "up_lock"}}) < MaxPosts
    /\ CallUp(p)
    /\ UNCHANGED <<ipcVars, history>>

EnterDown(p) == DownEnter(p) /\ UNCHANGED <<ipcVars, history>>
EnterUp(p)   == UpEnter(p) /\ UNCHANGED <<ipcVars, history>>
LeaveCPU(p)  == DownSchedule(p) /\ UNCHANGED <<ipcVars, history>>

TakeAtOnce(p) ==
    /\ DownTake(p)
    /\ succeeded' = succeeded + 1
    /\ UNCHANGED <<ipcVars, posted>>

\* wait_current_set and ipc_add_timer, both under sem->lock
Sleep(p) ==
    /\ DownWait(p)
    /\ armed' = IF p \in timed THEN armed \cup {p} ELSE armed
    /\ UNCHANGED <<timed, freeing, history>>

WaitReturn_KeepTimer(p) ==
    /\ DownReturn(p)
    /\ succeeded' = IF wakeup_flags[p] = Kind THEN succeeded + 1 ELSE succeeded
    /\ UNCHANGED <<ipcVars, posted>>

\* ipc_del_timer and wait_current_del; 0 is returned when __up woke p
WaitReturn(p) ==
    /\ DownReturn(p)
    /\ armed' = armed \ {p}
    /\ succeeded' = IF wakeup_flags[p] = Kind THEN succeeded + 1 ELSE succeeded
    /\ UNCHANGED <<timed, freeing, posted>>

Increment(p) == UpIncrement(p) /\ posted' = posted + 1 /\ UNCHANGED <<ipcVars, succeeded>>

HandOff(p) ==
    /\ UpHandOff(p)
    /\ posted' = IF panic' = "none" THEN posted + 1 ELSE posted
    /\ UNCHANGED <<ipcVars, succeeded>>

CallFree(p) ==
    /\ Active(p)
    /\ pc[p] = "out"
    /\ AtUser(p)
    /\ valid
    /\ freeing' = freeing \cup {p}
    /\ UNCHANGED <<dispatchVars, semVars, timed, armed, history>>

\* The processes wakeup_queue wakes.
FirstWaiter == IF queue = <<>> THEN {} ELSE {Head(queue)}
Freed == {queue[i] : i \in 1..Len(queue)}

\* sem->valid = 0, wakeup_queue(.., WT_INTERRUPTED, 1)
Free(p) ==
    /\ Active(p)
    /\ p \in freeing
    /\ freeing' = freeing \ {p}
    /\ valid' = FALSE
    /\ WakeupWait(Freed, "WT_INTERRUPTED")
    /\ queue' = <<>>
    /\ UNCHANGED <<running, value, killed, pc, panic, timed, armed, history>>

\* run_timer_list on a tick: wakeup_proc and __del_timer.  wakeup_proc of a
\* process that is RUNNABLE already only warns.
TimerFires(p) ==
    /\ panic = "none"
    /\ p \in armed
    /\ p \notin running
    /\ Cardinality({q \in running : pc[q] # "out" \/ q \in freeing}) < NCPU
    /\ Wakeup({p})
    /\ armed' = armed \ {p}
    /\ UNCHANGED <<running, semVars, timed, freeing, history>>

UYield(p)  == AtUser(p) /\ Preempt(p) /\ UNCHANGED <<ipcVars, history>>
UResume(p) == Resume(p) /\ UNCHANGED <<ipcVars, history>>
UExit(p)   == AtUser(p) /\ Exit(p) /\ UNCHANGED <<ipcVars, history>>
UKill(k, p) == AtUser(k) /\ Kill(k, p) /\ UNCHANGED <<ipcVars, history>>

UNext ==
    \E p \in Procs :
        \/ Wait(p) \/ Post(p) \/ CallFree(p) \/ Free(p)
        \/ EnterDown(p) \/ TakeAtOnce(p) \/ Sleep(p) \/ LeaveCPU(p) \/ WaitReturn(p)
        \/ EnterUp(p) \/ Increment(p) \/ HandOff(p)
        \/ TimerFires(p) \/ (\E k \in Procs : UKill(k, p)) \/ UExit(p)
        \/ UYield(p) \/ UResume(p)

USpec == UInit /\ [][UNext]_uvars

----------------------------------------------------------------------------
(* Properties                                                              *)

\* Every variable has its type.
UTypeOK ==
    /\ SemTypeOK
    /\ timed \subseteq Procs /\ armed \subseteq Procs /\ freeing \subseteq Procs
    /\ posted \in 0..MaxPosts /\ succeeded \in Nat

\* Every unit is accounted for, also when waiters give up: what is on the
\* semaphore, what a woken waiter is about to report as 0 and what earlier
\* waits reported as 0 add up to the initial value and the completed posts.
PostsAccounted ==
    value + Cardinality(Granted) + succeeded = InitValue + posted

\* A timer never outlives the wait it was armed for: it would be a timer_t on
\* a stack frame that is gone.
TimerWithinWait == \A p \in armed : pc[p] \in {"slept", "blocked"}

\* A process that sleeps can still be woken: it is in the queue, where a post
\* will reach it, and ipc_sem_free leaves nobody in the queue of a semaphore
\* no post can find any more.
SleeperReachable ==
    /\ \A p \in Procs : state[p] = "SLEEPING" => WaitInQueue(queue, p)
    /\ ~valid => queue = <<>>

\* assert(wait->proc->wait_state == wait_state) in __up
UpFindsSleeper == panic # "up_wait_state"

\* assert(sem->valid) in __up and __down (holds on one processor;
\* with two the look-up and the use are apart: README, section 3)
ValidInside == panic \notin {"up_valid", "down_valid"}
=============================================================================
