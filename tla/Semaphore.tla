----------------------------- MODULE Semaphore ------------------------------
(***************************************************************************)
(* One semaphore of sync/sem.c with its wait queue (sync/wait.c), used by  *)
(* the processes of Dispatch.  Kind is the wait_state its operations use:  *)
(* "WT_KSEM" for a kernel semaphore (down/up/try_down, never interrupted), *)
(* "WT_USEM" for a user semaphore (ipc_sem_wait/post/free, interruptible   *)
(* by a timer, by do_kill and by ipc_sem_free).                            *)
(*                                                                         *)
(* The code between taking and releasing sem->lock (interrupts off) is one *)
(* action.  The look-up of the semaphore, the assertion at the head of     *)
(* __up and __down, and the call of schedule() are steps of their own:     *)
(* with NCPU > 1 another processor may act between them.                   *)
(***************************************************************************)
EXTENDS WaitQueue

CONSTANTS
    Kind,       \* "WT_KSEM" or "WT_USEM"
    InitValue   \* the value given to sem_init

ASSUME KindAssumption == Kind \in {"WT_KSEM", "WT_USEM"}
ASSUME InitValueAssumption == InitValue \in Nat

VARIABLES
    value,          \* sem->value
    valid,          \* sem->valid
    queue,          \* sem->wait_queue, first waiter first
    killed,         \* proc->flags & PF_EXITING
    pc,             \* where each process is
    panic           \* the assertion that failed, "none" while the kernel runs

semVars == <<value, valid, queue, wakeup_flags, killed, pc, panic>>

\* "out": outside the semaphore code (user mode, or kernel code that may
\* block); "down", "up": past the look-up, about to enter __down, __up;
\* "down_lock", "up_lock": about to take sem->lock; "slept": left the locked
\* section of __down, about to call schedule(); "blocked": inside schedule().
Locations == {"out", "down", "down_lock", "slept", "blocked", "up", "up_lock"}

Asserts == {"none", "up_valid", "up_wait_state", "down_valid", "down_flags"}

Active(p) == p \in running /\ panic = "none"

Goto(p, l) == pc' = [pc EXCEPT ![p] = l]

Fail(a) == panic' = a

SemInit ==
    /\ DispatchInit
    /\ value = InitValue
    /\ valid = TRUE
    /\ queue = <<>>
    /\ wakeup_flags = [p \in Procs |-> "WT_INTERRUPTED"]
    /\ killed = [p \in Procs |-> FALSE]
    /\ pc = [p \in Procs |-> "out"]
    /\ panic = "none"

----------------------------------------------------------------------------
(* Entering the operations.  A kernel caller has the semaphore at hand; a  *)
(* user caller finds it with semu_list_search, which wants it valid.       *)

CallDown(p) ==
    /\ Active(p)
    /\ pc[p] = "out"
    /\ valid
    /\ Goto(p, "down")
    /\ UNCHANGED <<dispatchVars, value, valid, queue, wakeup_flags, killed, panic>>

CallUp(p) ==
    /\ Active(p)
    /\ pc[p] = "out"
    /\ valid
    /\ Goto(p, "up")
    /\ UNCHANGED <<dispatchVars, value, valid, queue, wakeup_flags, killed, panic>>

----------------------------------------------------------------------------
(* __down                                                                  *)

\* assert(sem->valid)
DownEnter(p) ==
    /\ Active(p)
    /\ pc[p] = "down"
    /\ IF valid THEN Goto(p, "down_lock") /\ UNCHANGED panic
                ELSE Fail("down_valid") /\ UNCHANGED pc
    /\ UNCHANGED <<dispatchVars, value, valid, queue, wakeup_flags, killed>>

\* if (sem->value > 0)
NotNegative == value >= 0
HasUnit == value > 0

\* if (sem->value > 0) sem->value--, return 0
DownTake(p) ==
    /\ Active(p)
    /\ pc[p] = "down_lock"
    /\ HasUnit
    /\ value' = value - 1
    /\ Goto(p, "out")
    /\ UNCHANGED <<dispatchVars, valid, queue, wakeup_flags, killed, panic>>

\* wait_current_set: SLEEPING, at the tail of the queue, flags INTERRUPTED
DownWait(p) ==
    /\ Active(p)
    /\ pc[p] = "down_lock"
    /\ ~HasUnit
    /\ WaitCurrentSet(p, Kind)
    /\ queue' = WaitQueueAdd(queue, p)
    /\ Goto(p, "slept")
    /\ UNCHANGED <<running, value, valid, killed, panic>>

\* schedule() switches to another process
DownSchedule(p) ==
    /\ Active(p)
    /\ pc[p] = "slept"
    /\ Leave(p)
    /\ Goto(p, "blocked")
    /\ UNCHANGED <<state, wait_state, value, valid, queue, wakeup_flags, killed, panic>>

\* Back from schedule(): result 0 when up() woke it, wakeup_flags otherwise.
\* down() asserts that it was up(); usem_down returns the error to its user.
DownReturn(p) ==
    /\ Active(p)
    /\ pc[p] = "blocked"
    /\ queue' = WaitCurrentDel(queue, p)
    /\ IF Kind = "WT_KSEM" /\ wakeup_flags[p] # Kind
       THEN Fail("down_flags") /\ UNCHANGED pc
       ELSE Goto(p, "out") /\ UNCHANGED panic
    /\ UNCHANGED <<dispatchVars, value, valid, wakeup_flags, killed>>

----------------------------------------------------------------------------
(* __up                                                                    *)

\* assert(sem->valid)
UpEnter(p) ==
    /\ Active(p)
    /\ pc[p] = "up"
    /\ IF valid THEN Goto(p, "up_lock") /\ UNCHANGED panic
                ELSE Fail("up_valid") /\ UNCHANGED pc
    /\ UNCHANGED <<dispatchVars, value, valid, queue, wakeup_flags, killed>>

\* Nobody waits: sem->value++
UpIncrement_Always(p) ==
    /\ Active(p)
    /\ pc[p] = "up_lock"
    /\ value' = value + 1
    /\ Goto(p, "out")
    /\ UNCHANGED <<dispatchVars, valid, queue, wakeup_flags, killed, panic>>

UpIncrement(p) ==
    /\ Active(p)
    /\ pc[p] = "up_lock"
    /\ queue = <<>>
    /\ value' = value + 1
    /\ Goto(p, "out")
    /\ UNCHANGED <<dispatchVars, valid, queue, wakeup_flags, killed, panic>>

\* assert(wait->proc->wait_state == wait_state), then wakeup_wait of the first
\* waiter: the unit goes to it and value stays as it is.
UpHandOff(p) ==
    /\ Active(p)
    /\ pc[p] = "up_lock"
    /\ queue # <<>>
    /\ IF wait_state[Head(queue)] = Kind
       THEN /\ queue' = Tail(queue)
            /\ WakeupWait({Head(queue)}, Kind)
            /\ Goto(p, "out")
            /\ UNCHANGED panic
       ELSE /\ Fail("up_wait_state")
            /\ UNCHANGED <<state, wait_state, queue, wakeup_flags, pc>>
    /\ UNCHANGED <<running, value, valid, killed>>

----------------------------------------------------------------------------
TryDown_NoTake(p) ==
    /\ Active(p)
    /\ pc[p] = "out"
    /\ HasUnit
    /\ UNCHANGED <<dispatchVars, semVars>>

\* try_down: take a unit if there is one, never block
TryDown(p) ==
    /\ Active(p)
    /\ pc[p] = "out"
    /\ HasUnit
    /\ value' = value - 1
    /\ UNCHANGED <<dispatchVars, valid, queue, wakeup_flags, killed, pc, panic>>

\* p gives its processor up outside the semaphore code, still RUNNABLE: the
\* trap return path calls schedule(), or p blocks on something else that is
\* over by the time it is dispatched again.
Preempt(p) ==
    /\ Active(p)
    /\ pc[p] = "out"
    /\ Leave(p)
    /\ UNCHANGED <<state, wait_state, semVars>>

\* __do_kill(p) by the process k: mark p, wake it if its wait is interruptible
Kill(k, p) ==
    /\ Active(k)
    /\ k # p
    /\ pc[k] = "out"
    /\ ~killed[p]
    /\ killed' = [killed EXCEPT ![p] = TRUE]
    /\ Wakeup(IF Interruptible(wait_state[p]) THEN {p} ELSE {})
    /\ UNCHANGED <<running, value, valid, queue, wakeup_flags, pc, panic>>

\* A killed process exits on its way back to user mode.
Exit(p) ==
    /\ Active(p)
    /\ pc[p] = "out"
    /\ killed[p]
    /\ state' = [state EXCEPT ![p] = "ZOMBIE"]
    /\ Leave(p)
    /\ UNCHANGED <<wait_state, semVars>>

Resume(p) ==
    /\ panic = "none"
    /\ Dispatch(p)
    /\ UNCHANGED semVars

\* The processes whose __down has been given a unit it has not returned yet.
Granted == {p \in Procs : pc[p] \in {"slept", "blocked"} /\ wakeup_flags[p] = Kind}

SemTypeOK ==
    /\ running \subseteq Procs
    /\ state \in [Procs -> ProcStates]
    /\ wait_state \in [Procs -> {"0", Kind}]
    /\ value \in Nat
    /\ valid \in BOOLEAN
    /\ queue \in Seq(Procs)
    /\ wakeup_flags \in [Procs -> {"WT_INTERRUPTED", Kind}]
    /\ killed \in [Procs -> BOOLEAN]
    /\ pc \in [Procs -> Locations]
    /\ panic \in Asserts
=============================================================================
