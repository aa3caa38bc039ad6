-------------------------------- MODULE Sched --------------------------------
(***************************************************************************)
(* The scheduler: schedule/sched.c with the round-robin run queues of      *)
(* sched_RR.c (sched_MLFQ.c, the default class, passes everything on to    *)
(* them), proc_run of process/proc.c, switch_to and cpu_idle.              *)
(*                                                                         *)
(* Each processor executes its current process (or Idle) and runs          *)
(* schedule() and wakeup_proc() step by step: the steps of different       *)
(* processors interleave, because the locks around them are commented out  *)
(* in the code.  An operation on a run-queue list is one step (what two    *)
(* unlocked list operations at once would leave behind is undefined).      *)
(***************************************************************************)
EXTENDS Integers, Sequences, FiniteSetsExt

CONSTANTS
    Procs,          \* the processes, idle processes excluded (pid >= NCPU)
    First,          \* the process that exists when the scheduler starts
    NCPU,
    MaxSlice,       \* rq->max_time_slice
    MinMove,        \* load_balance moves nothing unless needs > MinMove
    Idle            \* the idle process of each processor

ASSUME SchedConstants ==
    /\ First \in Procs /\ Idle \notin Procs
    /\ NCPU \in Nat \ {0} /\ MaxSlice \in Nat \ {0} /\ MinMove \in Nat

CPUs == 0..NCPU - 1
NoCPU == NCPU

VARIABLES
    current,        \* mycpu()->proc
    prev,           \* mycpu()->prev
    next,           \* the local variable of schedule(), or wakeup_proc's proc
    phase,          \* where each processor is
    rq,             \* the run list of each processor, first to run first
    home,           \* proc->rq as a processor number, NoCPU when NULL
    state,          \* proc->state
    slice,          \* proc->time_slice
    need_resched,   \* current->need_resched of each processor
    panic           \* the assertion that failed

vars == <<current, prev, next, phase, rq, home, state, slice, need_resched, panic>>

States == {"UNINIT", "SLEEPING", "RUNNABLE", "ZOMBIE"}

Linked(p) == \E c \in CPUs : \E i \in 1..Len(rq[c]) : rq[c][i] = p

Runnable(p) == p = Idle \/ state[p] = "RUNNABLE"

At(c, l) == panic = "none" /\ phase[c] = l
Goto(c, l) == phase' = [phase EXCEPT ![c] = l]

Init ==
    /\ current = [c \in CPUs |-> Idle]
    /\ prev = [c \in CPUs |-> Idle]
    /\ next = [c \in CPUs |-> Idle]
    /\ phase = [c \in CPUs |-> "run"]
    /\ rq = [c \in CPUs |-> IF c = 0 THEN <<First>> ELSE <<>>]
    /\ home = [p \in Procs |-> IF p = First THEN 0 ELSE NoCPU]
    /\ state = [p \in Procs |-> IF p = First THEN "RUNNABLE" ELSE "UNINIT"]
    /\ slice = [p \in Procs |-> IF p = First THEN MaxSlice ELSE 0]
    /\ need_resched = [c \in CPUs |-> TRUE]
    /\ panic = "none"

----------------------------------------------------------------------------
(* The run queue of a scheduling class.                                    *)

\* RR_enqueue: assert(list_empty(&(proc->run_link))), then to the end
EnqueueFirst(q, p) == <<p>> \o q
EnqueueLast(q, p) == Append(q, p)

Enqueue(c, p) ==
    IF Linked(p)
    THEN /\ panic' = "enqueue"
         /\ UNCHANGED <<rq, home, slice>>
    ELSE /\ rq' = [rq EXCEPT ![c] = EnqueueLast(@, p)]
         /\ home' = [home EXCEPT ![p] = c]
         /\ slice' = [slice EXCEPT ![p] = IF @ = 0 \/ @ > MaxSlice THEN MaxSlice ELSE @]
         /\ UNCHANGED panic

\* list_del_init
Without(q, p) == LET Other(e) == e # p IN SelectSeq(q, Other)

\* load_balance: the longest queue gives up to this processor, from its
\* front, half of what it has more.
Busiest == CHOOSE c \in CPUs : /\ \A d \in CPUs : Len(rq[d]) <= Len(rq[c])
                               /\ \A d \in CPUs : Len(rq[d]) = Len(rq[c]) => c <= d

TotalLoad ==
    LET Sum[c \in 0..NCPU] == IF c = 0 THEN 0 ELSE Sum[c - 1] + Len(rq[c - 1])
    IN  Sum[NCPU]

Needs(c) == Min({(NCPU * Len(rq[Busiest]) - TotalLoad) \div NCPU,
                 (TotalLoad - NCPU * Len(rq[c])) \div NCPU})

Balance(c) ==
    IF Needs(c) > MinMove /\ Busiest # c
    THEN LET b == Busiest
             moved == SubSeq(rq[b], 1, Needs(c))
         IN  /\ rq' = [rq EXCEPT ![b] = SubSeq(@, Needs(c) + 1, Len(@)),
                                 ![c] = @ \o moved]
             /\ home' = [p \in Procs |-> IF \E i \in 1..Len(moved) : moved[i] = p
                                         THEN c ELSE home[p]]
    ELSE UNCHANGED <<rq, home>>

----------------------------------------------------------------------------
(* schedule()                                                              *)

\* Called by kernel code that has stopped its process, or when need_resched is
\* seen by the trap return path or by cpu_idle; clears need_resched, balances.
Schedule(c) ==
    /\ \/ At(c, "stop")
       \/ At(c, "run") /\ need_resched[c]
    /\ need_resched' = [need_resched EXCEPT ![c] = FALSE]
    /\ Balance(c)
    /\ Goto(c, "pick")
    /\ UNCHANGED <<current, prev, next, state, slice, panic>>

\* sched_class_pick_next: the head of this processor's queue
PickNext(c) ==
    /\ At(c, "pick")
    /\ rq[c] # <<>>
    /\ next' = [next EXCEPT ![c] = Head(rq[c])]
    /\ Goto(c, "dequeue")
    /\ UNCHANGED <<current, prev, rq, home, state, slice, need_resched, panic>>

PickNone(c) ==
    /\ At(c, "pick")
    /\ rq[c] = <<>>
    /\ Goto(c, "decide")
    /\ UNCHANGED <<current, prev, next, rq, home, state, slice, need_resched, panic>>

\* proc_run: make p current, then switch_to
RunNext(c, p) ==
    IF p = current[c]
    THEN Goto(c, "run") /\ UNCHANGED <<current, prev>>
    ELSE /\ prev' = [prev EXCEPT ![c] = current[c]]
         /\ current' = [current EXCEPT ![c] = p]
         /\ Goto(c, "switch")

\* sched_class_dequeue: assert(!list_empty(..) && proc->rq == rq)
Dequeue(c) ==
    /\ At(c, "dequeue")
    /\ IF Linked(next[c]) /\ home[next[c]] = c
       THEN /\ rq' = [rq EXCEPT ![c] = Without(@, next[c])]
            /\ RunNext(c, next[c])
            /\ UNCHANGED panic
       ELSE /\ panic' = "dequeue"
            /\ UNCHANGED <<rq, current, prev, phase>>
    /\ UNCHANGED <<next, home, state, slice, need_resched>>

\* Nothing queued: go on with the current process if it can, else idle
Decide(c) ==
    /\ At(c, "decide")
    /\ RunNext(c, IF Runnable(current[c]) THEN current[c] ELSE Idle)
    /\ UNCHANGED <<next, rq, home, state, slice, need_resched, panic>>

\* post_switch, called by switch_to once the registers of prev are saved
MustRequeue_Linked(p) == p # Idle /\ state[p] = "RUNNABLE" /\ Linked(p)
MustRequeue_Any(p) == p # Idle /\ ~Linked(p)
MustRequeue(p) == p # Idle /\ state[p] = "RUNNABLE" /\ ~Linked(p)

PostSwitch(c) ==
    /\ At(c, "switch")
    /\ Goto(c, IF MustRequeue(prev[c]) THEN "requeue" ELSE "run")
    /\ UNCHANGED <<current, prev, next, rq, home, state, slice, need_resched, panic>>

Requeue(c) ==
    /\ At(c, "requeue")
    /\ Enqueue(c, prev[c])
    /\ Goto(c, "run")
    /\ UNCHANGED <<current, prev, next, state, need_resched>>

----------------------------------------------------------------------------
(* wakeup_proc()                                                           *)

\* if (proc != current): a process that wakes itself up is not queued
ToQueue(c, p) == p # current[c]

\* state = RUNNABLE; the caller is the current process, also when it has just
\* stopped (__do_exit wakes the parent), or an interrupt
Wakeup(c, p) ==
    /\ At(c, "run") \/ At(c, "stop")
    /\ state[p] = "SLEEPING"
    /\ state' = [state EXCEPT ![p] = "RUNNABLE"]
    /\ next' = [next EXCEPT ![c] = p]
    /\ Goto(c, IF ~ToQueue(c, p) THEN phase[c]
               ELSE IF phase[c] = "run" THEN "wakeup" ELSE "wakeup_stop")
    /\ UNCHANGED <<current, prev, rq, home, slice, need_resched, panic>>

\* sched_class_enqueue_after_wakeup: to proc->rq, or for a new process to
\* the queue of the processor that forked it
WakeupEnqueue(c) ==
    /\ At(c, "wakeup") \/ At(c, "wakeup_stop")
    /\ Enqueue(IF home[next[c]] = NoCPU THEN c ELSE home[next[c]], next[c])
    /\ Goto(c, IF phase[c] = "wakeup" THEN "run" ELSE "stop")
    /\ UNCHANGED <<current, prev, next, state, need_resched>>

\* The end of do_fork: the child gets half of the time slice, then wakeup_proc
Fork(c, p) ==
    /\ At(c, "run")
    /\ current[c] # Idle
    /\ state[p] = "UNINIT"
    /\ state' = [state EXCEPT ![p] = "RUNNABLE"]
    /\ LET half == slice[current[c]] \div 2
       IN  slice' = [slice EXCEPT ![p] = half, ![current[c]] = @ - half]
    /\ next' = [next EXCEPT ![c] = p]
    /\ Goto(c, "wakeup")
    /\ UNCHANGED <<current, prev, rq, home, need_resched, panic>>

----------------------------------------------------------------------------
(* What the current process and the clock do.                              *)

\* A blocking system call or the end of __do_exit; schedule() comes next.
Stop(c, s) ==
    /\ At(c, "run")
    /\ current[c] # Idle
    /\ state' = [state EXCEPT ![current[c]] = s]
    /\ Goto(c, "stop")
    /\ UNCHANGED <<current, prev, next, rq, home, slice, need_resched, panic>>

\* RR_proc_tick: if (proc->time_slice > 0) proc->time_slice--
SliceLeft_NoTest(p) == slice[p] - 1
SliceLeft(p) == IF slice[p] > 0 THEN slice[p] - 1 ELSE 0

\* sched_class_proc_tick, from run_timer_list
Tick(c) ==
    /\ At(c, "run")
    /\ IF current[c] = Idle
       THEN need_resched' = [need_resched EXCEPT ![c] = TRUE] /\ UNCHANGED slice
       ELSE LET left == SliceLeft(current[c])
            IN  /\ slice' = [slice EXCEPT ![current[c]] = left]
                /\ need_resched' = [need_resched EXCEPT ![c] = @ \/ left = 0]
    /\ UNCHANGED <<current, prev, next, phase, rq, home, state, panic>>

\* do_yield
Yield(c) ==
    /\ At(c, "run")
    /\ current[c] # Idle
    /\ need_resched' = [need_resched EXCEPT ![c] = TRUE]
    /\ UNCHANGED <<current, prev, next, phase, rq, home, state, slice, panic>>

KernelStep(c) ==
    Schedule(c) \/ PickNext(c) \/ PickNone(c) \/ Dequeue(c) \/ Decide(c)
    \/ PostSwitch(c) \/ Requeue(c) \/ WakeupEnqueue(c)

Next ==
    \E c \in CPUs :
        \/ KernelStep(c)
        \/ Tick(c) \/ Yield(c)
        \/ Stop(c, "SLEEPING") \/ Stop(c, "ZOMBIE")
        \/ \E p \in Procs : Wakeup(c, p) \/ Fork(c, p)

Spec == Init /\ [][Next]_vars

\* Processors run on and the clock ticks; a processor that keeps coming back
\* from the kernel takes a pending tick and sees need_resched.
Fairness ==
    \A c \in CPUs : SF_vars(KernelStep(c)) /\ SF_vars(Tick(c))

FairSpec == Spec /\ Fairness

----------------------------------------------------------------------------
(* Properties                                                              *)

\* Every variable has its type.
TypeOK ==
    /\ current \in [CPUs -> Procs \cup {Idle}]
    /\ prev \in [CPUs -> Procs \cup {Idle}]
    /\ next \in [CPUs -> Procs \cup {Idle}]
    /\ phase \in [CPUs -> {"run", "stop", "pick", "dequeue", "decide", "switch",
                       "requeue", "wakeup", "wakeup_stop"}]
    /\ rq \in [CPUs -> Seq(Procs)]
    /\ home \in [Procs -> CPUs \cup {NoCPU}]
    /\ state \in [Procs -> States]
    /\ slice \in [Procs -> 0..MaxSlice]
    /\ need_resched \in [CPUs -> BOOLEAN]
    /\ panic \in {"none", "enqueue", "dequeue"}

\* The processes a processor is about to put into a run queue.
InTransit(p) ==
    \E c \in CPUs : \/ phase[c] \in {"switch", "requeue"} /\ prev[c] = p
                    \/ phase[c] \in {"wakeup", "wakeup_stop"} /\ next[c] = p

\* A process that can run is never forgotten: it is current, in a run queue
\* or just about to be put into one.
RunnableKept ==
    \A p \in Procs : state[p] = "RUNNABLE" =>
        Linked(p) \/ InTransit(p) \/ \E c \in CPUs : current[c] = p

\* A run queue holds only processes that can run, none of them twice, and
\* none that a processor is executing; so the assertions of RR_enqueue and
\* RR_dequeue hold: a process is put into a queue only when it is in none, and
\* taken out only of the one it is in.
QueueSound ==
    /\ panic = "none"
    /\ \A c \in CPUs :
           /\ \A i \in 1..Len(rq[c]) :
                 /\ state[rq[c][i]] = "RUNNABLE"
                 /\ \A d \in CPUs : current[d] # rq[c][i]
           /\ \A i, j \in 1..Len(rq[c]) : rq[c][i] = rq[c][j] => i = j

\* RR_enqueue: assert(list_empty(&(proc->run_link)))
EnqueuedOnce == panic # "enqueue"

\* RR_dequeue: assert(!list_empty(&(proc->run_link)) && proc->rq == rq).  With
\* two processors load_balance breaks it (README, section 3).
DequeuedFromOwnQueue == panic # "dequeue"

\* The scheduler gives the blocking primitives what Dispatch promises them: a
\* process is put on a processor only when it is RUNNABLE and on none yet.
\* (A process that do_fork has not woken yet counts as sleeping.)
Contract == INSTANCE Dispatch WITH
    running <- {current[c] : c \in CPUs} \ {Idle},
    state <- [p \in Procs |-> IF state[p] = "UNINIT" THEN "SLEEPING" ELSE state[p]],
    wait_state <- [p \in Procs |-> IF state[p] \in {"UNINIT", "SLEEPING"} THEN "W" ELSE "0"]

KeepsContract == Contract!DispatchSpec

\* Whoever can run gets a processor: the time slices end, and the queue is
\* first in, first out.
EveryoneRuns == \A p \in Procs : state[p] = "RUNNABLE" ~> \E c \in CPUs : current[c] = p
=============================================================================
