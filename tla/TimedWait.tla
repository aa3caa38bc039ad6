----------------------------- MODULE TimedWait ------------------------------
(***************************************************************************)
(* Waiting with a timeout on one processor: do_sleep, and the protocol of  *)
(* every ipc_* call with a timeout (ipc_timer_init, ipc_add_timer,         *)
(* schedule(), ipc_del_timer, ipc_check_timeout of sync/ipc.h), against    *)
(* the timer interrupt of arch/riscv_64/trap/trap.c.                       *)
(***************************************************************************)
EXTENDS TimerList

VARIABLES
    waiting,    \* the processes inside a timed wait
    asleep,     \* those of them that are SLEEPING
    timeout,    \* the argument of the call
    elapsed,    \* ticks - saved_ticks, counted up to MaxElapsed
    fired,      \* history: the processes that their timer woke
    result,     \* what the last wait that nobody ended with success returned
    panic       \* the assertion of run_timer_list failed

callVars == <<waiting, asleep, timeout, elapsed, fired, result>>
vars == <<timerVars, callVars, panic>>

\* No timeout is longer, so later ticks change no comparison.
MaxElapsed == 2^Width

Init ==
    /\ TimerInit
    /\ waiting = {} /\ asleep = {} /\ fired = {}
    /\ timeout = [p \in Procs |-> 0]
    /\ elapsed = [p \in Procs |-> 0]
    /\ result = [p \in Procs |-> "none"]
    /\ panic = FALSE

\* ipc_timer_init, SLEEPING, add_timer, schedule()
Sleep(p, n) ==
    /\ ~panic
    /\ p \notin waiting
    /\ AddTimer(p, n)
    /\ waiting' = waiting \cup {p}
    /\ asleep' = asleep \cup {p}
    /\ timeout' = [timeout EXCEPT ![p] = n]
    /\ elapsed' = [elapsed EXCEPT ![p] = 0]
    /\ fired' = fired \ {p}
    /\ result' = [result EXCEPT ![p] = "none"]
    /\ UNCHANGED panic

\* IRQ_S_TIMER on processor 0: ++ticks, run_timer_list.  wakeup_proc only
\* warns when the process is RUNNABLE already.
Tick ==
    /\ ~panic
    /\ elapsed' = [p \in Procs |->
                     IF p \in waiting /\ elapsed[p] < MaxElapsed
                     THEN elapsed[p] + 1 ELSE elapsed[p]]
    /\ IF HeadPending
       THEN /\ RunTimerList
            /\ asleep' = asleep \ Expired
            /\ fired' = fired \cup (Expired \cap asleep)
            /\ UNCHANGED panic
       ELSE panic' = TRUE /\ UNCHANGED <<timerVars, asleep, fired>>
    /\ UNCHANGED <<waiting, timeout, result>>

\* A post, a message or do_kill wakes p first; its timer stays in the list
\* until p runs again.
WokenEarly(p) ==
    /\ ~panic
    /\ p \in asleep
    /\ asleep' = asleep \ {p}
    /\ UNCHANGED <<timerVars, waiting, timeout, elapsed, fired, result, panic>>

CheckTimeout_Late(p) == IF elapsed[p] > timeout[p] THEN "E_TIMEOUT" ELSE "-1"

\* ipc_check_timeout
CheckTimeout(p) == IF elapsed[p] >= timeout[p] THEN "E_TIMEOUT" ELSE "-1"

\* The locals of the call are gone.
Forget(p) ==
    /\ timeout' = [timeout EXCEPT ![p] = 0]
    /\ elapsed' = [elapsed EXCEPT ![p] = 0]

Return_KeepTimer(p) ==
    /\ ~panic
    /\ p \in waiting \ asleep
    /\ waiting' = waiting \ {p}
    /\ result' = [result EXCEPT ![p] = CheckTimeout(p)]
    /\ Forget(p)
    /\ UNCHANGED <<timerVars, asleep, fired, panic>>

\* Back from schedule(): del_timer and, when the wait failed, its error
Return(p) ==
    /\ ~panic
    /\ p \in waiting \ asleep
    /\ DelTimer(p)
    /\ waiting' = waiting \ {p}
    /\ result' = [result EXCEPT ![p] = CheckTimeout(p)]
    /\ Forget(p)
    /\ UNCHANGED <<asleep, fired, panic>>

Next ==
    \/ Tick
    \/ \E p \in Procs :
           \/ \E n \in Word \ {0} : Sleep(p, n)
           \/ WokenEarly(p)
           \/ Return(p)

Spec == Init /\ [][Next]_vars

\* The clock ticks, and a process that was woken gets the processor.
FairSpec == Spec /\ WF_vars(Tick) /\ \A p \in Procs : WF_vars(Return(p))

----------------------------------------------------------------------------
(* Properties                                                              *)

\* Every variable has its type, and every timer in the list belongs, once, to
\* a process inside its wait (the timer_t is on that process's stack).
TypeOK ==
    /\ tl \in Seq(waiting)
    /\ \A i, j \in 1..Len(tl) : tl[i] = tl[j] => i = j
    /\ expires \in [Procs -> Word]
    /\ asleep \subseteq waiting /\ waiting \subseteq Procs /\ fired \subseteq Procs
    /\ timeout \in [Procs -> Word] /\ elapsed \in [Procs -> 0..MaxElapsed]
    /\ result \in [Procs -> {"none", "E_TIMEOUT", "-1"}]
    /\ panic \in BOOLEAN

\* assert(timer->expires != 0) of run_timer_list never fails, whatever timers
\* come and go between two ticks.
NoZeroHead == ~panic

\* A wait that its timer ended reports E_TIMEOUT, never -1.
TimeoutReported ==
    \A p \in fired : result[p] # "none" => result[p] = "E_TIMEOUT"

\* A wait with a timeout ends, whether or not anybody else wakes the process
\* and whatever timers others set and cancel meanwhile.
TimedWaitEnds == \A p \in Procs : p \in waiting ~> p \notin waiting

Independent == INSTANCE Timeouts
                 WITH MaxTimeout <- 2^Width - 1,
                      remaining <- [p \in Procs |-> Remaining(p)]

\* The differences in the list amount to independent timeouts: each process
\* is woken exactly as many ticks after its call as it asked for.
Implements == Independent!Spec
=============================================================================
