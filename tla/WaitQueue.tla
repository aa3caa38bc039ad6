----------------------------- MODULE WaitQueue ------------------------------
(***************************************************************************)
(* The wait queues of sync/wait.c.  A queue is the sequence of the         *)
(* processes whose wait_t it links, first waiter first.  A process blocks  *)
(* in one place at a time, so its wait_t (on its kernel stack) is          *)
(* represented by the process itself and wakeup_flags[p].                  *)
(***************************************************************************)
EXTENDS Dispatch, Sequences

VARIABLE wakeup_flags   \* wait->wakeup_flags of the wait_t of each process

WaitInQueue(q, p) == \E i \in 1..Len(q) : q[i] = p

\* No process is linked twice: a wait_t has one wait_link.
NoDuplicates(q) == \A i, j \in 1..Len(q) : q[i] = q[j] => i = j

\* list_add_before the head of the list: at the end.
AddFirst(q, p) == <<p>> \o q
WaitQueueAdd(q, p) == Append(q, p)

WaitQueueDel(q, p) ==
    LET i == CHOOSE i \in 1..Len(q) : q[i] = p
    IN  SubSeq(q, 1, i - 1) \o SubSeq(q, i + 1, Len(q))

\* Leave the queue if still in it.
WaitCurrentDel(q, p) == IF WaitInQueue(q, p) THEN WaitQueueDel(q, p) ELSE q

WaitCurrentSet_KeepFlags(p, w) == GoToSleep(p, w) /\ UNCHANGED wakeup_flags

\* wait_init and the assignments of wait_current_set
WaitCurrentSet(p, w) ==
    /\ GoToSleep(p, w)
    /\ wakeup_flags' = [wakeup_flags EXCEPT ![p] = "WT_INTERRUPTED"]

\* wakeup_wait for every process of S
WakeupWait(S, flags) ==
    /\ Wakeup(S)
    /\ wakeup_flags' = [p \in Procs |->
                          IF p \in S THEN flags ELSE wakeup_flags[p]]

\* The WT_INTERRUPTED bit of a wait_state: neither 0 nor WT_KSEM nor
\* WT_KSWAPD has it, every other wait has.
AnyWait(w) == w # "0"
Interruptible(w) == w \notin {"0", "WT_KSEM", "WT_KSWAPD"}
=============================================================================
