-------------------------------- MODULE Mbox ---------------------------------
(***************************************************************************)
(* A mailbox of sync/mbox.c on one processor: ipc_mbox_init, _send, _recv  *)
(* and _free, with timeouts (TimerList) and do_kill.  The kernel is not    *)
(* preempted, so the code from the look-up of the mailbox to the next call *)
(* of schedule() is one action.  The message is copied between user memory *)
(* and the kernel under lock_mm, which may block: a receiver that has      *)
(* taken its message ("copy") may give up the processor before it stores   *)
(* the message.  ipc_mbox_info only reads.                                 *)
(*                                                                         *)
(* A message is its size, "small" or "big"; a buffer may be too small.     *)
(***************************************************************************)
EXTENDS WaitQueue, Integers

CONSTANTS
    MaxSlots,   \* MAX_MSG_SLOTS, the largest max_slots of a mailbox
    Width       \* see TimerList

ASSUME MaxSlotsAssumption == MaxSlots \in Nat \ {0}
ASSUME OneProcessor == NCPU = 1

VARIABLES
    box,        \* mbox->state
    max_slots, slots, inuse,
    msgs,       \* mbox->msg_link
    senders, receivers,     \* the wait queues
    tl, expires,            \* see TimerList
    pc,         \* where each process is
    arg,        \* the message of a sender, the buffer of a receiver
    timed,      \* the processes whose call was given a timeout
    panic       \* the assertion that failed, "none" while the kernel runs

INSTANCE TimerList

timers == <<tl, expires>>
boxVars == <<box, max_slots, slots, inuse, msgs, senders, receivers>>
callVars == <<pc, arg, timed>>
vars == <<dispatchVars, wakeup_flags, boxVars, timers, callVars, panic>>

Sizes == {"small", "big"}
Waits == {"send_wait", "recv_wait"}     \* inside schedule()

MInit ==
    /\ DispatchInit
    /\ wakeup_flags = [p \in Procs |-> "WT_INTERRUPTED"]
    /\ box = "CLOSED" /\ max_slots = 0 /\ slots = 0 /\ inuse = 0
    /\ msgs = <<>> /\ senders = <<>> /\ receivers = <<>>
    /\ TimerInit
    /\ pc = [p \in Procs |-> "out"]
    /\ arg = [p \in Procs |-> "none"]
    /\ timed = {}
    /\ panic = "none"

Active(p) == p \in running /\ panic = "none"
At(p, l) == Active(p) /\ pc[p] = l
Goto(p, l, a) == pc' = [pc EXCEPT ![p] = l] /\ arg' = [arg EXCEPT ![p] = a]

\* wakeup_first: whom it wakes, and the queue it leaves
First(q) == IF q = <<>> THEN {} ELSE {Head(q)}
Rest(q) == IF q = <<>> THEN q ELSE Tail(q)

Full == max_slots <= slots

----------------------------------------------------------------------------
(* The parts the operations are made of.                                   *)

AddMsg_NoWakeup(ms, rq) ==
    /\ slots' = slots + 1
    /\ msgs' = ms
    /\ receivers' = rq
    /\ UNCHANGED <<state, wait_state, wakeup_flags>>

\* add_msg: ms is the new message list, rq the queue of the receivers
AddMsg(ms, rq) ==
    /\ slots' = slots + 1
    /\ msgs' = ms
    /\ receivers' = Rest(rq)
    /\ WakeupWait(First(rq), "WT_MBOX_RECV")

PickMsg_NoWakeup(p, a, rq) ==
    IF Head(msgs) = "big" /\ a = "small"
    THEN /\ WakeupWait(First(rq), "WT_MBOX_RECV")
         /\ receivers' = Rest(rq)
         /\ Goto(p, "out", "none")
         /\ UNCHANGED <<slots, msgs, senders>>
    ELSE /\ slots' = slots - 1
         /\ msgs' = Tail(msgs)
         /\ receivers' = rq
         /\ Goto(p, "copy", Head(msgs))
         /\ UNCHANGED <<state, wait_state, wakeup_flags, senders>>

\* recv_msg once there is a message: pick_msg into a buffer of size a, or pass
\* the wake-up on to the next receiver when the buffer is too small
PickMsg(p, a, rq) ==
    IF Head(msgs) = "big" /\ a = "small"
    THEN /\ WakeupWait(First(rq), "WT_MBOX_RECV")
         /\ receivers' = Rest(rq)
         /\ Goto(p, "out", "none")
         /\ UNCHANGED <<slots, msgs, senders>>
    ELSE /\ slots' = slots - 1
         /\ msgs' = Tail(msgs)
         /\ WakeupWait(First(senders), "WT_MBOX_SEND")
         /\ senders' = Rest(senders)
         /\ receivers' = rq
         /\ Goto(p, "copy", Head(msgs))

\* The end of send_msg, recv_msg and ipc_mbox_free when n users are left:
\* a mailbox that is being closed goes with the last one (mbox_free).
LastOneFrees(n, ms, sq, rq) ==
    IF n = 0
    THEN /\ box' = "CLOSED" /\ max_slots' = 0 /\ slots' = 0
         /\ panic' = IF ms = <<>> /\ sq = <<>> /\ rq = <<>>
                     THEN panic ELSE "mbox_free"
    ELSE box' = "CLOSING" /\ UNCHANGED <<max_slots, slots, panic>>

\* wait_current_set on the queue of wait_state w, and schedule()
Block(p, w) == WaitCurrentSet(p, w) /\ Leave(p)

\* ipc_timer_init and ipc_add_timer: with no timeout there is no timer
FirstTimer(p) ==
    \/ timed' = timed \ {p} /\ UNCHANGED timers
    \/ \E n \in Word \ {0} : timed' = timed \cup {p} /\ AddTimer(p, n)

EndTimer_Keep(p) == timed' = timed \ {p} /\ UNCHANGED timers
EndTimer(p) == DelTimer(p) /\ timed' = timed \ {p}

\* Another round of the loop: ipc_del_timer and ipc_add_timer with what the
\* first left in timer->expires, which add_timer asserts not to be 0.
AgainTimer(p) ==
    LET d == Deleted(tl, expires, p)
    IN  IF p \notin timed
        THEN UNCHANGED <<timers, panic>>
        ELSE IF d.expires[p] = 0
        THEN panic' = "add_timer" /\ TimersBecome(d)
        ELSE TimersBecome(Added(d.tl, d.expires, p, d.expires[p])) /\ UNCHANGED panic

----------------------------------------------------------------------------
(* ipc_mbox_init, ipc_mbox_free                                            *)

Open(p) ==
    /\ At(p, "out")
    /\ box = "CLOSED"
    /\ box' = "OPENED"
    /\ max_slots' \in 1..MaxSlots
    /\ UNCHANGED <<dispatchVars, wakeup_flags, slots, inuse, msgs, senders, receivers,
                   timers, callVars, panic>>

Woken_Senders(q) == {senders[i] : i \in 1..Len(senders)}
Woken(q) == {q[i] : i \in 1..Len(q)}

\* CLOSING, free the messages, interrupt everybody who waits
Free(p) ==
    /\ At(p, "out")
    /\ box = "OPENED"
    /\ msgs' = <<>> /\ senders' = <<>> /\ receivers' = <<>>
    /\ WakeupWait(Woken(senders) \cup Woken(receivers), "WT_INTERRUPTED")
    /\ LastOneFrees(inuse, <<>>, <<>>, <<>>)
    /\ UNCHANGED <<running, inuse, timers, callVars>>

----------------------------------------------------------------------------
(* ipc_mbox_send                                                           *)

SendAtOnce(p, m) ==
    /\ At(p, "out")
    /\ box = "OPENED"
    /\ ~Full
    /\ AddMsg(Append(msgs, m), receivers)
    /\ UNCHANGED <<running, box, max_slots, inuse, senders, timers, callVars, panic>>

SendBlocks(p, m) ==
    /\ At(p, "out")
    /\ box = "OPENED"
    /\ Full
    /\ inuse' = inuse + 1
    /\ Block(p, "WT_MBOX_SEND")
    /\ senders' = WaitQueueAdd(senders, p)
    /\ FirstTimer(p)
    /\ Goto(p, "send_wait", m)
    /\ UNCHANGED <<box, max_slots, slots, msgs, receivers, panic>>

\* if (mbox->state != OPENED || wait->wakeup_flags != ...)
WaitFailed(p, w) == box # "OPENED" \/ wakeup_flags[p] # w

SendGivesUp(p) ==
    /\ At(p, "send_wait")
    /\ WaitFailed(p, "WT_MBOX_SEND")
    /\ EndTimer(p)
    /\ senders' = WaitCurrentDel(senders, p)
    /\ inuse' = inuse - 1
    /\ IF box = "OPENED"
       THEN UNCHANGED <<box, max_slots, slots, panic>>
       ELSE LastOneFrees(inuse - 1, msgs, senders', receivers)
    /\ Goto(p, "out", "none")
    /\ UNCHANGED <<dispatchVars, wakeup_flags, msgs, receivers>>

SendWaitsAgain(p) ==
    /\ At(p, "send_wait")
    /\ ~WaitFailed(p, "WT_MBOX_SEND")
    /\ Full
    /\ AgainTimer(p)
    /\ Block(p, "WT_MBOX_SEND")
    /\ senders' = WaitQueueAdd(WaitCurrentDel(senders, p), p)
    /\ UNCHANGED <<box, max_slots, slots, inuse, msgs, receivers, callVars>>

SendAfterWait(p) ==
    /\ At(p, "send_wait")
    /\ ~WaitFailed(p, "WT_MBOX_SEND")
    /\ ~Full
    /\ EndTimer(p)
    /\ senders' = WaitCurrentDel(senders, p)
    /\ AddMsg(Append(msgs, arg[p]), receivers)
    /\ inuse' = inuse - 1
    /\ Goto(p, "out", "none")
    /\ UNCHANGED <<running, box, max_slots, panic>>

----------------------------------------------------------------------------
(* ipc_mbox_recv                                                           *)

RecvAtOnce(p, a) ==
    /\ At(p, "out")
    /\ box = "OPENED"
    /\ slots > 0
    /\ PickMsg(p, a, receivers)
    /\ UNCHANGED <<running, box, max_slots, inuse, timers, timed, panic>>

RecvBlocks(p, a) ==
    /\ At(p, "out")
    /\ box = "OPENED"
    /\ slots = 0
    /\ inuse' = inuse + 1
    /\ Block(p, "WT_MBOX_RECV")
    /\ receivers' = WaitQueueAdd(receivers, p)
    /\ FirstTimer(p)
    /\ Goto(p, "recv_wait", a)
    /\ UNCHANGED <<box, max_slots, slots, msgs, senders, panic>>

RecvGivesUp_KeepInuse(p) ==
    /\ At(p, "recv_wait")
    /\ WaitFailed(p, "WT_MBOX_RECV")
    /\ EndTimer(p)
    /\ receivers' = WaitCurrentDel(receivers, p)
    /\ Goto(p, "out", "none")
    /\ UNCHANGED <<dispatchVars, wakeup_flags, box, max_slots, slots, inuse, msgs,
                   senders, panic>>

RecvGivesUp(p) ==
    /\ At(p, "recv_wait")
    /\ WaitFailed(p, "WT_MBOX_RECV")
    /\ EndTimer(p)
    /\ receivers' = WaitCurrentDel(receivers, p)
    /\ inuse' = inuse - 1
    /\ IF box = "OPENED"
       THEN UNCHANGED <<box, max_slots, slots, panic>>
       ELSE LastOneFrees(inuse - 1, msgs, senders, receivers')
    /\ Goto(p, "out", "none")
    /\ UNCHANGED <<dispatchVars, wakeup_flags, msgs, senders>>

RecvWaitsAgain(p) ==
    /\ At(p, "recv_wait")
    /\ ~WaitFailed(p, "WT_MBOX_RECV")
    /\ slots = 0
    /\ AgainTimer(p)
    /\ Block(p, "WT_MBOX_RECV")
    /\ receivers' = WaitQueueAdd(WaitCurrentDel(receivers, p), p)
    /\ UNCHANGED <<box, max_slots, slots, inuse, msgs, senders, callVars>>

RecvAfterWait(p) ==
    /\ At(p, "recv_wait")
    /\ ~WaitFailed(p, "WT_MBOX_RECV")
    /\ slots > 0
    /\ EndTimer(p)
    /\ PickMsg(p, arg[p], WaitCurrentDel(receivers, p))
    /\ inuse' = inuse - 1
    /\ UNCHANGED <<running, box, max_slots, panic>>

\* store_msg, free_msg
CopyOut(p) ==
    /\ At(p, "copy")
    /\ Goto(p, "out", "none")
    /\ UNCHANGED <<dispatchVars, wakeup_flags, boxVars, timers, timed, panic>>

\* The user's memory cannot be written: the message goes back to the front of
\* the mailbox, if it (or one with its id) is still open.
CopyFails(p) ==
    /\ At(p, "copy")
    /\ Goto(p, "out", "none")
    /\ IF box = "OPENED"
       THEN AddMsg(<<arg[p]>> \o msgs, receivers)
       ELSE UNCHANGED <<state, wait_state, wakeup_flags, slots, msgs, receivers>>
    /\ UNCHANGED <<running, box, max_slots, inuse, senders, timers, timed, panic>>

----------------------------------------------------------------------------
(* The rest of the kernel.                                                 *)

\* The timer interrupt, taken in user mode or by the idle process.
Tick ==
    /\ panic = "none"
    /\ \A p \in running : pc[p] = "out"
    /\ tl # <<>>
    /\ IF HeadPending
       THEN RunTimerList /\ Wakeup(Expired) /\ UNCHANGED panic
       ELSE panic' = "run_timer_list" /\ UNCHANGED <<state, wait_state, timers>>
    /\ UNCHANGED <<running, wakeup_flags, boxVars, callVars>>

\* __do_kill of a process that waits here
Interrupt(p) ==
    /\ panic = "none"
    /\ Interruptible(wait_state[p])
    /\ Wakeup({p})
    /\ UNCHANGED <<running, wakeup_flags, boxVars, timers, callVars, panic>>

\* p returns to user mode and is rescheduled, or waits for lock_mm
Yield(p) ==
    /\ At(p, "out") \/ At(p, "copy")
    /\ Leave(p)
    /\ UNCHANGED <<state, wait_state, wakeup_flags, boxVars, timers, callVars, panic>>

Resume(p) ==
    /\ panic = "none"
    /\ Dispatch(p)
    /\ UNCHANGED <<wakeup_flags, boxVars, timers, callVars, panic>>

MNext ==
    \/ Tick
    \/ \E p \in Procs :
           \/ Open(p) \/ Free(p)
           \/ \E m \in Sizes : SendAtOnce(p, m) \/ SendBlocks(p, m)
           \/ SendGivesUp(p) \/ SendWaitsAgain(p) \/ SendAfterWait(p)
           \/ \E a \in Sizes : RecvAtOnce(p, a) \/ RecvBlocks(p, a)
           \/ RecvGivesUp(p) \/ RecvWaitsAgain(p) \/ RecvAfterWait(p)
           \/ CopyOut(p) \/ CopyFails(p)
           \/ Interrupt(p) \/ Yield(p) \/ Resume(p)

MSpec == MInit /\ [][MNext]_vars

----------------------------------------------------------------------------
(* Properties                                                              *)

\* Every variable has its type.
MTypeOK ==
    /\ running \subseteq Procs /\ Cardinality(running) <= NCPU
    /\ state \in [Procs -> {"RUNNABLE", "SLEEPING"}]
    /\ wait_state \in [Procs -> {"0", "WT_MBOX_SEND", "WT_MBOX_RECV"}]
    /\ wakeup_flags \in [Procs -> {"WT_INTERRUPTED", "WT_MBOX_SEND", "WT_MBOX_RECV"}]
    /\ box \in {"CLOSED", "OPENED", "CLOSING"}
    /\ max_slots \in 0..MaxSlots /\ slots \in Nat /\ inuse \in Nat
    /\ msgs \in Seq(Sizes)
    /\ senders \in Seq(Procs) /\ receivers \in Seq(Procs)
    /\ expires \in [Procs -> Word] /\ tl \in Seq(timed) /\ timed \subseteq Procs
    /\ pc \in [Procs -> {"out", "copy"} \cup Waits]
    /\ arg \in [Procs -> Sizes \cup {"none"}]
    /\ panic \in {"none", "mbox_free", "add_timer", "run_timer_list"}

\* slots counts the messages of an open mailbox, inuse the calls that are
\* inside it, and only a mailbox nobody is inside is CLOSED (and reused):
\* when its last user leaves no message and no waiter is left behind, as
\* mbox_free asserts.
CountsExact ==
    /\ inuse = Cardinality({p \in Procs : pc[p] \in Waits})
    /\ box = "OPENED" => slots = Len(msgs)
    /\ box = "CLOSED" => inuse = 0 /\ msgs = <<>>
    /\ panic \notin {"mbox_free", "run_timer_list"}

\* No wake-up is lost: while an open mailbox has a message and a receiver is
\* in the queue, some receiver that add_msg woke has yet to look.
NoStrandedReceiver ==
    box = "OPENED" /\ slots > 0 /\ receivers # <<>> =>
        \E p \in Procs : pc[p] = "recv_wait" /\ wakeup_flags[p] = "WT_MBOX_RECV"

\* The same for a free slot and the senders.
NoStrandedSender ==
    box = "OPENED" /\ ~Full /\ senders # <<>> =>
        \E p \in Procs : pc[p] = "send_wait" /\ wakeup_flags[p] = "WT_MBOX_SEND"

\* A process that sleeps in the mailbox can be woken: it is in a queue of the
\* mailbox, and the mailbox is open.
SleeperReachable ==
    \A p \in Procs : state[p] = "SLEEPING" =>
        box = "OPENED" /\ (WaitInQueue(senders, p) \/ WaitInQueue(receivers, p))

\* assert(timer->expires > 0) of __add_timer (a second wait breaks it: README,
\* section 3)
TimerAddedWithTime == panic # "add_timer"
=============================================================================
