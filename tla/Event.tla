-------------------------------- MODULE Event --------------------------------
(***************************************************************************)
(* The events of sync/event.c on one processor: ipc_event_send and         *)
(* ipc_event_recv are a rendezvous.  A sender waits in the queue of the    *)
(* receiver's event_box until the receiver takes its event; a receiver     *)
(* sleeps when its own queue is empty.  Either side may have a timeout, be *)
(* killed or exit.  The code between two calls of schedule() is one action *)
(* (one processor, and interrupts stay off), a timer is armed or not.      *)
(* With UCONFIG_SWAP every send returns -E_INVAL; the model is the build   *)
(* without it, the default.                                                *)
(***************************************************************************)
EXTENDS WaitQueue

CONSTANT Events     \* the values an event may have

VARIABLES
    event,      \* proc->event_box.event, the event a sender offers
    senders,    \* proc->event_box.wait_queue
    pc,         \* "out", "send" and "recv" (inside schedule())
    target,     \* whom a sender sends to
    armed,      \* the processes whose timer is in the timer list
    ok,         \* the processes whose last call returned 0
    taken       \* history: the values received from each process since its last send

callVars == <<event, pc, target, armed>>
history == <<ok, taken>>
vars == <<dispatchVars, wakeup_flags, senders, callVars, history>>

Init ==
    /\ DispatchInit
    /\ wakeup_flags = [p \in Procs |-> "WT_INTERRUPTED"]
    /\ event \in [Procs -> Events]
    /\ senders = [p \in Procs |-> <<>>]
    /\ pc = [p \in Procs |-> "out"]
    /\ target = [p \in Procs |-> p]
    /\ armed = {}
    /\ ok = {}
    /\ taken = [p \in Procs |-> <<>>]

At(p, l) == p \in running /\ pc[p] = l

\* ipc_add_timer, ipc_del_timer
MaySetTimer(p) == armed' \in {armed, armed \cup {p}}
ClearTimer(p) == armed' = armed \ {p}

----------------------------------------------------------------------------
(* ipc_event_send                                                          *)

Send_NoWakeup(p, r, e) ==
    /\ At(p, "out")
    /\ r # p /\ state[r] # "ZOMBIE"
    /\ WaitCurrentSet(p, "WT_EVENT_SEND")
    /\ Leave(p)
    /\ event' = [event EXCEPT ![p] = e]
    /\ senders' = [senders EXCEPT ![r] = WaitQueueAdd(@, p)]
    /\ MaySetTimer(p)
    /\ pc' = [pc EXCEPT ![p] = "send"]
    /\ target' = [target EXCEPT ![p] = r]
    /\ taken' = [taken EXCEPT ![p] = <<>>]
    /\ ok' = ok \ {p}

\* Wake the receiver if it waits for an event, store the event, join the
\* receiver's queue, set the timer, schedule().  A pid that is not found, or
\* is a zombie or the caller, is refused.
Send(p, r, e) ==
    /\ At(p, "out")
    /\ r # p /\ state[r] # "ZOMBIE"
    /\ LET woken == IF wait_state[r] = "WT_EVENT_RECV" THEN {r} ELSE {}
       IN  /\ state' = [q \in Procs |-> CASE q = p -> "SLEEPING"
                                          [] q \in woken -> "RUNNABLE"
                                          [] OTHER -> state[q]]
           /\ wait_state' = [q \in Procs |-> CASE q = p -> "WT_EVENT_SEND"
                                               [] q \in woken -> "0"
                                               [] OTHER -> wait_state[q]]
    /\ wakeup_flags' = [wakeup_flags EXCEPT ![p] = "WT_INTERRUPTED"]
    /\ Leave(p)
    /\ event' = [event EXCEPT ![p] = e]
    /\ senders' = [senders EXCEPT ![r] = WaitQueueAdd(@, p)]
    /\ MaySetTimer(p)
    /\ pc' = [pc EXCEPT ![p] = "send"]
    /\ target' = [target EXCEPT ![p] = r]
    /\ taken' = [taken EXCEPT ![p] = <<>>]
    /\ ok' = ok \ {p}

\* Back from schedule(): 0 when the receiver took the event
SendReturn(p) ==
    /\ At(p, "send")
    /\ ClearTimer(p)
    /\ senders' = [senders EXCEPT ![target[p]] = WaitCurrentDel(@, p)]
    /\ pc' = [pc EXCEPT ![p] = "out"]
    /\ ok' = IF wakeup_flags[p] = "WT_EVENT_SEND" THEN ok \cup {p} ELSE ok
    /\ UNCHANGED <<dispatchVars, wakeup_flags, event, target, taken>>

----------------------------------------------------------------------------
(* ipc_event_recv                                                          *)

TakeFirst_NoFlags(p) ==
    LET s == Head(senders[p])
    IN  /\ senders' = [senders EXCEPT ![p] = Tail(@)]
        /\ Wakeup({s})
        /\ taken' = [taken EXCEPT ![s] = Append(@, event[s])]
        /\ UNCHANGED wakeup_flags

\* Take the event of the first sender, wakeup_wait
TakeFirst(p) ==
    LET s == Head(senders[p])
    IN  /\ senders' = [senders EXCEPT ![p] = Tail(@)]
        /\ WakeupWait({s}, "WT_EVENT_SEND")
        /\ taken' = [taken EXCEPT ![s] = Append(@, event[s])]

RecvAtOnce(p) ==
    /\ At(p, "out")
    /\ senders[p] # <<>>
    /\ TakeFirst(p)
    /\ UNCHANGED <<running, callVars, ok>>

RecvBlocks(p) ==
    /\ At(p, "out")
    /\ senders[p] = <<>>
    /\ GoToSleep(p, "WT_EVENT_RECV")
    /\ Leave(p)
    /\ MaySetTimer(p)
    /\ pc' = [pc EXCEPT ![p] = "recv"]
    /\ UNCHANGED <<wakeup_flags, senders, event, target, history>>

\* Back from schedule(), for whatever reason: a sender may be there or not
RecvReturn(p) ==
    /\ At(p, "recv")
    /\ ClearTimer(p)
    /\ pc' = [pc EXCEPT ![p] = "out"]
    /\ IF senders[p] = <<>>
       THEN UNCHANGED <<state, wait_state, wakeup_flags, senders, taken>>
       ELSE TakeFirst(p)
    /\ UNCHANGED <<running, event, target, ok>>

----------------------------------------------------------------------------
(* The rest of the kernel.                                                 *)

\* The senders that __do_exit interrupts
ToInterrupt_None(p) == {}
ToInterrupt(p) == {senders[p][i] : i \in 1..Len(senders[p])}

\* __do_exit: ZOMBIE, wakeup_queue(event_box, WT_INTERRUPTED), schedule()
Exit(p) ==
    /\ At(p, "out")
    /\ LET S == ToInterrupt(p)
       IN  /\ state' = [q \in Procs |-> CASE q = p -> "ZOMBIE"
                                          [] q \in S -> "RUNNABLE"
                                          [] OTHER -> state[q]]
           /\ wait_state' = [q \in Procs |-> IF q \in S /\ state[q] # "RUNNABLE"
                                             THEN "0" ELSE wait_state[q]]
           /\ wakeup_flags' = [q \in Procs |-> IF q \in S THEN "WT_INTERRUPTED"
                                                          ELSE wakeup_flags[q]]
           /\ senders' = [senders EXCEPT ![p] = SelectSeq(@, LAMBDA q : q \notin S)]
    /\ Leave(p)
    /\ UNCHANGED <<callVars, history>>

\* run_timer_list, in user mode or by the idle process
TimerFires(p) ==
    /\ p \in armed
    /\ \A q \in running : pc[q] = "out"
    /\ Wakeup({p})
    /\ ClearTimer(p)
    /\ UNCHANGED <<running, wakeup_flags, senders, event, pc, target, history>>

\* __do_kill of a process that waits here
Interrupt(p) ==
    /\ Interruptible(wait_state[p])
    /\ Wakeup({p})
    /\ UNCHANGED <<running, wakeup_flags, senders, callVars, history>>

Yield(p) ==
    /\ At(p, "out")
    /\ Leave(p)
    /\ UNCHANGED <<state, wait_state, wakeup_flags, senders, callVars, history>>

Resume(p) ==
    /\ Dispatch(p)
    /\ UNCHANGED <<wakeup_flags, senders, callVars, history>>

Next ==
    \E p \in Procs :
        \/ \E r \in Procs, e \in Events : Send(p, r, e)
        \/ SendReturn(p)
        \/ RecvAtOnce(p) \/ RecvBlocks(p) \/ RecvReturn(p)
        \/ Exit(p) \/ TimerFires(p) \/ Interrupt(p) \/ Yield(p) \/ Resume(p)

Spec == Init /\ [][Next]_vars

----------------------------------------------------------------------------
(* Properties                                                              *)

\* Every variable has its type, and a timer belongs to a wait.
TypeOK ==
    /\ running \subseteq Procs /\ Cardinality(running) <= NCPU
    /\ state \in [Procs -> ProcStates]
    /\ wait_state \in [Procs -> {"0", "WT_EVENT_SEND", "WT_EVENT_RECV"}]
    /\ wakeup_flags \in [Procs -> {"WT_INTERRUPTED", "WT_EVENT_SEND"}]
    /\ event \in [Procs -> Events]
    /\ senders \in [Procs -> Seq(Procs)]
    /\ pc \in [Procs -> {"out", "send", "recv"}]
    /\ target \in [Procs -> Procs]
    /\ armed \subseteq {p \in Procs : pc[p] # "out"}
    /\ ok \subseteq Procs
    /\ taken \in [Procs -> Seq(Events)]

\* Both sides agree: when ipc_event_send returned 0, exactly one
\* ipc_event_recv has taken its event, with its value; when it failed, none
\* has -- even if the sender's timer or a kill woke it before it was served.
Agreement ==
    \A p \in Procs :
        pc[p] = "out" => taken[p] = IF p \in ok THEN <<event[p]>> ELSE <<>>

\* No rendezvous is missed: a receiver sleeps only while nobody offers it an
\* event.
ReceiverNotStranded ==
    \A p \in Procs : pc[p] = "recv" /\ state[p] = "SLEEPING" => senders[p] = <<>>

\* Nobody waits for a process that has exited, and a sender that sleeps is in
\* the queue of its target, where the target will find it.  In turn an event
\* box holds only processes that are still inside the call: their wait_t is
\* on their kernel stack.
SendersLinked ==
    /\ \A p \in Procs : pc[p] = "send" /\ state[p] = "SLEEPING" =>
           /\ state[target[p]] # "ZOMBIE"
           /\ WaitInQueue(senders[target[p]], p)
    /\ \A r \in Procs : \A i \in 1..Len(senders[r]) :
           pc[senders[r][i]] = "send" /\ target[senders[r][i]] = r

\* The event_box that a sender returns to still exists: its receiver is no
\* zombie, which do_wait may free at any time.  (Broken when the receiver exits:
\* README, section 3.)
BoxOutlivesSender == \A p \in Procs : pc[p] = "send" => state[target[p]] # "ZOMBIE"
=============================================================================
