-------------------------------- MODULE Proc ---------------------------------
(***************************************************************************)
(* The life of processes and threads in process/proc.c on one processor:   *)
(* do_fork, do_exit, do_exit_thread, do_wait, do_kill, the family links    *)
(* and thread groups, init_main, and the end of trap() in                  *)
(* arch/riscv_64/trap/trap.c, where a killed process exits.                *)
(*                                                                         *)
(* The code between two calls of schedule() is one block that no other     *)
(* process interrupts.  A trap is cut at "tail", the end of trap(), and an *)
(* exit at "exiting" (closing the files may block).  proc_structs are a    *)
(* fixed set of slots; one that is not in use is "UNUSED".                 *)
(*                                                                         *)
(* Nobody kills init: the kernel panics on purpose ("initproc exit.").     *)
(***************************************************************************)
EXTENDS Dispatch

CONSTANTS
    Init,       \* initproc
    OtherWaits, \* the other waits processes may block in
    Clones,     \* do_fork with (TRUE) or without (FALSE) CLONE_THREAD
    NULL

ASSUME ProcConstants ==
    /\ Init \in Procs /\ NULL \notin Procs
    /\ OtherWaits \subseteq {"WT_TIMER", "WT_KSEM"}
    /\ Clones \subseteq BOOLEAN
    /\ NCPU = 1

VARIABLES
    fam,        \* the family links: functions parent, cptr, yptr, optr
    next_thread,\* thread_group: the next thread of a circular list
    killed,     \* proc->flags & PF_EXITING
    pc,         \* where each process is
    waitfor,    \* the argument of do_wait, NULL for any child
    panic       \* the assertion that failed, "none" while the kernel runs

procVars == <<fam, next_thread, killed, pc, waitfor, panic>>
vars == <<dispatchVars, procVars>>

Users == Procs \ {Init}
Used(p) == state[p] # "UNUSED"

\* "user": in user mode or, while not running, inside the schedule() at the
\* end of trap() or in forkret, from where it goes straight to user mode;
\* "tail": at the end of trap(); "blocked": inside some other schedule();
\* "scan": at the head of the loop of do_wait; "wait": inside the schedule()
\* of that loop; "exiting": in __do_exit before the process becomes a zombie;
\* "dead": after.  Init: "init" is the head of the loop of init_main, "done"
\* after the loop.
Locations == {"user", "tail", "blocked", "scan", "wait", "exiting", "dead", "init", "done"}

\* init_main has started one process, user_main.
Start ==
    \E first \in Users :
        /\ running = {}
        /\ state = [p \in Procs |-> IF p \in {Init, first} THEN "RUNNABLE" ELSE "UNUSED"]
        /\ wait_state = [p \in Procs |-> "0"]
        /\ fam = [parent |-> [p \in Procs |-> IF p = first THEN Init ELSE NULL],
                  cptr   |-> [p \in Procs |-> IF p = Init THEN first ELSE NULL],
                  yptr   |-> [p \in Procs |-> NULL],
                  optr   |-> [p \in Procs |-> NULL]]
        /\ next_thread = [p \in Procs |-> p]
        /\ killed = [p \in Procs |-> FALSE]
        /\ pc = [p \in Procs |-> CASE p = Init -> "init"
                                   [] p = first -> "user"
                                   [] OTHER -> "dead"]
        /\ waitfor = [p \in Procs |-> NULL]
        /\ panic = "none"

At(p, l) == p \in running /\ panic = "none" /\ pc[p] = l
Goto(p, l) == pc' = [pc EXCEPT ![p] = l]

----------------------------------------------------------------------------
(* Links                                                                   *)

\* The threads of p's group, p included.
Group(p) ==
    LET reach[n \in 0..Cardinality(Procs)] ==
            IF n = 0 THEN p ELSE next_thread[reach[n - 1]]
    IN  {reach[n] : n \in 0..Cardinality(Procs)}

\* set_links
Linked(f, c, p) ==
    [parent |-> [f.parent EXCEPT ![c] = p],
     cptr   |-> [f.cptr EXCEPT ![p] = c],
     yptr   |-> [q \in Procs |-> CASE q = c -> NULL
                                   [] q = f.cptr[p] -> c
                                   [] OTHER -> f.yptr[q]],
     optr   |-> [f.optr EXCEPT ![c] = f.cptr[p]]]

Unlinked_NoYounger(f, c) ==
    [f EXCEPT !.optr = [q \in Procs |-> IF q = f.yptr[c] THEN f.optr[c] ELSE @[q]],
              !.cptr = IF f.yptr[c] = NULL
                       THEN [@ EXCEPT ![f.parent[c]] = f.optr[c]] ELSE @]

\* remove_links
Unlinked(f, c) ==
    [f EXCEPT !.yptr = [q \in Procs |-> IF q = f.optr[c] THEN f.yptr[c] ELSE @[q]],
              !.optr = [q \in Procs |-> IF q = f.yptr[c] THEN f.optr[c] ELSE @[q]],
              !.cptr = IF f.yptr[c] = NULL
                       THEN [@ EXCEPT ![f.parent[c]] = f.optr[c]] ELSE @]

\* The links of a freed proc_struct mean nothing.
Cleared(f, c) ==
    [f EXCEPT !.parent[c] = NULL, !.cptr[c] = NULL, !.yptr[c] = NULL, !.optr[c] = NULL]

\* One round of the loop of __do_exit: the first child of p goes to heir.
MoveChild(f, p, heir) ==
    LET c == f.cptr[p]
    IN  IF c = NULL THEN f
        ELSE [parent |-> [f.parent EXCEPT ![c] = heir],
              cptr   |-> [f.cptr EXCEPT ![p] = f.optr[c], ![heir] = c],
              yptr   |-> [q \in Procs |-> CASE q = c -> NULL
                                            [] q = f.cptr[heir] -> c
                                            [] OTHER -> f.yptr[q]],
              optr   |-> [f.optr EXCEPT ![c] = f.cptr[heir]]]

MoveChildren(f, p, heir) ==
    LET moved[n \in 0..Cardinality(Procs)] ==
            IF n = 0 THEN f ELSE MoveChild(moved[n - 1], p, heir)
    IN  moved[Cardinality(Procs)]

\* The children of p, along cptr and optr.
Children(p) ==
    LET sib[n \in 0..Cardinality(Procs)] ==
            IF n = 0 THEN fam.cptr[p]
            ELSE LET c == sib[n - 1] IN IF c = NULL THEN NULL ELSE fam.optr[c]
    IN  {sib[n] : n \in 0..Cardinality(Procs)} \ {NULL}

\* wakeup_proc of every process of S; it asserts that none is a zombie
WakeupAll(S) ==
    /\ Wakeup(S)
    /\ panic' = IF \E q \in S : state[q] \in {"ZOMBIE", "UNUSED"}
                THEN "wakeup_zombie" ELSE panic

----------------------------------------------------------------------------
(* System calls: each ends in "tail".                                      *)

\* do_fork, with CLONE_THREAD when thread holds: the new thread comes before
\* its creator in the circular list.
Fork(p, c, thread) ==
    /\ At(p, "user")
    /\ state[c] = "UNUSED"
    /\ state' = [state EXCEPT ![c] = "RUNNABLE"]
    /\ fam' = Linked(fam, c, p)
    /\ next_thread' = IF thread
                      THEN [q \in Procs |-> IF q = c THEN p
                                            ELSE IF next_thread[q] = p THEN c
                                            ELSE next_thread[q]]
                      ELSE next_thread
    /\ pc' = [pc EXCEPT ![p] = "tail", ![c] = "user"]
    /\ UNCHANGED <<running, wait_state, killed, waitfor, panic>>

\* The WT_INTERRUPTED bit (see WaitQueue).
CanInterrupt_NoTest(w) == TRUE
CanInterrupt(w) == w \in {"WT_CHILD", "WT_TIMER"}

\* __do_kill for every process of S.  A zombie keeps no PF_EXITING here: only
\* __do_kill would read it, to do nothing a second time.
DoKill(S) ==
    /\ killed' = [q \in Procs |-> killed[q] \/ (q \in S /\ state[q] # "ZOMBIE")]
    /\ WakeupAll({q \in S : ~killed[q] /\ CanInterrupt(wait_state[q])})

\* do_kill(q)
Kill(p, q) ==
    /\ At(p, "user")
    /\ q # Init /\ Used(q)
    /\ DoKill({q})
    /\ Goto(p, "tail")
    /\ UNCHANGED <<running, fam, next_thread, waitfor>>

\* A call that waits for something else: a timer, or a kernel semaphore
Block(p, w) ==
    /\ At(p, "user")
    /\ GoToSleep(p, w)
    /\ Leave(p)
    /\ Goto(p, "blocked")
    /\ UNCHANGED <<fam, next_thread, killed, waitfor, panic>>

\* What p waits for there comes.
Unblock(p) ==
    /\ panic = "none"
    /\ state[p] = "SLEEPING" /\ pc[p] = "blocked"
    /\ Wakeup({p})
    /\ UNCHANGED <<running, procVars>>

BlockReturn(p) ==
    /\ At(p, "blocked")
    /\ Goto(p, "tail")
    /\ UNCHANGED <<dispatchVars, fam, next_thread, killed, waitfor, panic>>

\* do_exit: kill the other threads of the group, then this one
ExitGroup(p) ==
    /\ At(p, "user")
    /\ DoKill(Group(p) \ {p})
    /\ Goto(p, "exiting")
    /\ UNCHANGED <<running, fam, next_thread, waitfor>>

\* do_exit_thread
ExitThread(p) ==
    /\ At(p, "user")
    /\ Goto(p, "exiting")
    /\ UNCHANGED <<dispatchVars, fam, next_thread, killed, waitfor, panic>>

----------------------------------------------------------------------------
(* do_wait.  Which of several zombies is found first is left open.         *)

GroupChildren(p) == UNION {Children(t) : t \in Group(p)}
Kids(p) == IF waitfor[p] = NULL THEN GroupChildren(p)
                                ELSE GroupChildren(p) \cap {waitfor[p]}
Zombies(p) == {c \in Kids(p) : state[c] = "ZOMBIE"}

CallWait(p, c) ==
    /\ At(p, "user")
    /\ waitfor' = [waitfor EXCEPT ![p] = c]
    /\ Goto(p, "scan")
    /\ UNCHANGED <<dispatchVars, fam, next_thread, killed, panic>>

\* A zombie child is found and freed.  init_main leaves its loop when no other
\* process is left, else it calls schedule() and waits again.
WaitReap(p, c) ==
    /\ At(p, "scan")
    /\ c \in Zombies(p)
    /\ fam' = Cleared(Unlinked(fam, c), c)
    /\ state' = [state EXCEPT ![c] = "UNUSED"]
    /\ waitfor' = [waitfor EXCEPT ![p] = NULL]
    /\ IF p # Init
       THEN Goto(p, "tail") /\ UNCHANGED running
       ELSE IF \E q \in Users \ {c} : Used(q)
       THEN Goto(p, "init") /\ Leave(p)
       ELSE Goto(p, "done") /\ UNCHANGED running
    /\ UNCHANGED <<wait_state, next_thread, killed, panic>>

WaitSleep(p) ==
    /\ At(p, "scan")
    /\ Zombies(p) = {} /\ Kids(p) # {}
    /\ GoToSleep(p, "WT_CHILD")
    /\ Leave(p)
    /\ Goto(p, "wait")
    /\ UNCHANGED <<fam, next_thread, killed, waitfor, panic>>

\* -E_BAD_PROC.  init_main leaves its loop and checks nr_process.
WaitNoKid(p) ==
    /\ At(p, "scan")
    /\ Kids(p) = {}
    /\ IF p # Init THEN Goto(p, "tail") /\ UNCHANGED panic
       ELSE IF \E q \in Users : Used(q) THEN panic' = "init_nr_process" /\ UNCHANGED pc
       ELSE Goto(p, "done") /\ UNCHANGED panic
    /\ waitfor' = [waitfor EXCEPT ![p] = NULL]
    /\ UNCHANGED <<dispatchVars, fam, next_thread, killed>>

\* may_killed after schedule(): __do_exit, of this thread only; goto repeat
WaitWake(p) ==
    /\ At(p, "wait")
    /\ Goto(p, IF killed[p] THEN "exiting" ELSE "scan")
    /\ waitfor' = IF killed[p] THEN [waitfor EXCEPT ![p] = NULL] ELSE waitfor
    /\ UNCHANGED <<dispatchVars, fam, next_thread, killed, panic>>

----------------------------------------------------------------------------
(* __do_exit                                                               *)

\* The threads that wait for the exiting process p: its parent's group
WaitingParents_One(p) == {q \in {fam.parent[p]} : wait_state[q] = "WT_CHILD"}
WaitingParents_Others(p) ==
    {q \in Group(fam.parent[p]) \ {fam.parent[p]} : wait_state[q] = "WT_CHILD"}
WaitingParents(p) == {q \in Group(fam.parent[p]) : wait_state[q] = "WT_CHILD"}

\* Who gets the children: the next thread of the group, or init
Heir_NoInit(p) == next_thread[p]
Heir(p) == IF next_thread[p] = p THEN Init ELSE next_thread[p]

\* ... and is woken if a zombie is among them.
WokenHeir(p) ==
    IF wait_state[Heir(p)] = "WT_CHILD"
       /\ \E c \in Children(p) : state[c] = "ZOMBIE" \/ c = p
    THEN {Heir(p)} ELSE {}

\* ZOMBIE, wake the parent, leave the group, hand the children over,
\* schedule() for the last time
Die(p) ==
    /\ At(p, "exiting")
    /\ LET S == WaitingParents(p) \cup WokenHeir(p)
       IN  /\ state' = [q \in Procs |-> IF q = p THEN "ZOMBIE"
                                        ELSE IF q \in S THEN "RUNNABLE" ELSE state[q]]
           /\ wait_state' = [q \in Procs |-> IF q \in S THEN "0" ELSE wait_state[q]]
           /\ panic' = IF \E q \in S : state[q] \in {"ZOMBIE", "UNUSED"}
                       THEN "wakeup_zombie" ELSE panic
    /\ next_thread' = [q \in Procs |-> IF q = p THEN p
                                       ELSE IF next_thread[q] = p THEN next_thread[p]
                                       ELSE next_thread[q]]
    /\ fam' = MoveChildren(fam, p, Heir(p))
    /\ killed' = [killed EXCEPT ![p] = FALSE]
    /\ Leave(p)
    /\ Goto(p, "dead")
    /\ UNCHANGED waitfor

----------------------------------------------------------------------------
(* The end of trap(): first PF_EXITING, then need_resched.                 *)

TrapExit(p) ==
    /\ At(p, "tail")
    /\ killed[p]
    /\ DoKill(Group(p) \ {p})       \* do_exit(-E_KILLED)
    /\ Goto(p, "exiting")
    /\ UNCHANGED <<running, fam, next_thread, waitfor>>

TrapReturn(p) ==
    /\ At(p, "tail")
    /\ ~killed[p]
    /\ Goto(p, "user")
    /\ UNCHANGED <<dispatchVars, fam, next_thread, killed, waitfor, panic>>

TrapResched(p) ==
    /\ At(p, "tail")
    /\ ~killed[p]
    /\ Leave(p)
    /\ Goto(p, "user")
    /\ UNCHANGED <<state, wait_state, fam, next_thread, killed, waitfor, panic>>

\* The timer interrupt in user mode
Tick(p) ==
    /\ At(p, "user")
    /\ Goto(p, "tail")
    /\ UNCHANGED <<dispatchVars, fam, next_thread, killed, waitfor, panic>>

InitLoop ==
    /\ At(Init, "init")
    /\ Goto(Init, "scan")
    /\ UNCHANGED <<dispatchVars, fam, next_thread, killed, waitfor, panic>>

\* Closing the files of an exiting process may block.
Yield(p) ==
    /\ At(p, "exiting")
    /\ Leave(p)
    /\ UNCHANGED <<state, wait_state, procVars>>

Resume(p) ==
    /\ panic = "none"
    /\ pc[Init] # "done"
    /\ Dispatch(p)
    /\ UNCHANGED procVars

Calls(p) ==
    \/ \E c \in Users, thread \in Clones : Fork(p, c, thread)
    \/ \E q \in Users : Kill(p, q)
    \/ ExitGroup(p) \/ ExitThread(p)
    \/ \E c \in Users \cup {NULL} : CallWait(p, c)

Kernel(p) ==
    \/ \E c \in Users : WaitReap(p, c)
    \/ WaitSleep(p) \/ WaitNoKid(p) \/ WaitWake(p)
    \/ Die(p) \/ TrapExit(p) \/ TrapReturn(p) \/ TrapResched(p)
    \/ (p = Init /\ InitLoop)

\* what a process does as a member of its family, and the waits for other things
Family(p) == Calls(p) \/ Kernel(p) \/ Tick(p) \/ Yield(p) \/ Resume(p)
Other(p) == (\E w \in OtherWaits : Block(p, w)) \/ Unblock(p) \/ BlockReturn(p)

Next == \E p \in Procs : Family(p) \/ Other(p)

Spec == Start /\ [][Next]_vars

\* The kernel goes on and the clock ticks (at most one process runs, so this is
\* fair to each), and the run queue is first in, first out; what a process
\* blocks for comes or not.
Fairness ==
    /\ WF_vars(\E p \in Procs : Kernel(p) \/ BlockReturn(p) \/ Tick(p))
    /\ SF_vars(\E p \in Procs : TrapResched(p))
    /\ \A p \in Procs : SF_vars(Resume(p))

FairSpec == Spec /\ Fairness

----------------------------------------------------------------------------
(* Properties                                                              *)

\* Every variable has its type.
TypeOK ==
    /\ running \subseteq {p \in Procs : Used(p)} /\ Cardinality(running) <= NCPU
    /\ state \in [Procs -> ProcStates \cup {"UNUSED"}]
    /\ wait_state \in [Procs -> {"0", "WT_CHILD", "WT_TIMER", "WT_KSEM"}]
    /\ \A l \in {"parent", "cptr", "yptr", "optr"} :
           fam[l] \in [Procs -> Procs \cup {NULL}]
    /\ next_thread \in [Procs -> Procs]
    /\ killed \in [Procs -> BOOLEAN]
    /\ pc \in [Procs -> Locations]
    /\ waitfor \in [Procs -> Procs \cup {NULL}]
    /\ panic \in {"none", "wakeup_zombie", "init_nr_process"}

\* The parent of a process that has not been reaped is never a zombie or
\* freed: somebody can still call do_wait for it, and __do_exit may follow
\* proc->parent.
ParentAlive ==
    \A p \in Users : Used(p) => state[fam.parent[p]] \notin {"ZOMBIE", "UNUSED"}

\* cptr, optr and yptr are the doubly linked list of exactly the processes
\* whose parent is p, and every parent is alive, whatever exits hand children
\* over and waits unlink.
FamilyLinks ==
    /\ ParentAlive
    /\ \A p \in Procs : Used(p) =>
           /\ Children(p) = {c \in Users : Used(c) /\ fam.parent[c] = p}
           /\ \A c \in Children(p) :
                  /\ fam.yptr[c] = NULL <=> fam.cptr[p] = c
                  /\ fam.optr[c] # NULL => fam.yptr[fam.optr[c]] = c

\* No wake-up of do_wait is lost: a thread sleeps there only while it has a
\* child to wait for, and none of them is a zombie -- although another thread
\* of its group may be the child's parent, reap it or exit.
WaiterNotStranded ==
    \A p \in Procs : pc[p] = "wait" /\ state[p] = "SLEEPING" =>
        Kids(p) # {} /\ Zombies(p) = {}

\* wakeup_proc is never called for a zombie or a freed process (it asserts
\* so): not by kills of a dying process, not by exits of its children.
NoZombieWoken == panic # "wakeup_zombie"

\* Once no more processes are forked, no dead orphan stays: init is woken for
\* it and reaps it.  (While they are, a zombie can wait for ever: do_wait takes
\* the first zombie of the list and __do_exit puts new orphans in front.)
NoMoreForks == <>[][~ \E p, c \in Procs, thread \in Clones : Fork(p, c, thread)]_vars

OrphansReaped ==
    NoMoreForks =>
        <>[](panic # "none" \/ \A p \in Users :
                state[p] = "ZOMBIE" => fam.parent[p] # Init)

\* "may_killed - check if current thread should be killed, should be called
\* before go back to user space": a killed process never is in user mode.
\* (Broken by a kill at the end of trap(): README, section 3.)
KilledNotInUser == \A p \in running : pc[p] = "user" => ~killed[p]

\* assert(nr_process == 1 + NCPU) at the end of init_main: init's do_wait
\* fails only when init is the last process.
InitIsLast == panic # "init_nr_process"
=============================================================================
