------------------------------ MODULE MCProcess ------------------------------
(***************************************************************************)
(* Process identifiers and processes on small instances.  They share no    *)
(* state, so one model holds them side by side: "which" says whose steps   *)
(* a behaviour takes, and the other stays in its initial state.            *)
(***************************************************************************)
EXTENDS Pid

CONSTANTS Procs, initproc, OtherWaits, Clones, NULL

VARIABLES which, running, state, wait_state, fam, next_thread, killed, pc, waitfor, panic

Proc == INSTANCE Proc WITH Init <- initproc

procvars == <<running, state, wait_state, fam, next_thread, killed, pc, waitfor, panic>>
allvars == <<which, vars, procvars>>

ProcessInit ==
    /\ which \in {"pid", "proc"}
    /\ Init
    /\ Proc!Start

PidOnly(A) == which = "pid" /\ A /\ UNCHANGED <<which, procvars>>
ProcOnly(A) == which = "proc" /\ A /\ UNCHANGED <<which, vars>>

ProcessNext ==
    \/ which = "pid" /\ Next /\ UNCHANGED <<which, procvars>>
    \/ which = "proc" /\ Proc!Next /\ UNCHANGED <<which, vars>>

\* The fairness of Pid!FairSpec and of Proc!Fairness.
ProcessSpec ==
    /\ ProcessInit /\ [][ProcessNext]_allvars
    /\ WF_allvars(PidOnly(Scan))
    /\ WF_allvars(ProcOnly(\E p \in Procs : Proc!Kernel(p) \/ Proc!BlockReturn(p) \/ Proc!Tick(p)))
    /\ SF_allvars(ProcOnly(\E p \in Procs : Proc!TrapResched(p)))
    /\ \A p \in Procs : SF_allvars(ProcOnly(Proc!Resume(p)))

\* Proc!NoZombieWoken: the assertion of wakeup_proc holds, no kill and no exit
\* wakes a process that is dead; every variable has its type, and pids are
\* those that find_proc accepts.
NoZombieWoken == TypeOK /\ Proc!TypeOK /\ Proc!NoZombieWoken

\* Proc!OrphansReaped: once nobody forks, init's do_wait loop reaps every dead
\* orphan.
OrphansReaped == Proc!OrphansReaped
=============================================================================
