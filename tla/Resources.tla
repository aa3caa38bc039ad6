----------------------------- MODULE Resources ------------------------------
(***************************************************************************)
(* What the threads of a process share: do_fork copies or shares five      *)
(* counted structures one after the other, any of which may fail for want  *)
(* of memory; do_execve replaces four of them and do_exit gives all up     *)
(* (process/proc.c).  do_fork may block in some of the copies (a semaphore *)
(* guards what it reads), so other threads run in between; do_execve and   *)
(* the end of a process do not.                                            *)
(***************************************************************************)
EXTENDS Integers, Sequences, FiniteSets, FiniteSetsExt, SequencesExt

CONSTANTS
    Procs,      \* 1 .. n
    First,      \* user_main, a kernel thread until it calls do_execve
    Shares      \* for each kind of clone, the structures it shares

VARIABLE r      \* see Boot

Kinds == <<"sem", "fs", "signal", "sighand", "mm">>     \* in do_fork's order
NULL == 0
Objects == Procs
Nothing == [k \in ToSet(Kinds) |-> NULL]
NoFork == [child |-> NULL, at |-> 0, share |-> {}]

Boot == [state |-> [p \in Procs |-> IF p = First THEN "user" ELSE "free"],
         has   |-> [p \in Procs |-> IF p = First THEN [Nothing EXCEPT !["fs"] = First]
                                                 ELSE Nothing],
         count |-> [k \in ToSet(Kinds) |-> [o \in Objects |->
                        IF k = "fs" /\ o = First THEN 1 ELSE 0]],
         fork  |-> [p \in Procs |-> NoFork],
         panic |-> "none"]

Init == r = Boot

\* A structure whose count is 0 is free memory.
Unused(s, k) == {o \in Objects : s.count[k][o] = 0}

Given(s, p, k, o) == [s EXCEPT !.has[p][k] = o, !.count[k][o] = @ + 1]

\* Which memory a new structure gets is of no interest: the place named like
\* the process, if it is free.
Created(s, p, k) ==
    Given(s, p, k, IF p \in Unused(s, k) THEN p ELSE Min(Unused(s, k)))

Put(s, p, k) ==
    IF s.has[p][k] = NULL THEN s ELSE [s EXCEPT !.count[k][s.has[p][k]] = @ - 1]

\* put_signal, put_sighand and the callers that drop an mm clear the pointer;
\* put_fs and put_sem_queue do not.
PutCleared(s, p, k) == [Put(s, p, k) EXCEPT !.has[p][k] = NULL]

----------------------------------------------------------------------------
(* do_fork                                                                 *)

\* copy_sem, copy_fs and copy_mm may block, what comes between them and after
\* them does not.
MayRun(p) ==
    /\ r.panic = "none"
    /\ \A q \in Procs \ {p} : r.fork[q].at \in {0, 1, 2, 5}

Idle(p) == MayRun(p) /\ r.state[p] = "user" /\ r.fork[p] = NoFork

ForkBegin(p, c, share) ==
    /\ Idle(p) /\ r.state[c] = "free"
    /\ r' = [r EXCEPT !.state[c] = "new",
                      !.fork[p] = [child |-> c, at |-> 1, share |-> share]]

Copying(p) == MayRun(p) /\ r.fork[p].at \in 1 .. Len(Kinds)
Kind(p) == Kinds[r.fork[p].at]
Advance(s, p) == [s EXCEPT !.fork[p].at = @ + 1]

\* copy_sem, copy_fs, copy_signal, copy_sighand, copy_mm: current has none, or
\* the clone shares it
CopyShared_NoCount(p) ==
    /\ Copying(p)
    /\ r.has[p][Kind(p)] = NULL \/ Kind(p) \in r.fork[p].share
    /\ r' = Advance([r EXCEPT !.has[r.fork[p].child][Kind(p)] = r.has[p][Kind(p)]], p)
CopyShared(p) ==
    /\ Copying(p)
    /\ r.has[p][Kind(p)] = NULL \/ Kind(p) \in r.fork[p].share
    /\ r' = Advance(IF r.has[p][Kind(p)] = NULL THEN r
                    ELSE Given(r, r.fork[p].child, Kind(p), r.has[p][Kind(p)]), p)

CopyCreated(p) ==
    /\ Copying(p)
    /\ r.has[p][Kind(p)] # NULL /\ Kind(p) \notin r.fork[p].share
    /\ r' = Advance(Created(r, r.fork[p].child, Kind(p)), p)

\* bad_fork_cleanup_*: what was copied before the failing step is put back
CleanupFrom(s, c, at) == FoldLeft(LAMBDA t, k : Put(t, c, k), s, SubSeq(Kinds, 1, at - 1))

CopyFails(p) ==
    /\ Copying(p)
    /\ r.has[p][Kind(p)] # NULL /\ Kind(p) \notin r.fork[p].share
    /\ LET c == r.fork[p].child
       IN  r' = [CleanupFrom(r, c, r.fork[p].at) EXCEPT
                    !.state[c] = "free", !.has[c] = Nothing, !.fork[p] = NoFork]

ForkEnds(p) ==
    /\ MayRun(p) /\ r.fork[p].at = Len(Kinds) + 1
    /\ r' = [r EXCEPT !.state[r.fork[p].child] = "user", !.fork[p] = NoFork]

----------------------------------------------------------------------------
(* __do_exit, do_execve                                                    *)

\* A zombie has nothing of these left: it is as good as reaped.
Exited(s, p) ==
    LET u == PutCleared(PutCleared(PutCleared(s, p, "mm"), p, "sighand"), p, "signal")
    IN  [Put(Put(u, p, "fs"), p, "sem") EXCEPT !.state[p] = "free", !.has[p] = Nothing]

Exit(p) == Idle(p) /\ r' = Exited(r, p)

\* What do_execve has done when it creates a sighand, a signal, a sem_queue
\* and when it calls load_icode.
Emptied(p) == PutCleared(Put(PutCleared(r, p, "mm"), p, "sem"), p, "sighand")
WithSighand(p) == PutCleared(Created(Emptied(p), p, "sighand"), p, "signal")
WithSignal(p) == Created(WithSighand(p), p, "signal")
WithSem(p) == Created(WithSignal(p), p, "sem")

Exec(p) == Idle(p) /\ r' = Created(WithSem(p), p, "mm")

\* execve_exit: do_exit.  While sighand or signal is missing the old sem_queue
\* is still in place, already put once.
ExecFails(p) ==
    /\ Idle(p)
    /\ r' \in {Exited([WithSignal(p) EXCEPT !.has[p]["sem"] = NULL], p),
               Exited(WithSem(p), p)}
              \cup IF r.has[p]["sem"] = NULL
                   THEN {Exited(Emptied(p), p), Exited(WithSighand(p), p)}
                   ELSE {[Boot EXCEPT !.panic = "sem_queue"]}

Next ==
    \E p \in Procs :
        \/ \E c \in Procs, share \in Shares : ForkBegin(p, c, share)
        \/ CopyShared(p) \/ CopyCreated(p) \/ CopyFails(p) \/ ForkEnds(p)
        \/ Exit(p) \/ Exec(p) \/ ExecFails(p)

Spec == Init /\ [][Next]_r

----------------------------------------------------------------------------
(* Properties                                                              *)

Holders(k, o) == {p \in Procs : r.state[p] \in {"user", "new"} /\ r.has[p][k] = o}

\* Every structure is counted once for each process that uses it, one that
\* do_fork is still building included: none is freed while somebody uses it
\* and none is lost, at whatever step a do_fork gave up and whatever the other
\* threads did meanwhile.
RefsExact ==
    \A k \in ToSet(Kinds), o \in Objects : r.count[k][o] = Cardinality(Holders(k, o))

\* put_sem_queue gives up a reference the process still has.  (Broken by a
\* do_execve that runs out of memory: README, section 3.)
SemQueuePutOnce == r.panic # "sem_queue"
=============================================================================
