----------------------------- MODULE KLockProofs -----------------------------
(***************************************************************************)
(* The kernel lock for every number of processes, of processors and of     *)
(* units: LInv is inductive, and it implies the properties of KLock.       *)
(***************************************************************************)
EXTENDS KLock, WaitQueueProofs, FiniteSetTheorems, TLAPS

\* The holders are a finite set, so their number is a natural number.
LEMMA HoldersFinite ==
    ASSUME LTypeOK
    PROVE  /\ Holders \subseteq Procs
           /\ IsFiniteSet(Holders)
           /\ Cardinality(Holders) \in Nat
  <1>1. Holders \subseteq Procs
    BY DEF LTypeOK, Holders, Granted
  <1>2. IsFiniteSet(Holders)
    BY <1>1, ProcsAssumption, FS_Subset
  <1> QED
    BY <1>1, <1>2, FS_CardinalityType

\* down of a free unit: one unit fewer, one holder more.
LEMMA OneMore ==
    ASSUME NEW p \in Procs, LTypeOK, UnitsConserved, HasUnit,
           p \notin Holders, Holders' = Holders \cup {p}, value' = value - 1
    PROVE  UnitsConserved' /\ value' \in Nat
  <1>1. Cardinality(Holders \cup {p}) = Cardinality(Holders) + 1
    BY HoldersFinite, FS_AddElement
  <1> QED
    BY <1>1, HoldersFinite DEF UnitsConserved, LTypeOK, SemTypeOK, HasUnit

\* up without waiters: one unit more, one holder fewer.
LEMMA OneLess ==
    ASSUME NEW p \in Procs, LTypeOK, UnitsConserved,
           p \in Holders, Holders' = Holders \ {p}, value' = value + 1
    PROVE  UnitsConserved' /\ value' \in Nat
  <1>1. Cardinality(Holders \ {p}) = Cardinality(Holders) - 1
    BY HoldersFinite, FS_RemoveElement
  <1> QED
    BY <1>1, HoldersFinite DEF UnitsConserved, LTypeOK, SemTypeOK

\* up with waiters: the unit changes hands.
LEMMA SameNumber ==
    ASSUME NEW p \in Procs, NEW q \in Procs, LTypeOK, UnitsConserved,
           p \in Holders, q \notin Holders,
           Holders' = (Holders \ {p}) \cup {q}, value' = value
    PROVE  UnitsConserved'
  <1>1. Cardinality(Holders \ {p}) = Cardinality(Holders) - 1 /\ IsFiniteSet(Holders \ {p})
    BY HoldersFinite, FS_RemoveElement
  <1>2. Cardinality((Holders \ {p}) \cup {q}) = Cardinality(Holders \ {p}) + 1
    BY <1>1, FS_AddElement
  <1> QED
    BY <1>1, <1>2, HoldersFinite DEF UnitsConserved, LTypeOK, SemTypeOK

\* Before any call, nobody holds a unit and nobody waits.
LEMMA InitInv == LInit => LInv
  <1> SUFFICES ASSUME LInit PROVE LInv
    OBVIOUS
  <1> USE InitValueAssumption DEF LInit, SemInit, DispatchInit
  <1>1. LTypeOK
    BY DEF LTypeOK, SemTypeOK, ProcStates, Locations, Asserts
  <1>2. QueueInv
    BY DEF QueueInv, NoDuplicates, WaitInQueue, Waiting
  <1>3. Holders = {}
    BY DEF Holders, Granted
  <1>4. UnitsConserved
    BY <1>3, FS_EmptySet DEF UnitsConserved
  <1> QED
    BY <1>1, <1>2, <1>4 DEF LInv, LNoPanic, ClientInv, NoIdleUnit


----------------------------------------------------------------------------
(* One lemma per step.  The first ones leave the queue and the holders as  *)
(* they are; the others move one process.                                  *)

\* A step that changes neither the queue nor what the holders depend on.
LEMMA HoldersSame ==
    ASSUME LTypeOK, UnitsConserved, NoIdleUnit, Holders' = Holders,
           value' = value, queue' = queue
    PROVE  UnitsConserved' /\ NoIdleUnit'
  BY DEF UnitsConserved, NoIdleUnit

\* The queue part of the invariant survives a step that leaves the sleepers
\* and the processors alone, and takes nobody into or out of a wait.
LEMMA QueueSame ==
    ASSUME QueueInv, UNCHANGED <<state, wait_state, queue, wakeup_flags>>,
           \A p \in Procs : Waiting(p)' <=> Waiting(p),
           \A p \in running' : pc'[p] = "blocked" => state[p] # "SLEEPING"
    PROVE  QueueInv'
  BY DEF QueueInv, WaitInQueue, NoDuplicates

\* Entering down or up moves only the caller's program counter.
LEMMA CallStep ==
    ASSUME NEW p \in Procs, LInv, Lock(p) \/ Unlock(p) \/ EnterDown(p) \/ EnterUp(p)
    PROVE  LInv' /\ UNCHANGED <<value, Holders, queue>>
  <1> USE DEF Lock, Unlock, EnterDown, EnterUp, CallDown, CallUp, DownEnter, UpEnter, Active,
              Goto, dispatchVars
  <1>1. /\ UNCHANGED <<running, state, wait_state, value, valid, queue, wakeup_flags, killed>>
        /\ UNCHANGED <<panic, inside>>
        /\ p \in running /\ pc[p] \in {"out", "down", "up"}
        /\ \E l \in {"down", "down_lock", "up", "up_lock"} : pc' = [pc EXCEPT ![p] = l]
    BY DEF LInv
  <1>2. ClientInv'
    BY DEF LInv, ClientInv, LTypeOK, SemTypeOK
  <1> HIDE DEF Lock, Unlock, EnterDown, EnterUp, CallDown, CallUp, DownEnter, UpEnter
  <1>3. LTypeOK'
    BY <1>1 DEF LInv, LTypeOK, SemTypeOK, Locations
  <1>4. \A q \in Procs : Waiting(q)' <=> Waiting(q)
    BY <1>1 DEF Waiting, LInv, LTypeOK, SemTypeOK
  <1>5. Holders' = Holders
    BY <1>1, <1>4 DEF Holders, Granted, Waiting
  <1>6. QueueInv'
    <2>1. \A q \in running' : pc'[q] = "blocked" => state[q] # "SLEEPING"
      BY <1>1 DEF LInv, QueueInv, LTypeOK, SemTypeOK
    <2> QED
      BY <1>1, <1>4, <2>1, QueueSame DEF LInv
  <1> QED
    BY <1>1, <1>2, <1>3, <1>5, <1>6, HoldersSame DEF LInv, LNoPanic

\* Leaving a processor and being dispatched: only who runs changes, and only a
\* process that is RUNNABLE comes to run.
LEMMA ScheduleStep ==
    ASSUME NEW p \in Procs, LInv, Yield(p) \/ LResume(p) \/ LeaveCPU(p)
    PROVE  LInv' /\ UNCHANGED <<value, Holders, queue>>
  <1>1. /\ UNCHANGED <<state, wait_state, value, valid, queue, wakeup_flags, killed>>
        /\ UNCHANGED <<panic, inside>>
        /\ \/ running' = running \ {p} /\ pc' = pc
           \/ running' = running \cup {p} /\ state[p] = "RUNNABLE" /\ pc' = pc
           \/ running' = running \ {p} /\ pc[p] = "slept" /\ pc' = [pc EXCEPT ![p] = "blocked"]
    BY DEF Yield, LResume, LeaveCPU, Preempt, Resume, Dispatch, DownSchedule, Leave, Active, Goto, semVars
  <1>2. ClientInv'
    BY <1>1 DEF LInv, ClientInv, LTypeOK, SemTypeOK
  <1>3. LTypeOK'
    BY <1>1 DEF LInv, LTypeOK, SemTypeOK, Locations
  <1>4. \A q \in Procs : Waiting(q)' <=> Waiting(q)
    BY <1>1 DEF Waiting, LInv, LTypeOK, SemTypeOK
  <1>5. Holders' = Holders
    BY <1>1, <1>4 DEF Holders, Granted, Waiting
  <1>6. QueueInv'
    <2>1. \A q \in running' : pc'[q] = "blocked" => state[q] # "SLEEPING"
      BY <1>1 DEF LInv, QueueInv, LTypeOK, SemTypeOK
    <2> QED
      BY <1>1, <1>4, <2>1, QueueSame DEF LInv
  <1> QED
    BY <1>1, <1>2, <1>3, <1>5, <1>6, HoldersSame DEF LInv, LNoPanic

\* do_kill marks the process; its sleep on a kernel semaphore is not
\* interruptible, so nobody wakes.
LEMMA KillStep ==
    ASSUME NEW p \in Procs, LInv, LKill(p)
    PROVE  LInv' /\ UNCHANGED <<value, Holders, queue>>
  <1> USE DEF LInv, LKill, Kill
  <1>1. ~Interruptible(wait_state[p])
    BY KernelSemaphore DEF Interruptible, LTypeOK, SemTypeOK
  <1>2. UNCHANGED <<state, wait_state, running, value, valid, queue, wakeup_flags, pc, panic, inside>>
    BY <1>1 DEF Wakeup, LTypeOK, SemTypeOK
  <1>3. LTypeOK'
    BY <1>2 DEF LTypeOK, SemTypeOK
  <1>4. Holders' = Holders
    BY <1>2 DEF Holders, Granted
  <1> QED
    BY <1>2, <1>3, <1>4, HoldersSame DEF LNoPanic, QueueInv, NoDuplicates, ClientInv,
                                         WaitInQueue, Waiting

\* down of a free unit and a successful try_down are an Acquire of the lock.
LEMMA TakeStep ==
    ASSUME NEW p \in Procs, LInv, TakeAtOnce(p) \/ TryLock(p)
    PROVE  LInv' /\ FIFO!Acquire(p)
  <1> USE DEF LInv, TakeAtOnce, TryLock, DownTake, TryDown, Active, Goto, dispatchVars
  <1>1. p \notin inside /\ p \notin Granted /\ pc' \in [Procs -> Locations] /\ HasUnit
    BY DEF ClientInv, Granted, LTypeOK, SemTypeOK, Locations
  <1>2. Granted' = Granted
    BY DEF Granted, LTypeOK, SemTypeOK
  <1>3. Holders' = Holders \cup {p} /\ p \notin Holders
    BY <1>1, <1>2 DEF Holders
  <1>4. UnitsConserved' /\ value' \in Nat
    BY <1>1, <1>3, OneMore
  <1>5. queue = <<>>
    BY <1>1 DEF NoIdleUnit, HasUnit
  <1>6. LTypeOK'
    BY <1>1, <1>4 DEF LTypeOK, SemTypeOK
  <1>7. QueueInv'
    <2>1. \A q \in Procs : Waiting(q)' <=> Waiting(q)
      BY DEF Waiting, LTypeOK, SemTypeOK
    <2>2. \A q \in running' : pc'[q] = "blocked" => state[q] # "SLEEPING"
      BY DEF QueueInv, LTypeOK, SemTypeOK
    <2> QED
      BY <2>1, <2>2, QueueSame
  <1>8. ClientInv'
    BY <1>1 DEF ClientInv, LTypeOK, SemTypeOK
  <1>9. FIFO!Acquire(p)
    BY <1>1, <1>3, <1>5 DEF FIFO!Acquire, HasUnit
  <1> QED
    BY <1>9, <1>4, <1>5, <1>6, <1>7, <1>8 DEF LNoPanic, NoIdleUnit

\* A down that finds no unit joins the line.
LEMMA WaitStep ==
    ASSUME NEW p \in Procs, LInv, Sleep(p)
    PROVE  LInv' /\ FIFO!Queue(p)
  <1> USE DEF LInv, Sleep, DownWait, Active, Goto, WaitCurrentSet, GoToSleep
  <1>1. LTypeOK'
    BY AddMembers DEF LTypeOK, SemTypeOK, ProcStates, Locations
  <1>2. Holders' = Holders
    BY KernelSemaphore DEF Holders, Granted, LTypeOK, SemTypeOK
  <1>3. UnitsConserved' /\ NoIdleUnit'
    BY <1>2 DEF UnitsConserved, NoIdleUnit, HasUnit, LTypeOK, SemTypeOK
  <1>4. queue \in Seq(Procs) /\ queue' = WaitQueueAdd(queue, p)
    BY DEF LTypeOK, SemTypeOK
  <1>5. ~WaitInQueue(queue, p) /\ state[p] # "SLEEPING"
    BY DEF QueueInv, Waiting
  <1>6. \A q \in Procs : WaitInQueue(queue, q)' <=> WaitInQueue(queue, q) \/ q = p
    <2> HIDE DEF LInv, Sleep
    <2> QED
      BY <1>4, AddMembers
  <1>7. NoDuplicates(queue)'
    BY <1>4, <1>5, AddNoDuplicates DEF QueueInv
  <1>8. QueueInv'
    BY <1>6, <1>7, KernelSemaphore DEF QueueInv, Waiting, LTypeOK, SemTypeOK
  <1>9. ClientInv'
    BY DEF ClientInv, LTypeOK, SemTypeOK
  <1>10. FIFO!Queue(p)
    <2>1. p \notin Holders /\ value = 0
      BY DEF Holders, Granted, ClientInv, HasUnit, LTypeOK, SemTypeOK
    <2> QED
      BY <1>2, <2>1 DEF FIFO!Queue, WaitQueueAdd
  <1> QED
    BY <1>10, <1>1, <1>3, <1>8, <1>9 DEF LNoPanic

\* A down that comes back from schedule() has been given its unit already.
LEMMA WakeStep ==
    ASSUME NEW p \in Procs, LInv, TakeAfterWait(p)
    PROVE  LInv' /\ UNCHANGED <<value, Holders, queue>>
  <1> USE DEF LInv, TakeAfterWait, DownReturn, Active, Goto, dispatchVars
  <1>1. wakeup_flags[p] = Kind /\ ~WaitInQueue(queue, p) /\ state[p] # "SLEEPING"
    BY DEF QueueInv, Waiting
  <1>2. /\ queue' = queue /\ panic' = panic /\ pc' = [pc EXCEPT ![p] = "out"]
        /\ inside' = inside \cup {p}
    BY <1>1 DEF WaitCurrentDel, LNoPanic
  <1>3. p \in Granted /\ Granted' = Granted \ {p}
    BY <1>1, <1>2 DEF Granted, LTypeOK, SemTypeOK
  <1>4. Holders' = Holders
    BY <1>2, <1>3 DEF Holders
  <1>5. LTypeOK'
    BY <1>2 DEF LTypeOK, SemTypeOK, Locations
  <1>6. QueueInv'
    BY <1>1, <1>2 DEF QueueInv, NoDuplicates, WaitInQueue, Waiting, LTypeOK, SemTypeOK
  <1>7. ClientInv'
    BY <1>2 DEF ClientInv, LTypeOK, SemTypeOK
  <1> QED
    BY <1>2, <1>4, <1>5, <1>6, <1>7, HoldersSame DEF LNoPanic

\* up without waiters is a Release of the lock.
LEMMA ReturnStep ==
    ASSUME NEW p \in Procs, LInv, Return(p)
    PROVE  LInv' /\ FIFO!Release(p)
  <1> USE DEF LInv, Return, UpIncrement, Active, Goto, dispatchVars
  <1>1. p \in inside /\ p \notin Granted
    BY DEF ClientInv, Granted
  <1>2. Granted' = Granted
    BY DEF Granted, LTypeOK, SemTypeOK
  <1>3. Holders' = Holders \ {p} /\ p \in Holders
    BY <1>1, <1>2 DEF Holders
  <1>4. UnitsConserved' /\ value' \in Nat
    BY <1>3, OneLess
  <1>5. LTypeOK'
    BY <1>4 DEF LTypeOK, SemTypeOK, Locations
  <1>6. QueueInv'
    <2>1. \A q \in Procs : Waiting(q)' <=> Waiting(q)
      BY DEF Waiting, LTypeOK, SemTypeOK
    <2>2. \A q \in running' : pc'[q] = "blocked" => state[q] # "SLEEPING"
      BY DEF QueueInv, LTypeOK, SemTypeOK
    <2> QED
      BY <2>1, <2>2, QueueSame
  <1>7. ClientInv'
    BY DEF ClientInv, LTypeOK, SemTypeOK
  <1>8. FIFO!Release(p)
    BY <1>3 DEF FIFO!Release
  <1> QED
    BY <1>8, <1>4, <1>5, <1>6, <1>7 DEF LNoPanic, NoIdleUnit

\* up with waiters passes the unit on to the first of the line.
LEMMA HandOffStep ==
    ASSUME NEW p \in Procs, LInv, HandOff(p)
    PROVE  LInv' /\ FIFO!PassOn(p)
  <1> USE DEF LInv, HandOff, UpHandOff, Active, Goto
  <1> DEFINE h == Head(queue)
  <1>1. queue \in Seq(Procs) /\ queue # <<>> /\ NoDuplicates(queue)
    BY DEF LTypeOK, SemTypeOK, QueueInv
  <1>2. h \in Procs /\ WaitInQueue(queue, h) /\ Tail(queue) \in Seq(Procs)
    BY <1>1, TailMembers
  <1>3. /\ state[h] = "SLEEPING" /\ wait_state[h] = Kind
        /\ wakeup_flags[h] = "WT_INTERRUPTED" /\ Waiting(h)
    BY <1>2 DEF QueueInv
  <1>4. /\ queue' = Tail(queue) /\ panic' = panic /\ pc' = [pc EXCEPT ![p] = "out"]
        /\ state' = [state EXCEPT ![h] = "RUNNABLE"]
        /\ wait_state' = [wait_state EXCEPT ![h] = "0"]
        /\ wakeup_flags' = [wakeup_flags EXCEPT ![h] = Kind]
        /\ inside' = inside \ {p}
    BY <1>2, <1>3 DEF Wakeup, WakeupWait, LTypeOK, SemTypeOK, LNoPanic
  <1>5. h # p /\ p \in inside /\ p \notin Granted
    BY <1>3 DEF Waiting, ClientInv, Granted
  <1>6. h \notin inside /\ h \notin Granted
    BY <1>2, <1>3, KernelSemaphore DEF Waiting, ClientInv, Granted
  <1>7. Granted' = Granted \cup {h}
    BY <1>2, <1>3, <1>4, <1>5 DEF Granted, Waiting, LTypeOK, SemTypeOK
  <1>8. Holders' = (Holders \ {p}) \cup {h} /\ p \in Holders /\ h \notin Holders
    BY <1>4, <1>5, <1>6, <1>7 DEF Holders
  <1>9. UnitsConserved'
    BY <1>2, <1>8, SameNumber
  <1>10. LTypeOK'
    BY <1>2, <1>4 DEF LTypeOK, SemTypeOK, Locations, ProcStates
  <1>11. NoDuplicates(queue)'
    BY <1>1, <1>4, TailMembers
  <1>12. \A q \in Procs : WaitInQueue(queue, q)' <=> WaitInQueue(queue, q) /\ q # h
    BY <1>1, <1>4, TailMembers
  <1>13. QueueInv'
    BY <1>2, <1>3, <1>4, <1>5, <1>11, <1>12 DEF QueueInv, Waiting, LTypeOK, SemTypeOK
  <1>14. ClientInv'
    BY <1>4, <1>5 DEF ClientInv, LTypeOK, SemTypeOK
  <1>15. NoIdleUnit'
    BY DEF NoIdleUnit
  <1>16. FIFO!PassOn(p)
    BY <1>1, <1>4, <1>8 DEF FIFO!PassOn
  <1> QED
    BY <1>16, <1>4, <1>9, <1>10, <1>13, <1>14, <1>15 DEF LNoPanic

\* Every step of the kernel lock keeps the invariant, and is a step of the
\* first-come first-served lock or leaves it alone.
LEMMA NextInv ==
    ASSUME LInv, [LNext]_lvars
    PROVE  LInv' /\ [FIFO!Next]_(FIFO!lockVars)
  <1> DEFINE Goal == LInv' /\ [FIFO!Next]_(FIFO!lockVars)
  <1> SUFFICES Goal
    OBVIOUS
  <1>1. CASE UNCHANGED lvars
    BY <1>1 DEF lvars, dispatchVars, semVars, LInv, LTypeOK, SemTypeOK, LNoPanic, QueueInv,
                NoDuplicates, WaitInQueue, Waiting, ClientInv, NoIdleUnit, UnitsConserved,
                Holders, Granted, FIFO!lockVars
  <1>2. ASSUME NEW p \in Procs,
               Lock(p) \/ Unlock(p) \/ EnterDown(p) \/ EnterUp(p) \/ Yield(p) \/ LResume(p)
               \/ LeaveCPU(p) \/ LKill(p) \/ TakeAfterWait(p)
        PROVE  Goal
    <2>1. LInv' /\ UNCHANGED <<value, Holders, queue>>
      BY <1>2, CallStep, ScheduleStep, KillStep, WakeStep
    <2> QED
      BY <2>1 DEF FIFO!lockVars
  <1>3. ASSUME NEW p \in Procs, TakeAtOnce(p) \/ TryLock(p) PROVE Goal
    BY <1>3, TakeStep DEF FIFO!Next
  <1>4. ASSUME NEW p \in Procs, Sleep(p) PROVE Goal
    BY <1>4, WaitStep DEF FIFO!Next
  <1>5. ASSUME NEW p \in Procs, Return(p) PROVE Goal
    BY <1>5, ReturnStep DEF FIFO!Next
  <1>6. ASSUME NEW p \in Procs, HandOff(p) PROVE Goal
    BY <1>6, HandOffStep DEF FIFO!Next
  <1> HIDE DEF Goal
  <1>7. ASSUME LNext PROVE Goal
    BY <1>2, <1>3, <1>4, <1>5, <1>6, <1>7 DEF LNext, KernelStep
  <1> QED
    BY <1>1, <1>7

\* The invariant of the kernel lock holds in every reachable state.
THEOREM Invariance == LSpec => []LInv
  <1>1. LInv /\ [LNext]_lvars => LInv'
    BY NextInv
  <1> QED
    BY <1>1, InitInv, PTL DEF LSpec

\* down/up exclude: at most InitValue processes are between them, for every
\* number of processes and processors.
THEOREM LockExclusion == LSpec => []Exclusion
  <1>1. LInv => Exclusion
    <2> SUFFICES ASSUME LInv PROVE Exclusion
      OBVIOUS
    <2>1. Cardinality(inside) <= Cardinality(Holders)
      BY HoldersFinite, FS_Subset DEF LInv, Holders
    <2> QED
      BY <2>1, HoldersFinite, FS_Subset, FS_CardinalityType, InitValueAssumption
         DEF LInv, LTypeOK, SemTypeOK, UnitsConserved, Exclusion, Holders
  <1> QED
    BY <1>1, Invariance, PTL

\* No unit is lost or made, nobody sleeps beside a free unit, and neither
\* down()'s assert(flags == 0) nor the assertions of __up and __down fail.
THEOREM LockSafety == LSpec => [](UnitsConserved /\ NoIdleUnit /\ LNoPanic)
  <1>1. LInv => UnitsConserved /\ NoIdleUnit /\ LNoPanic
    BY DEF LInv
  <1> QED
    BY <1>1, Invariance, PTL

\* sem.c's kernel semaphore implements the first-come first-served lock.
THEOREM LockImplementsFifo == LSpec => Implements
  <1>1. LInit => FIFO!Init
    BY DEF LInit, SemInit, DispatchInit, FIFO!Init, Holders, Granted
  <1>2. LInv /\ [LNext]_lvars => [FIFO!Next]_(FIFO!lockVars)
    BY NextInv
  <1> QED
    BY <1>1, <1>2, Invariance, PTL DEF LSpec, Implements, FIFO!Spec

=============================================================================
