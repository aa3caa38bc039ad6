------------------------------ MODULE SemQueue ------------------------------
(***************************************************************************)
(* The semaphores of a process (sync/sem.c): a sem_queue_t lists them and  *)
(* belongs to every thread cloned with CLONE_SEM; a fork copies the list,  *)
(* and a semaphore is freed with the last sem_undo_t that points to it.    *)
(* One processor: a call is one action, cut where it sleeps in usem_down.  *)
(* What a semaphore does with its waiters is USem; that the count of a     *)
(* sem_queue_t is the number of its users is Resources!RefsExact.          *)
(***************************************************************************)
EXTENDS Integers, FiniteSets

CONSTANTS
    Procs,      \* processes; a sem_queue_t is named by one of them
    Sems        \* memory for semaphore_t; its address is the sem_id

VARIABLE sq     \* see Init

Nobody == "none"
Users(s, q) == {p \in Procs : s.use[p] = q}

\* use: proc->sem_queue.  semus: the semaphores that a queue has a sem_undo_t
\* of.  at: the semaphore that a process inside usem_down uses.
Init ==
    \E first \in Procs :
        sq = [use    |-> [p \in Procs |-> IF p = first THEN first ELSE Nobody],
              semus  |-> [q \in Procs |-> {}],
              count  |-> [m \in Sems |-> 0],
              valid  |-> {},
              at     |-> [p \in Procs |-> Nobody],
              asleep |-> {},
              freed  |-> {},        \* who uses memory that was freed
              panic  |-> "none"]

\* semu_destroy for the semaphores M of queue q
semu_destroy(s, q, M) ==
    [s EXCEPT !.semus[q] = @ \ M,
              !.count = [m \in Sems |-> IF m \in M THEN @[m] - 1 ELSE @[m]],
              !.freed = @ \cup {p \in Procs : s.at[p] \in M /\ s.count[s.at[p]] = 1}]

\* semu_create for the semaphores M in queue q
semu_create(s, q, M) ==
    [s EXCEPT !.semus[q] = @ \cup M,
              !.count = [m \in Sems |-> IF m \in M THEN @[m] + 1 ELSE @[m]]]

\* The last user of the queue calls exit_sem_queue.
put_sem_queue_Always(s, p) ==
    [semu_destroy(s, s.use[p], s.semus[s.use[p]]) EXCEPT !.use[p] = Nobody]
put_sem_queue(s, p) ==
    LET q == s.use[p]
    IN  [IF Users(s, q) = {p} THEN semu_destroy(s, q, s.semus[q]) ELSE s
            EXCEPT !.use[p] = Nobody]

\* dup_sem_queue
Copied(s, to, from) == semu_create(s, to, s.semus[from] \cap s.valid)

\* p is alive, not inside usem_down
MayCall(p) == sq.panic = "none" /\ sq.use[p] # Nobody /\ sq.at[p] = Nobody
Mine(p) == sq.semus[sq.use[p]]
FreeQueues == {q \in Procs : Users(sq, q) = {}}

----------------------------------------------------------------------------
(* The calls                                                               *)

\* ipc_sem_init
SemInit(p, m) ==
    /\ MayCall(p) /\ sq.count[m] = 0
    /\ sq' = [semu_create(sq, sq.use[p], {m}) EXCEPT !.valid = @ \cup {m}]

\* Whoever looks up a semaphore that was freed takes it off the list.
SearchDrops(p, m) ==
    /\ MayCall(p) /\ m \in Mine(p) \ sq.valid
    /\ sq' = semu_destroy(sq, sq.use[p], {m})

\* ipc_sem_wait that blocks
Wait(p, m) ==
    /\ MayCall(p) /\ m \in Mine(p) \cap sq.valid
    /\ sq' = [sq EXCEPT !.at[p] = m, !.asleep = @ \cup {p}]

\* A post, its timer or a kill wakes a waiter.
Wake(p) ==
    /\ sq.panic = "none" /\ p \in sq.asleep
    /\ sq' = [sq EXCEPT !.asleep = @ \ {p}]

\* Back from schedule(), __down locks the semaphore and leaves its queue.
WaitReturn(p) ==
    /\ sq.panic = "none" /\ sq.at[p] # Nobody /\ p \notin sq.asleep
    /\ sq' = IF p \in sq.freed THEN [sq EXCEPT !.panic = "use_after_free"]
             ELSE [sq EXCEPT !.at[p] = Nobody]

\* ipc_sem_free wakes everybody.
Interrupted(m) == {p \in sq.asleep : sq.at[p] = m}

Free(p, m) ==
    /\ MayCall(p) /\ m \in Mine(p) \cap sq.valid
    /\ sq' = [sq EXCEPT !.valid = @ \ {m}, !.asleep = @ \ Interrupted(m)]

\* copy_sem; when memory runs out in the middle, exit_sem_queue gives back
\* what was copied and nothing changed
Clone(p, c) ==
    /\ MayCall(p) /\ sq.use[c] = Nobody
    /\ sq' = [sq EXCEPT !.use[c] = sq.use[p]]

Fork(p, c, q) ==
    /\ MayCall(p) /\ sq.use[c] = Nobody /\ q \in FreeQueues
    /\ sq' = [Copied(sq, q, sq.use[p]) EXCEPT !.use[c] = q]

Exec(p, q) ==
    /\ MayCall(p) /\ q \in FreeQueues
    /\ sq' = [put_sem_queue(sq, p) EXCEPT !.use[p] = q]

Exit(p) == MayCall(p) /\ sq' = put_sem_queue(sq, p)

Next ==
    \E p \in Procs :
        \/ \E m \in Sems : SemInit(p, m) \/ SearchDrops(p, m) \/ Wait(p, m) \/ Free(p, m)
        \/ \E c \in Procs : Clone(p, c) \/ \E q \in Procs : Fork(p, c, q)
        \/ \E q \in Procs : Exec(p, q)
        \/ Wake(p) \/ WaitReturn(p) \/ Exit(p)

Spec == Init /\ [][Next]_sq

----------------------------------------------------------------------------
(* Properties                                                              *)

\* Every semaphore is counted once for each queue that lists it, so it lives
\* as long as some process can name it; and whoever sleeps on one can be
\* woken: it is valid, and its own queue still lists it.
SemsReachable ==
    /\ \A m \in Sems : sq.count[m] = Cardinality({q \in Procs : m \in sq.semus[q]})
    /\ \A q \in Procs : Users(sq, q) = {} => sq.semus[q] = {}
    /\ \A p \in sq.asleep : sq.at[p] \in Mine(p) \cap sq.valid

\* Nobody returns into a semaphore that was freed.  (Broken when a thread
\* frees the semaphore, and looks it up again before the waiter it woke has
\* run: README, section 3.)
WaiterSafe == sq.freed = {}
=============================================================================
