------------------------------- MODULE Stdin --------------------------------
(***************************************************************************)
(* The keyboard buffer of fs/devs/dev_stdin.c on one processor: the        *)
(* interrupt handler stores characters, readers wait for them.  A          *)
(* character is the number of the key stroke.                              *)
(***************************************************************************)
EXTENDS WaitQueue, SequencesExt

CONSTANTS
    StdinSize,  \* STDIN_BUFSIZE
    StdinLens,  \* the lengths that readers ask for, positive
    MaxTyped    \* bound: key strokes

VARIABLES
    stdin,      \* [rpos, wpos, buffer, typed]: p_rpos, p_wpos, stdin_buffer and
                \* the number of key strokes
    queue,      \* wait_queue
    pc,         \* "out", or "read" inside schedule()
    arg,        \* len of each reader
    got,        \* history: the characters handed out, in that order
    lost        \* history: the characters overwritten before they were read

vars == <<dispatchVars, wakeup_flags, stdin, queue, pc, arg, got, lost>>

Init ==
    /\ DispatchInit
    /\ wakeup_flags = [p \in Procs |-> "WT_INTERRUPTED"]
    /\ stdin = [rpos |-> 0, wpos |-> 0, typed |-> 0,
                buffer |-> [i \in 0..StdinSize - 1 |-> 0]]
    /\ queue = <<>>
    /\ pc = [p \in Procs |-> "out"]
    /\ arg = [p \in Procs |-> 0]
    /\ got = <<>> /\ lost = {}

At(p, l) == p \in running /\ pc[p] = l
Slot(i) == stdin.buffer[i % StdinSize]
Unread == [i \in 1..stdin.wpos - stdin.rpos |-> Slot(stdin.rpos + i - 1)]
HasRoom == stdin.wpos - stdin.rpos < StdinSize

ToWake_First == IF queue = <<>> THEN {} ELSE {Head(queue)}
ToWake == ToSet(queue)

\* dev_stdin_write, from the interrupt handler: user mode or idle.  In a full
\* buffer the place of p_wpos is that of the oldest unread character.
Type ==
    /\ \A p \in running : pc[p] = "out"
    /\ stdin.typed < MaxTyped
    /\ stdin' = [stdin EXCEPT !.typed = @ + 1,
                              !.buffer[stdin.wpos % StdinSize] = stdin.typed + 1,
                              !.wpos = IF HasRoom THEN @ + 1 ELSE @]
    /\ lost' = IF HasRoom THEN lost ELSE lost \cup {Slot(stdin.wpos)}
    /\ WakeupWait(ToWake, "WT_KBD")
    /\ queue' = SelectSeq(queue, LAMBDA p : p \notin ToWake)
    /\ UNCHANGED <<running, pc, arg, got>>

\* dev_stdin_read stops when it has len characters or the buffer is empty, so
\* it waits only before the first.
Take(p, len) ==
    LET n == IF len < Len(Unread) THEN len ELSE Len(Unread)
    IN  /\ stdin' = [stdin EXCEPT !.rpos = @ + n]
        /\ got' = got \o SubSeq(Unread, 1, n)
        /\ pc' = [pc EXCEPT ![p] = "out"]
        /\ UNCHANGED <<dispatchVars, wakeup_flags, lost>>

WaitKey(p) ==
    /\ WaitCurrentSet(p, "WT_KBD")
    /\ Leave(p)
    /\ queue' = WaitQueueAdd(WaitCurrentDel(queue, p), p)
    /\ pc' = [pc EXCEPT ![p] = "read"]
    /\ UNCHANGED <<stdin, got, lost>>

Read(p, len) ==
    /\ At(p, "out")
    /\ \/ Unread # <<>> /\ Take(p, len) /\ UNCHANGED <<queue, arg>>
       \/ Unread = <<>> /\ WaitKey(p) /\ arg' = [arg EXCEPT ![p] = len]

\* Back from schedule(): try_again only when dev_stdin_write woke it
ReadWoken(p) ==
    /\ At(p, "read") /\ wakeup_flags[p] = "WT_KBD"
    /\ \/ Unread # <<>> /\ Take(p, arg[p]) /\ queue' = WaitCurrentDel(queue, p)
       \/ Unread = <<>> /\ WaitKey(p)
    /\ UNCHANGED arg

ReadInterrupted(p) ==
    /\ At(p, "read") /\ wakeup_flags[p] # "WT_KBD"
    /\ queue' = WaitCurrentDel(queue, p)
    /\ pc' = [pc EXCEPT ![p] = "out"]
    /\ UNCHANGED <<dispatchVars, wakeup_flags, stdin, arg, got, lost>>

\* __do_kill of a reader
Interrupt(p) ==
    /\ Interruptible(wait_state[p])
    /\ Wakeup({p})
    /\ UNCHANGED <<running, wakeup_flags, stdin, queue, pc, arg, got, lost>>

Yield(p) ==
    /\ At(p, "out")
    /\ Leave(p)
    /\ UNCHANGED <<state, wait_state, wakeup_flags, stdin, queue, pc, arg, got, lost>>

Resume(p) ==
    /\ Dispatch(p)
    /\ UNCHANGED <<wakeup_flags, stdin, queue, pc, arg, got, lost>>

Next ==
    \/ Type
    \/ \E p \in Procs :
           \/ \E len \in StdinLens : Read(p, len)
           \/ ReadWoken(p) \/ ReadInterrupted(p)
           \/ Interrupt(p) \/ Yield(p) \/ Resume(p)

Spec == Init /\ [][Next]_vars

----------------------------------------------------------------------------
(* Properties                                                              *)

\* A reader sleeps only while there is nothing to read, and where
\* dev_stdin_write finds it: the key strokes that came while several readers
\* waited, some of them killed, leave nobody asleep beside a character.
ReaderNotStranded ==
    \A p \in Procs : pc[p] = "read" /\ state[p] = "SLEEPING" =>
        Unread = <<>> /\ WaitInQueue(queue, p)

\* Every key stroke is handed to one reader, is still in the buffer, or was
\* overwritten in a full buffer; until that happens they come in order.
KeysIntact ==
    /\ ToSet(got \o Unread) = (1..stdin.typed) \ lost
    /\ Len(got \o Unread) = Cardinality((1..stdin.typed) \ lost)
    /\ lost = {} => got \o Unread = [i \in 1..stdin.typed |-> i]

\* No character is overwritten before it was read.  (Broken by a full buffer:
\* README, section 3.)
NothingLost == lost = {}
=============================================================================
