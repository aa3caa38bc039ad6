-------------------------------- MODULE MCIpc -------------------------------
(***************************************************************************)
(* What processes use to wait for each other, on small instances: the      *)
(* mailbox (Mbox), the user semaphore (USem), events (Event), and the      *)
(* keyboard (Stdin) and the semaphores of a process (SemQueue).  Each      *)
(* behaviour is one of one of the five; which says of which.  What two of  *)
(* them call by the same name is one variable here.                        *)
(***************************************************************************)
EXTENDS Mbox, TLC

CONSTANTS MaxPosts, Events, StdinSize, StdinLens, MaxTyped, Sems

VARIABLES
    which,
    value, valid, killed, freeing, posted, succeeded,   \* of USem
    event, target, ok, taken,                           \* of Event
    stdin, got, lost,                                   \* of Stdin
    sq,                                                 \* of SemQueue
    queue,                                              \* of USem and Stdin
    armed                                               \* of USem and Event

USem == INSTANCE USem WITH Kind <- "WT_USEM", InitValue <- 0
Event == INSTANCE Event
Stdin == INSTANCE Stdin
SemQueue == INSTANCE SemQueue

mboxOnly == <<box, max_slots, slots, inuse, msgs, receivers, tl, expires>>
semOnly == <<value, valid, killed, freeing, posted, succeeded>>
eventOnly == <<event, target, ok, taken>>
stdinOnly == <<stdin, got, lost>>
Off(x) == x = "unused"
NoMbox == /\ Off(box) /\ Off(max_slots) /\ Off(slots) /\ Off(inuse) /\ Off(msgs)
          /\ Off(receivers) /\ Off(tl) /\ Off(expires)
NoSem == /\ Off(value) /\ Off(valid) /\ Off(killed) /\ Off(freeing)
         /\ Off(posted) /\ Off(succeeded)
NoEvent == Off(event) /\ Off(target) /\ Off(ok) /\ Off(taken)
NoStdin == Off(stdin) /\ Off(got) /\ Off(lost)

IpcInit ==
    \/ /\ which = "mbox" /\ MInit
       /\ NoSem /\ NoEvent /\ NoStdin /\ Off(queue) /\ Off(armed) /\ Off(sq)
    \/ /\ which = "usem" /\ USem!UInit
       /\ NoMbox /\ NoEvent /\ NoStdin /\ Off(senders) /\ Off(arg) /\ Off(sq)
    \/ /\ which = "event" /\ Event!Init
       /\ NoMbox /\ NoSem /\ NoStdin
       /\ Off(timed) /\ Off(panic) /\ Off(queue) /\ Off(arg) /\ Off(sq)
    \/ /\ which = "stdin" /\ Stdin!Init
       /\ NoMbox /\ NoSem /\ NoEvent
       /\ Off(timed) /\ Off(panic) /\ Off(senders) /\ Off(armed) /\ Off(sq)
    \/ /\ which = "semqueue" /\ SemQueue!Init
       /\ NoMbox /\ NoSem /\ NoEvent /\ NoStdin
       /\ Off(running) /\ Off(state) /\ Off(wait_state) /\ Off(wakeup_flags) /\ Off(pc)
       /\ Off(timed) /\ Off(panic) /\ Off(senders) /\ Off(armed) /\ Off(queue) /\ Off(arg)

IpcNext ==
    \/ /\ which = "mbox" /\ MNext
       /\ UNCHANGED <<which, semOnly, eventOnly, stdinOnly, queue, armed, sq>>
    \/ /\ which = "usem" /\ USem!UNext
       /\ UNCHANGED <<which, mboxOnly, eventOnly, stdinOnly, senders, arg, sq>>
    \/ /\ which = "event" /\ Event!Next
       /\ UNCHANGED <<which, mboxOnly, semOnly, stdinOnly, timed, panic, queue, arg, sq>>
    \/ /\ which = "stdin" /\ Stdin!Next
       /\ UNCHANGED <<which, mboxOnly, semOnly, eventOnly, timed, panic, senders, armed, sq>>
    \/ /\ which = "semqueue" /\ SemQueue!Next
       /\ UNCHANGED <<which, vars, semOnly, eventOnly, stdinOnly, queue, armed>>

IpcSpec ==
    IpcInit /\ [][IpcNext]_<<which, vars, semOnly, eventOnly, stdinOnly, queue, armed, sq>>

\* No definition tells one process, or the memory of one semaphore, from another.
Symmetry == Permutations(Procs) \cup Permutations(Sems)

\* Mbox!CountsExact: the slot and in-use counts of a mailbox are exact, and it
\* is reused only when nobody is inside; every variable has its type.
MailboxCountsExact == which = "mbox" => MTypeOK /\ CountsExact

\* Mbox!NoStrandedReceiver and Mbox!NoStrandedSender: no wake-up is lost while
\* there is a message for a receiver or a slot for a sender.
\* Stdin!ReaderNotStranded: nor while there is a character for a reader.
NoStranded ==
    /\ which = "mbox" => NoStrandedReceiver /\ NoStrandedSender
    /\ which = "stdin" => Stdin!ReaderNotStranded

\* SleeperReachable of Mbox and USem, and Event!SendersLinked: a process that
\* sleeps in a mailbox, a user semaphore or an event box is in a queue that
\* somebody can still find, and an event box holds only processes in the call.
\* SemQueue!SemsReachable: a semaphore lives as long as a process can name it.
Reachable ==
    /\ which = "mbox" => SleeperReachable
    /\ which = "usem" => USem!SleeperReachable
    /\ which = "event" => Event!SendersLinked
    /\ which = "semqueue" => SemQueue!SemsReachable

\* USem!PostsAccounted: every unit posted is on the semaphore or with exactly
\* one waiter, also when waiters give up; every variable has its type.
UnitsAccounted == which = "usem" => USem!UTypeOK /\ USem!PostsAccounted

\* USem!TimerWithinWait: no timer outlives the wait it was armed for.
NoTimerOutlivesWait == which = "usem" => USem!TimerWithinWait


\* Event!ReceiverNotStranded: a receiver sleeps only while nobody offers it an
\* event.
NoRendezvousMissed == which = "event" => Event!ReceiverNotStranded
=============================================================================
