------------------------------ MODULE MCSched -------------------------------
(* The scheduler on small instances.                                       *)
EXTENDS Sched

\* Sched!QueueSound: a run queue holds only processes that can run, none twice
\* and none that executes, so the assertions of RR_enqueue and RR_dequeue hold;
\* every variable has its type, a time slice included.
QueuesSound == TypeOK /\ QueueSound
=============================================================================
