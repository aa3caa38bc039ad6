------------------------------ MODULE MCKLock -------------------------------
(* The kernel lock on small instances.                                     *)
EXTENDS KLock

\* The waiting side of down and up: nobody sleeps while a unit is free, down()
\* is only ever woken by up() and up() finds a sleeping waiter (the assertions
\* of sem.c), also when sleepers are killed; every variable has its type.
WaitersSound == LTypeOK /\ NoIdleUnit /\ LNoPanic
=============================================================================
