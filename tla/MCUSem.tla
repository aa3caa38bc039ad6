------------------------------- MODULE MCUSem --------------------------------
(* The user semaphore on small instances.                                  *)
EXTENDS USem
=============================================================================
