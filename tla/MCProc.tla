------------------------------- MODULE MCProc --------------------------------
(* Processes and threads on small instances.                               *)
EXTENDS Proc, TLC

\* Without the waits for other things.
FamilySpec == Start /\ [][\E p \in Procs : Family(p)]_vars

\* Init is told apart from the others, which are alike.
Symmetry == Permutations(Procs \ {Init})
=============================================================================
